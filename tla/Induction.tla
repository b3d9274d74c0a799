------------------------------- MODULE Induction -------------------------------
(***************************************************************************)
(* What the proofs need of induction.  The induction theorems of the       *)
(* library take the property as a parameter; here it is a set, and the     *)
(* argument is always that a smallest counterexample does not exist.  That *)
(* there is a smallest one follows from the well-foundedness of the finite *)
(* sets.                                                                   *)
(***************************************************************************)
EXTENDS Integers, FiniteSets, FiniteSetsExt, FiniteSetTheorems, WellFoundedInduction, TLAPS

(* Of some finite sets one has no other among its subsets. *)
LEMMA SmallestSet ==
  ASSUME NEW S, NEW F, F \subseteq FiniteSubsetsOf(S), F # {}
  PROVE  \E T \in F : \A U \in F : U \subseteq T => U = T
<1>1. PICK T \in F : \A U \in F : ~(<<U, T>> \in StrictSubsetOrdering(S))
  BY FS_StrictSubsetOrderingWellFounded, WFMin
<1>2. ASSUME NEW U \in F, U \subseteq T
      PROVE U = T
  BY <1>1, <1>2 DEF StrictSubsetOrdering, FiniteSubsetsOf
<1>. QED
  BY <1>2

(* Of some numbers one is the least. *)
LEMMA LeastNumber ==
  ASSUME NEW T \in SUBSET Nat, T # {}
  PROVE  \E x \in T : \A y \in T : x <= y
<1>. DEFINE F == {0..t : t \in T}
<1>1. F \subseteq FiniteSubsetsOf(Nat)
  <2>1. \A t \in T : 0..t \in SUBSET Nat /\ IsFiniteSet(0..t)
    BY FS_Interval
  <2>. QED
    BY <2>1 DEF FiniteSubsetsOf
<1>2. F # {}
  OBVIOUS
<1>. HIDE DEF F
<1>3. \E X \in F : \A Y \in F : Y \subseteq X => Y = X
  BY <1>1, <1>2, SmallestSet
<1>4. PICK x \in T : \A Y \in F : Y \subseteq 0..x => Y = 0..x
  BY <1>3 DEF F
<1>5. ASSUME NEW y \in T, y < x PROVE FALSE
  <2>1. 0..y \in F /\ 0..y \subseteq 0..x
    BY <1>5 DEF F
  <2>2. x \in 0..x /\ x \notin 0..y
    BY <1>5
  <2>. QED
    BY <2>1, <2>2, <1>4
<1>. QED
  BY <1>5

(* What holds of 0, and of a number's successor, holds of all numbers. *)
LEMMA AllNumbers ==
  ASSUME NEW S, 0 \in S, \A n \in Nat : n \in S => n + 1 \in S
  PROVE  Nat \subseteq S
<1>. SUFFICES ASSUME Nat \ S # {} PROVE FALSE
  OBVIOUS
<1>1. PICK x \in Nat \ S : \A y \in Nat \ S : x <= y
  BY LeastNumber
<1>2. x # 0 /\ x - 1 \in Nat /\ (x - 1) + 1 = x
  BY <1>1
<1>. QED
  BY <1>1, <1>2

(* Of some numbers up to a bound one is the greatest, and Max picks it. *)
LEMMA MaxFacts ==
  ASSUME NEW n \in Nat, NEW T \in SUBSET (0..n), T # {}
  PROVE  Max(T) \in T /\ \A y \in T : y <= Max(T)
<1>. DEFINE U == {n - t : t \in T}
<1>1. U \in SUBSET Nat /\ U # {}
  OBVIOUS
<1>. HIDE DEF U
<1>2. PICK u \in U : \A v \in U : u <= v
  BY <1>1, LeastNumber
<1>3. PICK x \in T : u = n - x
  BY <1>2 DEF U
<1>4. \A y \in T : x >= y
  <2>. TAKE y \in T
  <2>1. n - y \in U
    BY DEF U
  <2>2. n - x <= n - y
    BY <1>2, <1>3, <2>1
  <2>. QED
    BY <2>2
<1>5. Max(T) \in T /\ \A y \in T : Max(T) >= y
  BY <1>4 DEF Max
<1>. QED
  BY <1>5

(* The greatest number of an interval. *)
LEMMA MaxOfInterval ==
  ASSUME NEW n \in Nat \ {0}
  PROVE  Max(1..n) = n
<1>1. 1..n \in SUBSET (0..n) /\ n \in 1..n
  OBVIOUS
<1>2. Max(1..n) \in 1..n /\ \A y \in 1..n : y <= Max(1..n)
  BY <1>1, MaxFacts
<1>. QED
  BY <1>1, <1>2

-------------------------------------------------------------------------------
(* Recursion over the subsets of a finite set.  An element is chosen of    *)
(* each, and the value for the set comes from the element and the value    *)
(* for the rest: sums over sets and folds over sequences are of this form. *)

(* F solves the recursion for the subsets of T; pick chooses, and step has *)
(* for each element and each value of D the value that comes of them.      *)
Solves(F, T, D, pick, base, step) ==
  /\ F \in [SUBSET T -> D]
  /\ \A s \in SUBSET T : F[s] = IF s = {} THEN base ELSE step[<<pick[s], F[s \ {pick[s]}]>>]

(* Two solutions agree where both are defined. *)
LEMMA SolutionsAgree ==
  ASSUME NEW S, IsFiniteSet(S), NEW D, NEW base, NEW step, NEW pick,
         \A s \in SUBSET S : s # {} => pick[s] \in s,
         NEW T \in SUBSET S, NEW U \in SUBSET T, NEW F, NEW G,
         Solves(F, T, D, pick, base, step), Solves(G, U, D, pick, base, step)
  PROVE  G[U] = F[U]
<1>. DEFINE Bad == {s \in SUBSET U : F[s] # G[s]}
<1>. SUFFICES ASSUME Bad # {} PROVE FALSE
  OBVIOUS
<1>1. PICK s \in Bad : \A u \in Bad : u \subseteq s => u = s
  <2>1. Bad \subseteq FiniteSubsetsOf(S)
    BY FS_Subset DEF FiniteSubsetsOf
  <2>. HIDE DEF Bad
  <2>. QED
    BY <2>1, SmallestSet
<1>2. s # {}
  BY DEF Solves
<1>3. pick[s] \in s
  BY <1>2
<1>4. s \ {pick[s]} \in SUBSET U /\ s \ {pick[s]} # s
  BY <1>3
<1>5. F[s \ {pick[s]}] = G[s \ {pick[s]}]
  BY <1>1, <1>4
<1>. QED
  BY <1>2, <1>5 DEF Solves

(* There is a solution. *)
LEMMA SolutionExists ==
  ASSUME NEW S, IsFiniteSet(S), NEW D, NEW base \in D, NEW pick,
         \A s \in SUBSET S : s # {} => pick[s] \in s,
         NEW step \in [S \X D -> D]
  PROVE  \E F : Solves(F, S, D, pick, base, step)
<1>. DEFINE Bad == {T \in SUBSET S : ~\E F : Solves(F, T, D, pick, base, step)}
<1>. SUFFICES ASSUME Bad # {} PROVE FALSE
  OBVIOUS
<1>1. PICK T \in Bad : \A U \in Bad : U \subseteq T => U = T
  <2>1. Bad \subseteq FiniteSubsetsOf(S)
    BY FS_Subset DEF FiniteSubsetsOf
  <2>. HIDE DEF Bad
  <2>. QED
    BY <2>1, SmallestSet
<1>. DEFINE H(s) == CHOOSE F : Solves(F, s, D, pick, base, step)
            c    == pick[T]
            G    == [s \in SUBSET T |->
                       IF s = T THEN IF T = {} THEN base ELSE step[<<c, H(T \ {c})[T \ {c}]>>]
                       ELSE H(s)[s]]
<1>2. \A s \in SUBSET T : s # T => Solves(H(s), s, D, pick, base, step)
  <2>1. \A s \in SUBSET T : s # T => \E F : Solves(F, s, D, pick, base, step)
    BY <1>1
  <2>. QED
    BY <2>1
<1>. HIDE DEF H
<1>3. \A s \in SUBSET T : s # {} => pick[s] \in s
  OBVIOUS
<1>4. \A s \in SUBSET T : s # T => H(s)[s] \in D
  <2>1. \A s \in SUBSET T : s # T => H(s) \in [SUBSET s -> D]
    BY <1>2 DEF Solves
  <2>. QED
    BY <2>1
<1>5. G \in [SUBSET T -> D]
  <2>1. ASSUME NEW s \in SUBSET T PROVE G[s] \in D
    <3>1. CASE s # T
      BY <1>4, <3>1
    <3>2. CASE s = T
      <4>1. T # {} => T \ {c} \in SUBSET T /\ T \ {c} # T /\ c \in S
        BY <1>3
      <4>2. T # {} => <<c, H(T \ {c})[T \ {c}]>> \in S \X D
        BY <4>1, <1>4
      <4>. QED
        BY <3>2, <4>2
    <3>. QED
      BY <3>1, <3>2
  <2>. QED
    BY <2>1
<1>6. ASSUME NEW s \in SUBSET T
      PROVE G[s] = IF s = {} THEN base ELSE step[<<pick[s], G[s \ {pick[s]}]>>]
  <2>1. CASE s = T
    <3>1. T # {} => T \ {c} \in SUBSET T /\ T \ {c} # T
      BY <1>3
    <3>. QED
      BY <2>1, <3>1
  <2>2. CASE s # T /\ s = {}
    BY <2>2, <1>2 DEF Solves
  <2>3. CASE s # T /\ s # {}
    <3>. DEFINE r == s \ {pick[s]}
    <3>1. r \in SUBSET s /\ r \in SUBSET T /\ r # T /\ s \in SUBSET S
      BY <2>3, <1>3
    <3>2. H(s)[s] = step[<<pick[s], H(s)[r]>>]
      BY <2>3, <1>2 DEF Solves
    <3>3. Solves(H(s), s, D, pick, base, step) /\ Solves(H(r), r, D, pick, base, step)
      BY <2>3, <3>1, <1>2
    <3>. HIDE DEF r
    <3>4. H(s)[r] = H(r)[r]
      BY <3>1, <3>3, SolutionsAgree
    <3>5. G[s] = H(s)[s] /\ G[r] = H(r)[r]
      BY <2>3, <3>1
    <3>. QED
      BY <2>3, <3>2, <3>4, <3>5 DEF r
  <2>. QED
    BY <2>1, <2>2, <2>3
<1>7. Solves(G, T, D, pick, base, step)
  BY <1>5, <1>6 DEF Solves
<1>. QED
  BY <1>1, <1>7

(* The form that FoldLeft has for a sequence of n elements: the element    *)
(* that is chosen is the last one.                                         *)
GoesLeft(F, n, D, base, step) ==
  /\ F \in [SUBSET (1..n) -> D]
  /\ \A s \in SUBSET (1..n) : F[s] = IF s = {} THEN base ELSE step[<<Max(s), F[s \ {Max(s)}]>>]

(* There is a function of that form. *)
LEMMA LastFirst ==
  ASSUME NEW n \in Nat, NEW D, NEW base \in D, NEW step \in [(1..n) \X D -> D]
  PROVE  \E F : GoesLeft(F, n, D, base, step)
<1>. DEFINE pick == [s \in SUBSET (1..n) |-> Max(s)]
<1>1. \A s \in SUBSET (1..n) : s # {} => pick[s] \in s
  <2>. TAKE s \in SUBSET (1..n)
  <2>1. s \in SUBSET (0..n)
    OBVIOUS
  <2>. QED
    BY <2>1, MaxFacts
<1>2. IsFiniteSet(1..n)
  BY FS_Interval
<1>. HIDE DEF pick
<1>3. PICK F : Solves(F, 1..n, D, pick, base, step)
  BY <1>1, <1>2, SolutionExists
<1>. QED
  BY <1>3 DEF Solves, pick, GoesLeft

(* A solution of it, taken at the first elements, goes through the         *)
(* sequence from left to right.                                            *)
LEMMA Unrolled ==
  ASSUME NEW n \in Nat, NEW i \in 1..n
  PROVE  1..i \in SUBSET (1..n) /\ 1..i # {} /\ Max(1..i) = i /\ (1..i) \ {i} = 1..(i - 1)
BY MaxOfInterval
===============================================================================
