-------------------------------- MODULE Folding --------------------------------
(***************************************************************************)
(* FoldLeft(Op, v, s) goes through a state for each element of s.          *)
(*                                                                         *)
(* FoldLeft is defined by recursion over the sets of positions (Fold says  *)
(* this in the library's words, but takes no more of it, so that the       *)
(* module can be instantiated for every fold there is), and what a         *)
(* recursion yields is for an induction to say.  The induction here is     *)
(* over the numbers, by a least counterexample, and is about sets, so that *)
(* it can be cited for any predicate: {n \in Nat : P(n)}.                  *)
(*                                                                         *)
(* A module that proves something of a fold takes an instance of this one  *)
(* with the fold's operator, whose first argument is what it captures.     *)
(***************************************************************************)
EXTENDS Integers, Sequences, TLAPS
LOCAL INSTANCE WellFoundedInduction
CONSTANT Op(_, _, _)

Max(S) == CHOOSE x \in S : \A y \in S : x >= y

\* What FoldLeft(LAMBDA w, e : Op(c, w, e), v, s) is.
Fold(c, v, s) ==
  LET iter[S \in SUBSET DOMAIN s] == IF S = {} THEN v ELSE LET x == Max(S) IN Op(c, iter[S \ {x}], s[x])
  IN iter[DOMAIN s]

\* A set of numbers that is not empty has a least one.
LEMMA LeastOf ==
  ASSUME NEW T, T \subseteq Nat, T # {}
  PROVE  \E m \in T : \A k \in T : m <= k
<1> DEFINE R == OpToRel(<, Nat)
<1>1. IsWellFoundedOn(R, Nat) BY NatLessThanWellFounded
<1>2. PICK m \in T : \A k \in T : ~ (<<k, m>> \in R)
  <2> HIDE DEF R
  <2> QED BY <1>1, WFMin
<1>3. ASSUME NEW k \in T PROVE m <= k
  <2>1. CASE k < m
    <3>1. <<k, m>> \in R BY <2>1 DEF OpToRel
    <3> HIDE DEF R
    <3> QED BY <1>2, <3>1
  <2> QED BY <2>1
<1> QED BY <1>3

\* What holds at 0 and goes from each number to the next holds of all numbers.
LEMMA Induction ==
  ASSUME NEW T, 0 \in T, \A n \in Nat : n \in T => n + 1 \in T
  PROVE  Nat \subseteq T
<1> SUFFICES ASSUME NEW n \in Nat, n \notin T PROVE FALSE OBVIOUS
<1> DEFINE Bad == {k \in Nat : k \notin T}
<1>1. PICK m \in Bad : \A k \in Bad : m <= k BY LeastOf
<1>2. m # 0 /\ m - 1 \in Nat OBVIOUS
<1>3. m - 1 \in T BY <1>1, <1>2
<1> QED BY <1>2, <1>3

\* A set of positions that is not empty has a greatest one, and it is what Max gives.
LEMMA GreatestOf ==
  ASSUME NEW n \in Nat, NEW S, S \subseteq 1..n, S # {}
  PROVE  /\ Max(S) \in S /\ \A k \in S : k <= Max(S)
<1> DEFINE T == {m \in Nat : \E k \in S : m = n - k}
<1>1. T # {}
  <2>1. PICK x \in S : TRUE OBVIOUS
  <2>2. n - x \in T BY <2>1
  <2> QED BY <2>2
<1>2. PICK m \in T : \A k \in T : m <= k BY <1>1, LeastOf
<1>3. PICK x \in S : m = n - x OBVIOUS
<1>4. \A k \in S : x >= k
  <2> TAKE k \in S
  <2>1. n - k \in T OBVIOUS
  <2> QED BY <1>2, <1>3, <2>1
<1> QED BY <1>4 DEF Max

\* The run of states of a fold that looks at the elements in S only.
Passes(c, v, s, n, S, h) ==
  /\ h[0] = v
  /\ \A i \in 1..n : h[i] = IF i \in S THEN Op(c, h[i - 1], s[i]) ELSE h[i - 1]

\* There is such a run.
LEMMA PassExists ==
  ASSUME NEW c, NEW v, NEW s, NEW n \in Nat, NEW S
  PROVE  \E h : Passes(c, v, s, n, S, h)
<1> DEFINE Upto(k, h) == /\ h[0] = v
                         /\ \A i \in 1..k : h[i] = IF i \in S THEN Op(c, h[i - 1], s[i]) ELSE h[i - 1]
           T == {k \in Nat : k <= n => \E h : Upto(k, h)}
<1>1. 0 \in T
  <2>1. Upto(0, [i \in 0..0 |-> v]) OBVIOUS
  <2> QED BY <2>1
<1>2. ASSUME NEW k \in Nat, k \in T PROVE k + 1 \in T
  <2> SUFFICES ASSUME k + 1 <= n PROVE \E h : Upto(k + 1, h) OBVIOUS
  <2>1. PICK h : Upto(k, h) BY <1>2
  <2> DEFINE x == IF k + 1 \in S THEN Op(c, h[k], s[k + 1]) ELSE h[k]
             g == [i \in 0..k + 1 |-> IF i <= k THEN h[i] ELSE x]
  <2>4. Upto(k + 1, g)
    <3>1. ASSUME NEW i \in 1..k + 1 PROVE g[i] = IF i \in S THEN Op(c, g[i - 1], s[i]) ELSE g[i - 1]
      <4>1. CASE i <= k BY <2>1, <4>1
      <4>2. CASE i = k + 1 BY <2>1, <4>2
      <4> QED BY <4>1, <4>2
    <3> QED BY <2>1, <3>1
  <2> QED BY <2>4
<1>3. n \in T
  <2> HIDE DEF T
  <2> QED BY <1>1, <1>2, Induction
<1> QED BY <1>3 DEF Passes

\* Two passes that look at the same elements up to k are the same up to k.
LEMMA PassesAgree ==
  ASSUME NEW c, NEW v, NEW s, NEW n \in Nat, NEW S1, NEW S2, NEW k \in 0..n,
         S1 \cap (1..k) = S2 \cap (1..k),
         NEW h1, NEW h2, Passes(c, v, s, n, S1, h1), Passes(c, v, s, n, S2, h2)
  PROVE  \A i \in 0..k : h1[i] = h2[i]
<1> DEFINE T == {i \in Nat : i <= k => h1[i] = h2[i]}
<1>1. 0 \in T BY DEF Passes
<1>2. ASSUME NEW i \in Nat, i \in T PROVE i + 1 \in T
  <2> SUFFICES ASSUME i + 1 <= k PROVE h1[i + 1] = h2[i + 1] OBVIOUS
  <2>1. i + 1 \in 1..n /\ i + 1 \in 1..k OBVIOUS
  <2>2. i + 1 \in S1 <=> i + 1 \in S2 BY <2>1
  <2>3. h1[i] = h2[i] BY <1>2
  <2>4. h1[i + 1] = IF i + 1 \in S1 THEN Op(c, h1[i + 1 - 1], s[i + 1]) ELSE h1[i + 1 - 1] BY <2>1 DEF Passes
  <2>5. h2[i + 1] = IF i + 1 \in S2 THEN Op(c, h2[i + 1 - 1], s[i + 1]) ELSE h2[i + 1 - 1] BY <2>1 DEF Passes
  <2>6. i + 1 - 1 = i OBVIOUS
  <2> QED BY <2>2, <2>3, <2>4, <2>5, <2>6
<1>3. Nat \subseteq T
  <2> HIDE DEF T
  <2> QED BY <1>1, <1>2, Induction
<1> QED BY <1>3

\* After the greatest element it looks at, a pass stays.
LEMMA PassStays ==
  ASSUME NEW c, NEW v, NEW s, NEW n \in Nat, NEW k \in 0..n, NEW S \in SUBSET (1..k),
         NEW h, Passes(c, v, s, n, S, h)
  PROVE  h[n] = h[k]
<1> DEFINE T == {i \in Nat : k + i <= n => h[k + i] = h[k]}
<1>1. 0 \in T OBVIOUS
<1>2. ASSUME NEW i \in Nat, i \in T PROVE i + 1 \in T
  <2> SUFFICES ASSUME k + i + 1 <= n PROVE h[k + (i + 1)] = h[k] OBVIOUS
  <2>1. k + i + 1 \in 1..n /\ k + i + 1 \notin S /\ k + i + 1 - 1 = k + i /\ k + (i + 1) = k + i + 1 OBVIOUS
  <2>2. h[k + i + 1] = h[k + i] BY <2>1 DEF Passes
  <2> QED BY <1>2, <2>1, <2>2
<1>3. Nat \subseteq T
  <2> HIDE DEF T
  <2> QED BY <1>1, <1>2, Induction
<1>4. n - k \in T BY <1>3
<1>5. k + (n - k) = n OBVIOUS
<1> QED BY <1>4, <1>5

\* What FoldLeft() chooses an iterator by.
Iterates(c, v, s, it) ==
  it = [S \in SUBSET DOMAIN s |-> IF S = {} THEN v ELSE Op(c, it[S \ {Max(S)}], s[Max(S)])]

\* A fold is what its iterator gives for all positions.
LEMMA FoldIterates ==
  ASSUME NEW c, NEW v, NEW s
  PROVE  Fold(c, v, s) = (CHOOSE it : Iterates(c, v, s, it))[DOMAIN s]
BY DEF Fold, Iterates

\* There is an iterator: what it gives for a set of positions is where the run that
\* looks at them ends.
LEMMA SomeIterator ==
  ASSUME NEW c, NEW v, NEW s, NEW n \in Nat, DOMAIN s = 1..n
  PROVE  \E it : Iterates(c, v, s, it)
<1> DEFINE Ps(S) == CHOOSE h : Passes(c, v, s, n, S, h)
           it == [S \in SUBSET (1..n) |-> Ps(S)[n]]
<1>0. n \in Nat /\ DOMAIN s = 1..n OBVIOUS
<1>1. \A S : Passes(c, v, s, n, S, Ps(S)) BY PassExists
<1> HIDE DEF Ps
<1>2. ASSUME NEW S \in SUBSET (1..n) PROVE it[S] = IF S = {} THEN v ELSE Op(c, it[S \ {Max(S)}], s[Max(S)])
  <2>1. CASE S = {}
    <3>1. Ps(S)[n] = Ps(S)[0]
      <4>1. 0 \in 0..n /\ S \in SUBSET (1..0) BY <2>1, <1>0
      <4> QED BY <1>0, <1>1, <4>1, PassStays
    <3> QED BY <1>1, <2>1, <3>1 DEF Passes
  <2>2. CASE S # {}
    <3> DEFINE x == Max(S)
               R == S \ {x}
    <3>1. x \in S /\ \A y \in S : y <= x BY <2>2, <1>0, GreatestOf
    <3> HIDE DEF x
    <3>2. x \in 1..n /\ x \in 0..n /\ x - 1 \in 0..n BY <3>1, <1>0
    <3>3. Ps(S)[n] = Ps(S)[x]
      <4>1. S \in SUBSET (1..x) BY <3>1, <3>2, <1>0
      <4> QED BY <1>0, <1>1, <3>2, <4>1, PassStays
    <3>4. Ps(S)[x] = Op(c, Ps(S)[x - 1], s[x]) BY <1>1, <3>1, <3>2 DEF Passes
    <3>5. Ps(S)[x - 1] = Ps(R)[x - 1]
      <4>1. S \cap (1..(x - 1)) = R \cap (1..(x - 1)) BY <3>2
      <4>2. x - 1 \in 0..(x - 1) BY <3>2
      <4> QED BY <1>1, <3>2, <4>1, <4>2, PassesAgree
    <3>6. Ps(R)[n] = Ps(R)[x - 1]
      <4>1. R \in SUBSET (1..(x - 1)) BY <3>1, <3>2, <1>0
      <4> HIDE DEF R
      <4> QED BY <1>0, <1>1, <3>2, <4>1, PassStays
    <3>7. R \in SUBSET (1..n) OBVIOUS
    <3>8. it[R] = Ps(R)[n] /\ it[S] = Ps(S)[n] BY <3>7
    <3>9. it[S] = Op(c, it[R], s[x]) BY <3>3, <3>4, <3>5, <3>6, <3>8
    <3> QED BY <2>2, <3>9 DEF x
  <2> QED BY <2>1, <2>2
<1>3. Iterates(c, v, s, it)
  <2>1. it = [S \in SUBSET (1..n) |-> it[S]] OBVIOUS
  <2> HIDE DEF it
  <2> QED BY <1>0, <1>2, <2>1 DEF Iterates
<1> QED BY <1>3

\* The states f that a fold goes through, the last of which it gives.
Goes(c, v, s, n, f) ==
  /\ f[0] = v
  /\ \A i \in 1..n : f[i] = Op(c, f[i - 1], s[i])
  /\ Fold(c, v, s) = f[n]

\* Every fold over a sequence is such a run of states.
THEOREM FoldIsRun ==
  ASSUME NEW c, NEW v, NEW s, NEW n \in Nat, DOMAIN s = 1..n
  PROVE  \E f : Goes(c, v, s, n, f)
<1> DEFINE it == CHOOSE i : Iterates(c, v, s, i)
           f == [i \in 0..n |-> it[1..i]]
<1>0. n \in Nat /\ DOMAIN s = 1..n OBVIOUS
<1>1. Iterates(c, v, s, it) BY SomeIterator
<1>2. Fold(c, v, s) = it[1..n] BY <1>0, FoldIterates
<1> HIDE DEF it
<1>3. f[0] = v
  <2>1. 1..0 = {} /\ (1..0) \in SUBSET (1..n) BY <1>0
  <2>2. it[{}] = v BY <1>0, <1>1, <2>1 DEF Iterates
  <2> QED BY <1>0, <2>1, <2>2
<1>4. ASSUME NEW i \in 1..n PROVE f[i] = Op(c, f[i - 1], s[i])
  <2>0. i \in Nat /\ i >= 1 /\ i <= n BY <1>0
  <2>1. 1..i \subseteq 1..n /\ i \in 1..i BY <1>0, <2>0
  <2>2. Max(1..i) \in 1..i /\ \A k \in 1..i : k <= Max(1..i) BY <1>0, <2>0, <2>1, GreatestOf
  <2>3. Max(1..i) = i BY <2>0, <2>1, <2>2
  <2>4. (1..i) \ {i} = 1..(i - 1) BY <2>0
  <2>5. it[1..i] = Op(c, it[1..(i - 1)], s[i]) BY <1>0, <1>1, <2>1, <2>3, <2>4 DEF Iterates
  <2>6. f[i] = it[1..i] /\ f[i - 1] = it[1..(i - 1)] BY <1>0
  <2> HIDE DEF f
  <2> QED BY <2>5, <2>6
<1>7. Fold(c, v, s) = f[n] BY <1>0, <1>2
<1> HIDE DEF f
<1> QED BY <1>3, <1>4, <1>7 DEF Goes
\* A fold over a sequence with one more element is one step more.
LEMMA FoldGoesOn ==
  ASSUME NEW c, NEW v, NEW s, NEW t, NEW n \in Nat, DOMAIN s = 1..n, DOMAIN t = 1..(n + 1),
         \A i \in 1..n : t[i] = s[i]
  PROVE  Fold(c, v, t) = Op(c, Fold(c, v, s), t[n + 1])
<1>1. PICK f : Goes(c, v, s, n, f) BY FoldIsRun
<1>2. PICK g : Goes(c, v, t, n + 1, g) BY FoldIsRun
<1> DEFINE T == {i \in Nat : i <= n => g[i] = f[i]}
<1>3. 0 \in T BY <1>1, <1>2 DEF Goes
<1>4. ASSUME NEW i \in Nat, i \in T PROVE i + 1 \in T
  <2> SUFFICES ASSUME i + 1 <= n PROVE g[i + 1] = f[i + 1] OBVIOUS
  <2>1. i + 1 \in 1..n /\ i + 1 \in 1..(n + 1) /\ i + 1 - 1 = i OBVIOUS
  <2>2. f[i + 1] = Op(c, f[i], s[i + 1]) BY <1>1, <2>1 DEF Goes
  <2>3. g[i + 1] = Op(c, g[i], t[i + 1]) BY <1>2, <2>1 DEF Goes
  <2> QED BY <1>4, <2>1, <2>2, <2>3
<1>5. n \in T
  <2> HIDE DEF T
  <2> QED BY <1>3, <1>4, Induction
<1>6. n + 1 \in 1..(n + 1) /\ n + 1 - 1 = n OBVIOUS
<1>7. Fold(c, v, t) = Op(c, g[n], t[n + 1]) BY <1>2, <1>6 DEF Goes
<1> QED BY <1>1, <1>5, <1>7 DEF Goes

\* A fold over nothing is its initial value.
LEMMA FoldOfNone ==
  ASSUME NEW c, NEW v
  PROVE  Fold(c, v, <<>>) = v
<1>1. DOMAIN <<>> = 1..0 OBVIOUS
<1>2. PICK f : Goes(c, v, <<>>, 0, f) BY <1>1, FoldIsRun
<1> QED BY <1>2 DEF Goes
================================================================================
