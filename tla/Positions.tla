------------------------------- MODULE Positions -------------------------------
(***************************************************************************)
(* Facts about positions in a text, which the proofs about the JSON        *)
(* reader, the binding of parameters and the grammar of routes share.      *)
(***************************************************************************)
EXTENDS Integers, Sequences, SequenceTheorems, WellFoundedInduction, TLAPS

\* A set of positions that is not empty has a first one.
LEMMA FirstPosition ==
    ASSUME NEW S \in SUBSET Nat, S # {}
    PROVE  \E q \in S : \A r \in S : q <= r
<1>1. PICK q \in S : \A r \in S : ~(<<r, q>> \in OpToRel(<, Nat))
  BY NatLessThanWellFounded, WFMin
<1>2. ASSUME NEW r \in S, r < q PROVE FALSE
  <2>1. <<r, q>> \in OpToRel(<, Nat)
    BY <1>2 DEF OpToRel
  <2>2. QED
    BY <1>1, <2>1
<1>3. QED
  BY <1>2

\* The search for the first position of a set, from p up to one that is in it.
LEMMA FirstFrom ==
    ASSUME NEW n \in Nat, NEW p \in 1..n, NEW Z \in SUBSET Nat, n \in Z
    PROVE  \E q \in p..n : q \in Z /\ \A r \in p..(q - 1) : r \notin Z
<1>1. n \in (p..n) \cap Z /\ (p..n) \cap Z \in SUBSET Nat
  OBVIOUS
<1>2. PICK q \in (p..n) \cap Z : \A r \in (p..n) \cap Z : q <= r
  BY <1>1, FirstPosition
<1>3. \A r \in p..(q - 1) : r \in p..n /\ ~(q <= r)
  BY <1>2
<1>4. QED
  BY <1>2, <1>3

\* A set of positions that is not empty and has a bound has a last one.
LEMMA LastPosition ==
    ASSUME NEW n \in Nat, NEW S \in SUBSET (0..n), S # {}
    PROVE  \E q \in S : \A r \in S : r <= q
<1> DEFINE T == {n - r : r \in S}
<1>1. T \in SUBSET Nat /\ T # {}
  <2>1. \A r \in S : n - r \in Nat
    OBVIOUS
  <2>2. QED
    BY <2>1
<1>2. PICK m \in T : \A k \in T : m <= k
  <2> HIDE DEF T
  <2>1. QED
    BY <1>1, FirstPosition
<1>3. PICK q \in S : m = n - q
  BY <1>2
<1>4. \A r \in S : n - q <= n - r
  BY <1>2, <1>3
<1>5. QED
  BY <1>3, <1>4

\* Appending to a sequence whose elements nothing is known of.
LEMMA AppendAny ==
    ASSUME NEW n \in Nat, NEW s, s = [k \in 1..n |-> s[k]], NEW v
    PROVE  /\ Len(s) = n
           /\ Len(Append(s, v)) = n + 1
           /\ Append(s, v) = [k \in 1..(n + 1) |-> Append(s, v)[k]]
<1> DEFINE M == {s[k] : k \in 1..n} \cup {v}
<1>1. s \in [1..n -> M] /\ v \in M
  OBVIOUS
<1> HIDE DEF M
<1>2. s \in Seq(M) /\ Len(s) = n
  BY <1>1, SeqDef
<1>3. Append(s, v) \in Seq(M) /\ Len(Append(s, v)) = n + 1
  BY <1>1, <1>2, AppendProperties
<1>4. QED
  BY <1>2, <1>3

\* A value for each step up to n, each made of the one before: a definition by recursion
\* over a range of numbers has a solution.
Advances(T, n) == [1..n -> [T -> T]]
Solves(f, T, n, first, step) ==
    f \in [0..n -> T] /\ f[0] = first /\ \A k \in 1..n : f[k] = step[k][f[k - 1]]

LEMMA Recursion ==
    ASSUME NEW T, NEW n \in Nat, NEW first \in T, NEW step \in Advances(T, n)
    PROVE  \E f : Solves(f, T, n, first, step)
<1> DEFINE Solved(m) == \E f \in [0..m -> T] : /\ f[0] = first
                                               /\ \A k \in 1..m : f[k] = step[k][f[k - 1]]
           D == {m \in 0..n : ~Solved(m)}
<1>1. D = {}
  <2>1. SUFFICES ASSUME D # {} PROVE FALSE
    OBVIOUS
  <2>2. PICK m \in D : \A r \in D : m <= r
    <3>1. D \in SUBSET Nat
      OBVIOUS
    <3> HIDE DEF D
    <3>2. QED
      BY <2>1, <3>1, FirstPosition
  <2>3. Solved(0)
    <3> DEFINE f == [k \in 0..0 |-> first]
    <3>1. f \in [0..0 -> T] /\ f[0] = first /\ \A k \in 1..0 : f[k] = step[k][f[k - 1]]
      OBVIOUS
    <3>2. QED
      BY <3>1
  <2> HIDE DEF Solved
  <2>4. m \in 1..n /\ m - 1 \in 0..n /\ m - 1 \notin D /\ ~Solved(m)
    BY <2>2, <2>3
  <2>5. Solved(m - 1)
    BY <2>4
  <2>6. PICK f \in [0..(m - 1) -> T] : f[0] = first /\ \A k \in 1..(m - 1) : f[k] = step[k][f[k - 1]]
    BY <2>5 DEF Solved
  <2> DEFINE g == [k \in 0..m |-> IF k = m THEN step[m][f[m - 1]] ELSE f[k]]
  <2>7. f[m - 1] \in T /\ step[m] \in [T -> T]
    BY <2>4, <2>6 DEF Advances
  <2>8. g \in [0..m -> T] /\ g[0] = first
    BY <2>4, <2>6, <2>7
  <2>9. ASSUME NEW k \in 1..m PROVE g[k] = step[k][g[k - 1]]
    <3>1. k - 1 \in 0..(m - 1) /\ g[k - 1] = f[k - 1]
      BY <2>4
    <3>2. CASE k = m
      BY <3>1, <3>2
    <3>3. CASE k # m
      <4>1. k \in 1..(m - 1) /\ g[k] = f[k]
        BY <2>4, <3>3
      <4>2. QED
        BY <2>6, <3>1, <4>1
    <3>4. QED
      BY <3>2, <3>3
  <2> HIDE DEF g
  <2>10. Solved(m)
    BY <2>8, <2>9 DEF Solved
  <2>11. QED
    BY <2>4, <2>10
<1>2. Solved(n)
  <2> HIDE DEF Solved
  <2>1. n \in 0..n /\ n \notin D
    BY <1>1
  <2>2. QED
    BY <2>1
<1>3. QED
  BY <1>2 DEF Solves

===============================================================================
