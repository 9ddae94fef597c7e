------------------------------ MODULE FoldFacts ------------------------------
(***************************************************************************)
(* Facts about sets of numbers, among them the places of a sequence, and   *)
(* the fold of a sequence with any operator: it takes one step for each    *)
(* element, from the first to the last.                                    *)
(***************************************************************************)
EXTENDS SequencesExt, FiniteSetTheorems, WellFoundedInduction, TLAPS

CONSTANT Step(_, _)   \* what the fold does with one element

\* Induction on the numbers up to n, for a set of them.
LEMMA UpTo ==
    ASSUME NEW set, NEW n \in Nat, 0 \in set, \A k \in set : k < n => k + 1 \in set
    PROVE  \A k \in 0 .. n : k \in set
<1> DEFINE rest == {k \in 0 .. n : k \notin set}
<1> SUFFICES ASSUME rest # {} PROVE FALSE
  OBVIOUS
<1>1. rest \subseteq Nat
  OBVIOUS
<1>2. PICK m \in rest : \A k \in rest : ~(<<k, m>> \in OpToRel(<, Nat))
  BY <1>1, NatLessThanWellFounded, WFMin
<1>3. m \in 0 .. n /\ m \notin set
  OBVIOUS
<1>4. m - 1 \in Nat /\ m - 1 < n
  BY <1>3
<1>5. m - 1 \notin rest
  <2> SUFFICES ASSUME m - 1 \in rest PROVE FALSE
    OBVIOUS
  <2>1. ~(<<m - 1, m>> \in OpToRel(<, Nat))
    BY <1>2
  <2> HIDE DEF rest
  <2> QED
    BY <1>3, <1>4, <2>1 DEF OpToRel
<1>6. m - 1 \in set
  BY <1>3, <1>4, <1>5
<1>7. (m - 1) + 1 \in set
  BY <1>4, <1>6
<1> QED
  BY <1>3, <1>7

\* A set of numbers up to m that has m
LEMMA Greatest ==
    ASSUME NEW set, NEW m \in set, set \subseteq 0 .. m, m \in Nat
    PROVE  Max(set) = m
<1>1. \E k \in set : \A j \in set : k >= j
  OBVIOUS
<1>2. Max(set) \in set /\ \A j \in set : Max(set) >= j
  BY <1>1 DEF Max
<1>3. Max(set) \in 0 .. m /\ Max(set) >= m
  BY <1>2
<1> QED
  BY <1>3

\* The places up to k + 1 without the last one
LEMMA LastPlace ==
    ASSUME NEW k \in Nat
    PROVE  Max(1 .. k + 1) = k + 1 /\ (1 .. k + 1) \ {k + 1} = 1 .. k /\ 1 .. k + 1 # {}
<1>1. k + 1 \in 1 .. k + 1 /\ 1 .. k + 1 \subseteq 0 .. k + 1 /\ k + 1 \in Nat
  OBVIOUS
<1>2. Max(1 .. k + 1) = k + 1
  BY <1>1, Greatest
<1> QED
  BY <1>1, <1>2

\* A nonempty set of naturals has a least element.
LEMMA Least ==
    ASSUME NEW set, set \subseteq Nat, set # {}
    PROVE  Min(set) \in set /\ \A k \in set : Min(set) <= k
<1>1. PICK m \in set : \A k \in set : ~(<<k, m>> \in OpToRel(<, Nat))
  BY NatLessThanWellFounded, WFMin
<1>2. ASSUME NEW k \in set PROVE m <= k
  <2> SUFFICES ASSUME k < m PROVE FALSE
    OBVIOUS
  <2>1. <<k, m>> \in OpToRel(<, Nat)
    BY DEF OpToRel
  <2> QED
    BY <1>1, <2>1
<1>3. \E k \in set : \A j \in set : k <= j
  BY <1>2
<1> QED
  BY <1>3 DEF Min

\* A nonempty set of numbers up to n has a greatest one.
LEMMA HasGreatest ==
    ASSUME NEW set, NEW n \in Nat, set \subseteq 0 .. n, set # {}
    PROVE  \E k \in set : \A j \in set : j <= k
<1> DEFINE rest == {n - k : k \in set}
<1>1. rest \subseteq Nat /\ rest # {}
  <2>1. \A k \in set : k \in 0 .. n /\ n - k \in Nat
    OBVIOUS
  <2> QED
    BY <2>1
<1>2. Min(rest) \in rest /\ \A k \in rest : Min(rest) <= k
  BY <1>1, Least
<1>3. PICK k \in set : Min(rest) = n - k
  BY <1>2
<1>4. ASSUME NEW j \in set PROVE j <= k
  <2>1. n - j \in rest
    OBVIOUS
  <2>2. n - k <= n - j
    BY <1>2, <1>3, <2>1
  <2> QED
    BY <2>2
<1> QED
  BY <1>4

-----------------------------------------------------------------------------
(* Folds                                                                   *)

\* The function by which the first n elements are folded, for each set of their places
Folded(iter, n, base, seq) ==
    iter = [set \in SUBSET (1 .. n) |->
              IF set = {} THEN base ELSE Step(iter[set \ {Max(set)}], seq[Max(set)])]

LEMMA FoldExists ==
    ASSUME NEW n \in Nat, NEW base, NEW seq
    PROVE  \E iter : Folded(iter, n, base, seq)
<1> DEFINE done == {k \in 0 .. n : \E iter : Folded(iter, k, base, seq)}
<1>1. 0 \in done
  <2>1. SUBSET (1 .. 0) = {{}}
    OBVIOUS
  <2>2. Folded([set \in SUBSET (1 .. 0) |-> base], 0, base, seq)
    BY <2>1 DEF Folded
  <2> QED
    BY <2>2
<1>2. ASSUME NEW k \in 0 .. n, NEW iter, Folded(iter, k, base, seq)
      PROVE  \E more : Folded(more, k + 1, base, seq)
  <2> DEFINE more == [set \in SUBSET (1 .. k + 1) |->
               IF k + 1 \in set THEN Step(iter[set \ {k + 1}], seq[k + 1]) ELSE iter[set]]
  <2>1. ASSUME NEW set \in SUBSET (1 .. k + 1)
        PROVE  more[set] = IF set = {} THEN base
                           ELSE Step(more[set \ {Max(set)}], seq[Max(set)])
    <3>1. CASE k + 1 \in set
      <4>1. Max(set) = k + 1
        <5>1. set \subseteq 0 .. k + 1 /\ k + 1 \in Nat
          OBVIOUS
        <5> QED
          BY <3>1, <5>1, Greatest
      <4>2. set \ {k + 1} \in SUBSET (1 .. k + 1) /\ k + 1 \notin set \ {k + 1}
        OBVIOUS
      <4>3. more[set \ {k + 1}] = iter[set \ {k + 1}]
        BY <4>2
      <4>4. more[set] = Step(iter[set \ {k + 1}], seq[k + 1])
        BY <3>1
      <4> QED
        BY <3>1, <4>1, <4>3, <4>4
    <3>2. CASE k + 1 \notin set
      <4>1. set \in SUBSET (1 .. k)
        BY <3>2
      <4>2. set \ {Max(set)} \in SUBSET (1 .. k + 1) /\ k + 1 \notin set \ {Max(set)}
        BY <3>2
      <4>3. more[set] = iter[set] /\ more[set \ {Max(set)}] = iter[set \ {Max(set)}]
        BY <3>2, <4>2
      <4>4. iter[set] = IF set = {} THEN base ELSE Step(iter[set \ {Max(set)}], seq[Max(set)])
        BY <1>2, <4>1 DEF Folded
      <4> QED
        BY <4>3, <4>4
    <3> QED
      BY <3>1, <3>2
  <2>2. Folded(more, k + 1, base, seq)
    <3> SUFFICES more = [set \in SUBSET (1 .. k + 1) |->
                  IF set = {} THEN base ELSE Step(more[set \ {Max(set)}], seq[Max(set)])]
      BY DEF Folded
    <3>1. more = [set \in SUBSET (1 .. k + 1) |-> more[set]]
      OBVIOUS
    <3> HIDE DEF more
    <3> QED
      BY <2>1, <3>1
  <2> QED
    BY <2>2
<1>3. ASSUME NEW k \in done, k < n PROVE k + 1 \in done
  <2>1. k \in 0 .. n /\ k + 1 \in 0 .. n
    BY <1>3
  <2> QED
    BY <1>2, <2>1
<1> HIDE DEF done
<1>4. n \in done
  BY <1>1, <1>3, UpTo
<1> QED
  BY <1>4 DEF done

\* What a fold is after each element
StepByStep(after, n, base, seq) ==
    /\ after[0] = base
    /\ \A k \in 0 .. n : k < n => after[k + 1] = Step(after[k], seq[k + 1])

LEMMA FoldStepByStep ==
    ASSUME NEW n \in Nat, NEW base, NEW seq, DOMAIN seq = 1 .. n
    PROVE  \E after : StepByStep(after, n, base, seq) /\ FoldLeft(Step, base, seq) = after[n]
<1> DEFINE iter == CHOOSE fold : Folded(fold, n, base, seq)
           after == [k \in 0 .. n |-> iter[1 .. k]]
<1>1. FoldLeft(Step, base, seq) = iter[1 .. n]
  BY DEF FoldLeft, MapThenFoldSet, Folded
<1>2. iter = [set \in SUBSET (1 .. n) |->
             IF set = {} THEN base ELSE Step(iter[set \ {Max(set)}], seq[Max(set)])]
  <2>1. Folded(iter, n, base, seq)
    BY FoldExists
  <2> HIDE DEF iter
  <2> QED
    BY <2>1 DEF Folded
<1> HIDE DEF iter
<1>3. after[0] = base
  <2>1. 1 .. 0 = {} /\ {} \in SUBSET (1 .. n)
    OBVIOUS
  <2>2. iter[{}] = base
    BY <1>2, <2>1
  <2> QED
    BY <2>1, <2>2
<1>4. ASSUME NEW k \in 0 .. n, k < n PROVE after[k + 1] = Step(after[k], seq[k + 1])
  <2>1. Max(1 .. k + 1) = k + 1 /\ (1 .. k + 1) \ {k + 1} = 1 .. k /\ 1 .. k + 1 # {}
    <3>1. k \in Nat
      OBVIOUS
    <3> QED
      BY <3>1, LastPlace
  <2>2. 1 .. k + 1 \in SUBSET (1 .. n) /\ k + 1 \in 0 .. n
    BY <1>4
  <2>3. iter[1 .. k + 1] = Step(iter[1 .. k], seq[k + 1])
    BY <1>2, <2>1, <2>2
  <2>4. after[k + 1] = iter[1 .. k + 1] /\ after[k] = iter[1 .. k]
    BY <2>2
  <2> QED
    BY <2>3, <2>4
<1>5. FoldLeft(Step, base, seq) = after[n]
  BY <1>1
<1> HIDE DEF after
<1>6. StepByStep(after, n, base, seq)
  BY <1>3, <1>4 DEF StepByStep
<1> QED
  BY <1>5, <1>6
=============================================================================
