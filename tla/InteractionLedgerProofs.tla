----------------------- MODULE InteractionLedgerProofs -----------------------
(***************************************************************************)
(* What follows from the promise of InteractionLedger alone, hence for     *)
(* everything that implements it.                                          *)
(***************************************************************************)
EXTENDS InteractionLedger, TLAPS

\* Numbers are given out once; what is executed was submitted.
LedgerInv ==
  /\ issued \in Nat
  /\ waiting \subseteq 1..issued
  /\ ledger \in Seq(1..issued)
  /\ AtMostOnce

\* Where the entries of the ledger of the next state come from.
LEMMA LedgerGrows ==
  ASSUME LedgerInv, Decide
  PROVE  /\ DOMAIN ledger = 1..Len(ledger) /\ DOMAIN ledger' = 1..Len(ledger')
         /\ Len(ledger) \in Nat /\ Len(ledger') \in Nat /\ Len(ledger) <= Len(ledger')
         /\ DOMAIN Batch = 1..(Len(ledger') - Len(ledger))
         /\ \A i \in 1..Len(ledger) : ledger'[i] = ledger[i]
         /\ \A i \in 1..(Len(ledger') - Len(ledger)) : Batch[i] = ledger'[Len(ledger) + i]
<1>1. ledger \in Seq(1..issued) /\ ledger' \in Seq(1..issued)
  BY DEF LedgerInv, Decide
<1>2. /\ Len(ledger) <= Len(ledger')
      /\ SubSeq(ledger, 1, Len(ledger)) = SubSeq(ledger', 1, Len(ledger))
  BY DEF Decide, IsPrefix
<1> DEFINE n == Len(ledger)
           m == Len(ledger')
<1>3. n \in Nat /\ m \in Nat /\ n <= m
  BY <1>1, <1>2
<1>4. ASSUME NEW i \in 1..n
      PROVE  ledger'[i] = ledger[i]
  <2>1. SubSeq(ledger, 1, n)[i] = ledger[i]
    BY <1>1, <1>3
  <2>2. SubSeq(ledger', 1, n)[i] = ledger'[i]
    BY <1>1, <1>3
  <2> QED
    BY <1>2, <2>1, <2>2
<1>5. /\ DOMAIN Batch = 1..(m - n)
      /\ \A i \in 1..(m - n) : Batch[i] = ledger'[n + i]
  BY <1>1, <1>3 DEF Batch
<1> QED
  BY <1>1, <1>3, <1>4, <1>5

\* A decision executes nothing that was executed before, and nothing twice.
LEMMA DecideKeeps ==
  ASSUME LedgerInv, Decide
  PROVE  LedgerInv'
<1> DEFINE n == Len(ledger)
           m == Len(ledger')
<1>1. /\ DOMAIN ledger = 1..n /\ DOMAIN ledger' = 1..m
      /\ n \in Nat /\ m \in Nat /\ n <= m
      /\ DOMAIN Batch = 1..(m - n)
      /\ \A i \in 1..n : ledger'[i] = ledger[i]
      /\ \A i \in 1..(m - n) : Batch[i] = ledger'[n + i]
  BY LedgerGrows
<1> HIDE DEF n, m
<1>2. \A i \in 1..n : ledger'[i] \in ToSet(ledger)
  BY <1>1 DEF ToSet
<1>3. \A i \in 1..m : i \notin 1..n => /\ i - n \in DOMAIN Batch
                                       /\ Batch[i - n] = ledger'[i]
  BY <1>1
<1>4. \A i \in 1..m : i \notin 1..n => ledger'[i] \in waiting \ waiting'
  <2>1. ToSet(Batch) \subseteq waiting \ waiting'
    BY DEF Decide
  <2> QED
    BY <1>3, <2>1 DEF ToSet
<1>5. ToSet(ledger) \cap waiting = {}
  BY DEF LedgerInv, AtMostOnce
<1>6. ASSUME NEW i \in 1..m, NEW j \in 1..m, ledger'[i] = ledger'[j]
      PROVE  i = j
  <2>1. CASE i \in 1..n /\ j \in 1..n
    BY <1>1, <1>6, <2>1 DEF LedgerInv, AtMostOnce, IsInjective
  <2>2. CASE (i \in 1..n /\ j \notin 1..n) \/ (i \notin 1..n /\ j \in 1..n)
    BY <1>2, <1>4, <1>5, <1>6, <2>2
  <2>3. CASE i \notin 1..n /\ j \notin 1..n
    <3>1. IsInjective(Batch)
      BY DEF Decide
    <3>2. i - n = j - n
      BY <1>3, <1>6, <2>3, <3>1 DEF IsInjective
    <3> QED
      BY <1>1, <3>2
  <2> QED
    BY <2>1, <2>2, <2>3
<1>7. IsInjective(ledger')
  BY <1>1, <1>6 DEF IsInjective
<1>8. ToSet(ledger') \cap waiting' = {}
  <2>1. waiting' \subseteq waiting
    BY DEF Decide
  <2>2. ASSUME NEW i \in 1..m
        PROVE  ledger'[i] \notin waiting'
    BY <1>2, <1>4, <1>5, <2>1
  <2> QED
    BY <1>1, <2>2 DEF ToSet
<1>9. issued' \in Nat /\ waiting' \subseteq 1..issued' /\ ledger' \in Seq(1..issued')
  BY DEF LedgerInv, Decide
<1> QED
  BY <1>7, <1>8, <1>9 DEF LedgerInv, AtMostOnce

\* A submission gets a number that nothing has had.
LEMMA SubmitKeeps ==
  ASSUME LedgerInv, Submit
  PROVE  LedgerInv'
<1>1. issued \in Nat /\ issued' = issued + 1 /\ waiting \subseteq 1..issued
      /\ waiting' = waiting \cup {issued + 1} /\ ledger' = ledger
      /\ ledger \in Seq(1..issued)
  BY DEF LedgerInv, Submit
<1>2. ToSet(ledger) \subseteq 1..issued
  BY <1>1 DEF ToSet
<1>3. ledger \in Seq(1..(issued + 1))
  <2>1. 1..issued \subseteq 1..(issued + 1)
    BY <1>1
  <2> QED
    BY <1>1, <2>1
<1>4. waiting' \subseteq 1..issued'
  BY <1>1
<1> QED
  BY <1>1, <1>2, <1>3, <1>4 DEF LedgerInv, AtMostOnce

\* Whatever implements the ledger executes every interaction at most once, and
\* never one that still waits.
THEOREM LedgerAtMostOnce == Spec => []AtMostOnce
<1>1. Init => LedgerInv
  BY DEF Init, LedgerInv, AtMostOnce, IsInjective, ToSet
<1>2. LedgerInv /\ [Next]_<<issued, waiting, ledger>> => LedgerInv'
  BY SubmitKeeps, DecideKeeps DEF Next, LedgerInv, AtMostOnce
<1>3. LedgerInv => AtMostOnce
  BY DEF LedgerInv
<1> QED
  BY <1>1, <1>2, <1>3, PTL DEF Spec
=============================================================================
