----------------------- MODULE SendSequence_proofs -----------------------
(* Type correctness and uniqueness of the sequence numbers of SendSequence, and how far  *)
(* its counter can underflow.                                                            *)
EXTENDS SendSequence, FiniteSetTheorems, TLAPS

\* The number that NextNumber continues from: a counter below zero, which is a
\* word above MaxSeq, is followed by 0 just as MaxSeq is.
Current == IF sequence <= MaxSeq THEN sequence ELSE MaxSeq

\* The number k places before n on the ring 0 .. MaxSeq.
Back(n, k) == IF k <= n THEN n - k ELSE n + Cycle - k

\* A caller without a number has the age of a full cycle.
IdleIsOld == \A c \in Caller : pc[c] = "idle" => age[c] = Cycle

\* Each number lies as far behind the counter as its age says ...
BehindByAge ==
  \A c \in Caller : age[c] < Cycle => seq[c] = Back(Current, age[c])

\* ... and no two numbers are of one age.
AgesDiffer ==
  \A c, d \in Caller :
    c # d /\ age[c] < Cycle /\ age[d] < Cycle => age[c] # age[d]

\* The inductive invariant: UniqueInOrder alone says nothing of how the number
\* drawn next relates to those in use.
IInv ==
  /\ TypeOK
  /\ IdleIsOld
  /\ ~outOfOrder => BehindByAge /\ AgesDiffer

-----------------------------------------------------------------------------

\* The types hold initially and are kept by every step (all of SendMessageTo).
THEOREM TypeCorrect == Spec => []TypeOK
<1> USE SequenceAssumption DEF Cycle, TypeOK
<1>1. Init => TypeOK
  <2> SUFFICES ASSUME Init
               PROVE  TypeOK
    OBVIOUS
  <2>1. 0 \in 0 .. WordMod - 1 /\ Cycle \in 0 .. Cycle
    OBVIOUS
  <2> QED
    BY <2>1, Zenon DEF Init
<1>2. TypeOK /\ [Next]_vars => TypeOK'
  <2> SUFFICES ASSUME TypeOK, [Next]_vars
               PROVE  TypeOK'
    OBVIOUS
  <2>1. ASSUME NEW c \in Caller, IncSequence(c)
        PROVE  TypeOK'
    <3>1. NextNumber(sequence) \in 0 .. WordMod - 1
      BY DEF NextNumber, WordInc
    <3> QED
      BY <2>1, <3>1 DEF IncSequence, Older
  <2>2. ASSUME NEW c \in Caller, SendSucceeds(c)
        PROVE  TypeOK'
    BY <2>2 DEF SendSucceeds
  <2>3. ASSUME NEW c \in Caller, SendFails(c)
        PROVE  TypeOK'
    BY <2>3 DEF SendFails
  <2>4. ASSUME NEW c \in Caller, DecSequence(c)
        PROVE  TypeOK'
    <3>1. WordDec(sequence) \in 0 .. WordMod - 1
      BY DEF WordDec
    <3>2. age' \in [Caller -> 0 .. Cycle]
      BY <2>4 DEF DecSequence, Younger
    <3> QED
      BY <2>4, <3>1, <3>2 DEF DecSequence
  <2>5. ASSUME NEW c \in Caller, Conclude(c)
        PROVE  TypeOK'
    BY <2>5 DEF Conclude
  <2>6. CASE UNCHANGED vars
    BY <2>6 DEF vars
  <2> QED
    BY <2>1, <2>2, <2>3, <2>4, <2>5, <2>6 DEF Next
<1> QED
  BY <1>1, <1>2, PTL DEF Spec

-----------------------------------------------------------------------------

\* The number IncSequence returns is the ring's successor of Current, and
\* DecSequence takes Current back by one place, or leaves it where it was below
\* zero already.
LEMMA CounterOnRing ==
  ASSUME NEW n \in 0 .. WordMod - 1,
         NEW cur, cur = (IF n <= MaxSeq THEN n ELSE MaxSeq)
  PROVE  /\ NextNumber(n) = IF cur = MaxSeq THEN 0 ELSE cur + 1
         /\ NextNumber(n) \in 0 .. MaxSeq
         /\ n <= MaxSeq =>
              (IF WordDec(n) <= MaxSeq THEN WordDec(n) ELSE MaxSeq) = Back(cur, 1)
         /\ n > MaxSeq =>
              (IF WordDec(n) <= MaxSeq THEN WordDec(n) ELSE MaxSeq) = MaxSeq
BY SequenceAssumption DEF NextNumber, WordInc, WordDec, Back, Cycle

\* Going back k places from the successor of n, or k - 1 places from its
\* predecessor, reaches the same number.
LEMMA BackShifts ==
  ASSUME NEW n \in 0 .. MaxSeq, NEW k \in 0 .. Cycle - 1
  PROVE  /\ k + 1 < Cycle =>
              Back(IF n = MaxSeq THEN 0 ELSE n + 1, k + 1) = Back(n, k)
         /\ k > 0 => Back(Back(n, 1), k - 1) = Back(n, k)
         /\ Back(n, 0) = n
         /\ Back(n, 1) \in 0 .. MaxSeq
BY SequenceAssumption DEF Back, Cycle

\* Different distances lead to different numbers.
LEMMA BackInjective ==
  ASSUME NEW n \in 0 .. MaxSeq, NEW j \in 0 .. Cycle - 1, NEW k \in 0 .. Cycle - 1,
         j # k
  PROVE  Back(n, j) # Back(n, k)
BY SequenceAssumption DEF Back, Cycle

LEMMA InvImpliesUnique == IInv => UniqueInOrder
<1> SUFFICES ASSUME IInv, ~outOfOrder,
                    NEW c \in Caller, NEW d \in Caller, c # d,
                    age[c] < Cycle, age[d] < Cycle
             PROVE  seq[c] # seq[d]
  BY DEF UniqueInOrder
<1>1. Current \in 0 .. MaxSeq
  BY SequenceAssumption DEF IInv, TypeOK, Current
<1>2. age[c] \in 0 .. Cycle - 1 /\ age[d] \in 0 .. Cycle - 1 /\ age[c] # age[d]
  BY SequenceAssumption DEF IInv, TypeOK, AgesDiffer, Cycle
<1>3. seq[c] = Back(Current, age[c]) /\ seq[d] = Back(Current, age[d])
  BY DEF IInv, BehindByAge
<1> QED
  BY <1>1, <1>2, <1>3, BackInjective

LEMMA IncKeepsInv ==
  ASSUME IInv, TypeOK', NEW c \in Caller, IncSequence(c)
  PROVE  IInv'
<1> USE SequenceAssumption DEF Cycle
<1>1. IdleIsOld'
  BY DEF IInv, TypeOK, IdleIsOld, IncSequence, Older
<1>2. ASSUME ~outOfOrder'
      PROVE  BehindByAge' /\ AgesDiffer'
  <2>1. ~outOfOrder /\ BehindByAge /\ AgesDiffer
    BY <1>2 DEF IInv, IncSequence
  <2>2. /\ Current \in 0 .. MaxSeq
        /\ sequence' = NextNumber(sequence)
        /\ sequence' \in 0 .. MaxSeq
        /\ sequence' = IF Current = MaxSeq THEN 0 ELSE Current + 1
    BY CounterOnRing DEF IInv, TypeOK, Current, IncSequence
  <2>3. Current' = sequence'
    BY <2>2 DEF Current
  <2>4. \A d \in Caller : age'[d] = IF d = c THEN 0 ELSE Older(age[d])
    BY DEF IncSequence
  <2>5. \A d \in Caller : age[d] \in 0 .. Cycle
    BY DEF IInv, TypeOK
  <2>6. ASSUME NEW d \in Caller, age'[d] < Cycle
        PROVE  seq'[d] = Back(Current', age'[d])
    <3>1. CASE d = c
      <4>1. seq'[d] = sequence' /\ age'[d] = 0
        BY <3>1, <2>4 DEF IInv, TypeOK, IncSequence
      <4> QED
        BY <4>1, <2>2, <2>3 DEF Back
    <3>2. CASE d # c
      <4>1. seq'[d] = seq[d] /\ age'[d] = age[d] + 1 /\ age[d] + 1 < Cycle
        BY <3>2, <2>4, <2>5, <2>6 DEF IInv, TypeOK, IncSequence, Older
      <4>2. seq[d] = Back(Current, age[d]) /\ age[d] \in 0 .. Cycle - 1
        BY <4>1, <2>1, <2>5 DEF BehindByAge
      <4> QED
        BY <4>1, <4>2, <2>2, <2>3, BackShifts
    <3> QED
      BY <3>1, <3>2
  <2>7. AgesDiffer'
    BY <2>1, <2>4, <2>5 DEF AgesDiffer, Older
  <2> QED
    BY <2>6, <2>7 DEF BehindByAge
<1> QED
  BY <1>1, <1>2 DEF IInv

LEMMA DecKeepsInv ==
  ASSUME IInv, TypeOK', NEW c \in Caller, DecSequence(c)
  PROVE  IInv'
<1> USE SequenceAssumption DEF Cycle
<1>0. \A d \in Caller : age[d] \in 0 .. Cycle
  BY DEF IInv, TypeOK
<1>00. \A d \in Caller :
         age'[d] = IF d = c THEN Cycle
                   ELSE IF sequence <= MaxSeq THEN Younger(age[d]) ELSE age[d]
  BY DEF DecSequence
<1>1. IdleIsOld'
  BY <1>0, <1>00 DEF IInv, TypeOK, IdleIsOld, DecSequence, Younger
<1>2. ASSUME ~outOfOrder'
      PROVE  BehindByAge' /\ AgesDiffer'
  <2>1. ~outOfOrder /\ BehindByAge /\ AgesDiffer /\ age[c] = 0
    BY <1>2 DEF IInv, DecSequence
  <2>2. /\ Current \in 0 .. MaxSeq
        /\ sequence <= MaxSeq => Current' = Back(Current, 1)
        /\ sequence > MaxSeq => Current' = Current
    BY CounterOnRing DEF IInv, TypeOK, Current, DecSequence
  <2>3. \A d \in Caller \ {c} : age[d] < Cycle => age[d] > 0
    BY <2>1, <1>0 DEF AgesDiffer
  <2>4. ASSUME NEW d \in Caller, age'[d] < Cycle
        PROVE  seq'[d] = Back(Current', age'[d])
    <3>1. d # c /\ seq'[d] = seq[d]
      BY <2>4, <1>00 DEF DecSequence
    <3>2. age[d] < Cycle
      BY <2>4, <3>1, <1>0, <1>00 DEF Younger
    <3>3. age[d] \in 0 .. Cycle - 1 /\ age[d] > 0 /\ seq[d] = Back(Current, age[d])
      BY <3>1, <3>2, <2>1, <2>3, <1>0 DEF BehindByAge
    <3>4. CASE sequence <= MaxSeq
      <4>1. age'[d] = age[d] - 1
        BY <3>1, <3>3, <3>4, <1>00 DEF Younger
      <4> QED
        BY <3>1, <3>3, <3>4, <4>1, <2>2, BackShifts
    <3>5. CASE sequence > MaxSeq
      <4>1. age'[d] = age[d]
        BY <3>1, <3>5, <1>00 DEF IInv, TypeOK
      <4> QED
        BY <3>1, <3>3, <3>5, <4>1, <2>2
    <3> QED
      BY <3>4, <3>5 DEF IInv, TypeOK
  <2>5. AgesDiffer'
    BY <2>1, <2>3, <1>0, <1>00 DEF AgesDiffer, Younger
  <2> QED
    BY <2>4, <2>5 DEF BehindByAge
<1> QED
  BY <1>1, <1>2 DEF IInv

\* Two outstanding requests never share a number as long as decrements come in
\* order, for any number of callers, of sequence numbers and any word size
\* (IncSequence, DecSequence).
THEOREM UniqueCorrect == Spec => []UniqueInOrder
<1>1. Init /\ TypeOK => IInv
  BY SequenceAssumption
     DEF Init, IInv, TypeOK, IdleIsOld, BehindByAge, AgesDiffer, Cycle
<1>2. IInv /\ TypeOK' /\ [Next]_vars => IInv'
  <2> SUFFICES ASSUME IInv, TypeOK', [Next]_vars
               PROVE  IInv'
    OBVIOUS
  <2>1. ASSUME NEW c \in Caller, SendSucceeds(c) \/ SendFails(c)
        PROVE  IInv'
    BY <2>1 DEF IInv, TypeOK, SendSucceeds, SendFails,
                IdleIsOld, BehindByAge, AgesDiffer, Current
  <2>2. ASSUME NEW c \in Caller, Conclude(c)
        PROVE  IInv'
    <3>1. \A d \in Caller : age'[d] < Cycle => d # c /\ age'[d] = age[d]
      BY <2>2, SequenceAssumption DEF IInv, TypeOK, Conclude, Cycle
    <3> QED
      BY <2>2, <3>1 DEF IInv, TypeOK, Conclude, IdleIsOld, BehindByAge, AgesDiffer,
                        Current
  <2>3. CASE UNCHANGED vars
    BY <2>3 DEF vars, IInv, IdleIsOld, BehindByAge, AgesDiffer, Current
  <2> QED
    BY <2>1, <2>2, <2>3, IncKeepsInv, DecKeepsInv DEF Next
<1> QED
  BY <1>1, <1>2, TypeCorrect, InvImpliesUnique, PTL DEF Spec

-----------------------------------------------------------------------------

\* The callers that hold no number.
Idle == {c \in Caller : pc[c] = "idle"}

\* Every place that the counter is below zero was taken by a caller that gave its number
\* back and has drawn none since: the next one that does sets the counter to 0.
BelowByIdle == sequence > MaxSeq => WordMod - sequence <= Cardinality(Idle)

LEMMA IdleFinite ==
  /\ IsFiniteSet(Idle) /\ Cardinality(Idle) \in Nat
  /\ Cardinality(Caller) \in Nat /\ Cardinality(Idle) <= Cardinality(Caller)
BY CallerAssumption, FS_Subset, FS_CardinalityType DEF Idle

\* A caller that becomes idle, when no other ceases to be, is one more.
LEMMA OneMoreIdle ==
  ASSUME TypeOK, NEW c \in Caller, pc[c] # "idle", pc' = [pc EXCEPT ![c] = "idle"]
  PROVE  Cardinality(Idle') = Cardinality(Idle) + 1
<1>1. Idle' = Idle \cup {c} /\ c \notin Idle
  BY DEF Idle, TypeOK
<1> QED
  BY <1>1, IdleFinite, FS_AddElement

LEMMA StepBelow ==
  ASSUME TypeOK, BelowByIdle, NEW c \in Caller,
         IncSequence(c) \/ SendSucceeds(c) \/ SendFails(c) \/ DecSequence(c) \/ Conclude(c)
  PROVE  BelowByIdle'
<1> USE SequenceAssumption DEF TypeOK, BelowByIdle
<1>1. CASE IncSequence(c)
  BY <1>1 DEF IncSequence, NextNumber, WordInc
<1>2. CASE SendSucceeds(c) \/ SendFails(c)
  <2>1. Idle' = Idle /\ sequence' = sequence
    BY <1>2 DEF SendSucceeds, SendFails, Idle
  <2> QED
    BY <2>1
<1>3. CASE DecSequence(c)
  <2>1. Cardinality(Idle') = Cardinality(Idle) + 1 /\ Cardinality(Idle) \in Nat
    BY <1>3, OneMoreIdle, IdleFinite DEF DecSequence
  <2>2. sequence' = WordDec(sequence)
    BY <1>3 DEF DecSequence
  <2> QED
    BY <2>1, <2>2 DEF WordDec
<1>4. CASE Conclude(c)
  <2>1. Cardinality(Idle') = Cardinality(Idle) + 1 /\ Cardinality(Idle) \in Nat
    BY <1>4, OneMoreIdle, IdleFinite DEF Conclude
  <2>2. sequence' = sequence
    BY <1>4 DEF Conclude
  <2> QED
    BY <2>1, <2>2
<1> QED
  BY <1>1, <1>2, <1>3, <1>4

\* The counter gets no further below zero than one word per caller, although DecSequence
\* has no lower bound, for any number of callers, of numbers and any word size.
THEOREM UnderflowCorrect == Spec => []UnderflowBounded
<1>1. Init => BelowByIdle
  BY SequenceAssumption DEF Init, BelowByIdle
<1>2. TypeOK /\ BelowByIdle /\ [Next]_vars => BelowByIdle'
  <2> SUFFICES ASSUME TypeOK, BelowByIdle, [Next]_vars PROVE BelowByIdle'
    OBVIOUS
  <2>1. CASE UNCHANGED vars
    BY <2>1 DEF vars, BelowByIdle, Idle
  <2>2. CASE Next
    BY <2>2, StepBelow DEF Next
  <2> QED
    BY <2>1, <2>2
<1>3. TypeOK /\ BelowByIdle => UnderflowBounded
  BY IdleFinite, SequenceAssumption DEF TypeOK, BelowByIdle, UnderflowBounded
<1> QED
  BY <1>1, <1>2, <1>3, TypeCorrect, PTL DEF Spec

=============================================================================
