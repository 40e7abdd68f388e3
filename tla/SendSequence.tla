--------------------------- MODULE SendSequence ---------------------------
(***************************************************************************)
(* Sequence numbers of a gtpv2.Conn (gtpv2/conn.go).  Any number of        *)
(* goroutines call Conn.SendMessageTo at once.  A call draws a number with *)
(* IncSequence, marshals and writes the message, and gives the number back *)
(* with DecSequence when either fails.  The counter is guarded by Conn.mu  *)
(* inside IncSequence and inside DecSequence, but nothing is held between  *)
(* the two, so the calls of other goroutines come in between.              *)
(***************************************************************************)
EXTENDS Integers, FiniteSets

CONSTANTS
  Caller,    \* goroutines that call SendMessageTo
  MaxSeq,    \* largest sequence number, 0xffffff in the code
  WordMod    \* size of the counter's machine word, 2^32 in the code

\* The counter's word is wider than a sequence number (uint32, 3 octets).
ASSUME SequenceAssumption ==
  /\ MaxSeq \in Nat /\ WordMod \in Nat
  /\ 0 < MaxSeq /\ MaxSeq + 1 < WordMod

\* A process has finitely many goroutines.
ASSUME CallerAssumption == IsFiniteSet(Caller)

VARIABLES
  sequence,   \* Conn.sequence
  pc,         \* where each caller is in SendMessageTo
  seq,        \* the number each caller drew last
  age,        \* history: numbers drawn, and not given back, since the caller's
  outOfOrder  \* history: some DecSequence undid the IncSequence of another

vars == <<sequence, pc, seq, age, outOfOrder>>

\* How many sequence numbers there are.
Cycle == MaxSeq + 1

\* Mutant: sequence-- on a counter that does not wrap.
WordDecUnbounded(n) == n - 1

\* sequence++ and sequence-- on a uint32.
WordInc(n) == IF n + 1 = WordMod THEN 0 ELSE n + 1
WordDec(n) == IF n = 0 THEN WordMod - 1 ELSE n - 1

Init ==
  /\ sequence = 0
  /\ pc = [c \in Caller |-> "idle"]
  /\ seq = [c \in Caller |-> 0]
  /\ age = [c \in Caller |-> Cycle]
  /\ outOfOrder = FALSE

-----------------------------------------------------------------------------

\* Mutant: the counter starts again one number too early.
NextNumberEarly(n) == IF WordInc(n) >= MaxSeq THEN 0 ELSE WordInc(n)

\* IncSequence: the number that follows n, 0 after the largest one.
NextNumber(n) == IF WordInc(n) > MaxSeq THEN 0 ELSE WordInc(n)

\* Ages are counted up to a full cycle.
Older(a) == IF a < Cycle THEN a + 1 ELSE a
Younger(a) == IF 0 < a /\ a < Cycle THEN a - 1 ELSE a

\* SendMessageTo enters IncSequence.
IncSequence(c) ==
  /\ pc[c] = "idle"
  /\ sequence' = NextNumber(sequence)
  /\ seq' = [seq EXCEPT ![c] = NextNumber(sequence)]
  /\ age' = [d \in Caller |-> IF d = c THEN 0 ELSE Older(age[d])]
  /\ pc' = [pc EXCEPT ![c] = "sending"]
  /\ UNCHANGED outOfOrder

\* message.Marshal and WriteTo succeed: the request is on the wire.
SendSucceeds(c) ==
  /\ pc[c] = "sending"
  /\ pc' = [pc EXCEPT ![c] = "outstanding"]
  /\ UNCHANGED <<sequence, seq, age, outOfOrder>>

\* message.Marshal or WriteTo returns an error: nothing was sent.
SendFails(c) ==
  /\ pc[c] = "sending"
  /\ pc' = [pc EXCEPT ![c] = "failed"]
  /\ UNCHANGED <<sequence, seq, age, outOfOrder>>

\* Mutant: no return after the DecSequence of a failed Marshal, so that WriteTo
\* is called, may fail too, and DecSequence is called again.
DecSequenceNoReturn(c) ==
  /\ pc[c] = "failed"
  /\ sequence' = WordDec(sequence)
  /\ pc' = [pc EXCEPT ![c] = "sending"]
  /\ UNCHANGED <<seq, age, outOfOrder>>

\* The error path of SendMessageTo enters DecSequence.
DecSequence(c) ==
  /\ pc[c] = "failed"
  /\ sequence' = WordDec(sequence)
  /\ outOfOrder' = (outOfOrder \/ age[c] # 0)
  /\ age' = [d \in Caller |->
               IF d = c THEN Cycle
               ELSE IF sequence <= MaxSeq THEN Younger(age[d]) ELSE age[d]]
  /\ pc' = [pc EXCEPT ![c] = "idle"]
  /\ UNCHANGED seq

\* The caller got its answer, or stopped waiting for it.
Conclude(c) ==
  /\ pc[c] = "outstanding"
  /\ pc' = [pc EXCEPT ![c] = "idle"]
  /\ age' = [age EXCEPT ![c] = Cycle]
  /\ UNCHANGED <<sequence, seq, outOfOrder>>

Next ==
  \E c \in Caller :
    IncSequence(c) \/ SendSucceeds(c) \/ SendFails(c) \/ DecSequence(c) \/ Conclude(c)

Spec == Init /\ [][Next]_vars

-----------------------------------------------------------------------------

\* Every variable keeps its type, and no more than one word of counter is used.
TypeOK ==
  /\ sequence \in 0 .. WordMod - 1
  /\ pc \in [Caller -> {"idle", "sending", "outstanding", "failed"}]
  /\ seq \in [Caller -> 0 .. WordMod - 1]
  /\ age \in [Caller -> 0 .. Cycle]
  /\ outOfOrder \in BOOLEAN

\* Two requests of the connection that wait for their answers at the same time
\* carry different sequence numbers, whatever wrapped and failed, provided that
\* fewer than a cycle of numbers was drawn since either and that no DecSequence
\* undid the increment of another caller (IncSequence, DecSequence).
UniqueInOrder ==
  ~outOfOrder =>
    \A c, d \in Caller :
      /\ c # d
      /\ pc[c] = "outstanding" /\ pc[d] = "outstanding"
      /\ age[c] < Cycle /\ age[d] < Cycle
      => seq[c] # seq[d]

\* The comment on Conn.sequence: the number is unique for each outstanding
\* request of the connection.  DecSequence breaks it.
UniqueOutstanding ==
  \A c, d \in Caller :
    /\ c # d
    /\ pc[c] = "outstanding" /\ pc[d] = "outstanding"
    /\ age[c] < Cycle /\ age[d] < Cycle
    => seq[c] # seq[d]

\* DecSequence has no lower bound: undone at 0 the counter becomes the largest
\* word.  It never gets further than one word below zero per caller, so that the
\* next IncSequence always lands on 0 again.
UnderflowBounded ==
  sequence > MaxSeq => sequence >= WordMod - Cardinality(Caller)

=============================================================================
