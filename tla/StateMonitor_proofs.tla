------------------------- MODULE StateMonitor_proofs -------------------------
(***************************************************************************)
(* Theorems about SnapshotBuffer for any set of readers, any number of     *)
(* words, attempts and publications, and about StateMonitor, which is      *)
(* built on it, for any number of callers of state() and cycles.           *)
(*                                                                         *)
(* BufferInv is inductive; it gives NoTornRead, and it is what makes each  *)
(* step of the buffer a step of AtomicSnapshot or a stutter.               *)
(*                                                                         *)
(* BufferInv /\ MonitorInv is inductive.  The buffer's part is not proved  *)
(* again: a step of the monitor is a step of the buffer or leaves it alone *)
(* (StepUsesBuffer), because what a caller hands to read() is a state that *)
(* was published (LastIsPublished).                                        *)
(***************************************************************************)
EXTENDS StateMonitor, TLAPS

USE WordCountAssumption, MaxReadAttemptsAssumption, MaxPublicationsAssumption DEF Whole

(* Parity and halves of the counter, the only arithmetic the proofs need. *)
LEMMA CounterSteps ==
    ASSUME NEW n \in Nat
    PROVE  /\ Completed(n) \in Nat /\ InProgress(n) \in Nat
           /\ Odd(n) <=> ~Odd(n + 1)
           /\ Odd(n) => /\ InProgress(n) = Completed(n) + 1
                        /\ Completed(n + 1) = InProgress(n)
                        /\ n = 2 * Completed(n) + 1
           /\ ~Odd(n) => /\ Completed(n + 1) = Completed(n)
                         /\ InProgress(n + 1) = Completed(n) + 1
                         /\ n = 2 * Completed(n)
BY SMT DEF Odd, Completed, InProgress

LEMMA InitBufferInv == Init => BufferInv
<1> SUFFICES ASSUME Init PROVE BufferInv
    OBVIOUS
<1>1. Completed(0) = 0 /\ ~Odd(0)
    BY SMT DEF Completed, Odd
<1>2. TypeOK
    BY SMT DEF Init, TypeOK, Words
<1>3. CounterTellsWriter /\ WordsInStoreOrder
    BY <1>1, SMT DEF Init, CounterTellsWriter, WordsInStoreOrder, Words
<1>4. CopiedIsCurrent /\ FailureHasCause
    BY SMT DEF Init, CopiedIsCurrent, FailureHasCause, Inside
<1>5. DeliveredIsCompleted
  <2>1. 0 \in 0 .. Completed(sequence)
    BY <1>1, SMT DEF Init
  <2> QED BY <2>1 DEF Init, DeliveredIsCompleted
<1> QED BY <1>2, <1>3, <1>4, <1>5 DEF BufferInv

-----------------------------------------------------------------------------
(* One lemma per step of the writer. *)

LEMMA BeginPublicationKeepsInv == BufferInv /\ BeginPublication => BufferInv'
<1> SUFFICES ASSUME BufferInv, BeginPublication PROVE BufferInv'
    OBVIOUS
<1> USE DEF BufferInv
<1>1. sequence \in Nat /\ sequence' = sequence + 1 /\ ~Odd(sequence) /\ Odd(sequence')
    BY CounterSteps, SMT DEF BeginPublication, TypeOK, CounterTellsWriter
<1>2. Completed(sequence') = Completed(sequence) /\ InProgress(sequence') = Completed(sequence) + 1
    BY <1>1, CounterSteps
<1>3. TypeOK'
    BY SMT DEF BeginPublication, TypeOK, rvars, Words
<1>4. CounterTellsWriter'
    BY <1>1 DEF BeginPublication, CounterTellsWriter
<1>5. WordsInStoreOrder'
    BY <1>2, SMT DEF BeginPublication, WordsInStoreOrder, Words
<1>6. CopiedIsCurrent'
    BY <1>1, SMT DEF BeginPublication, CopiedIsCurrent, rvars, TypeOK
<1>7. FailureHasCause'
  <2>1. \A r \in Readers : Inside(r)' => overlapped'[r]
    BY DEF BeginPublication, rvars, Inside
  <2> QED BY <2>1 DEF FailureHasCause
<1>8. DeliveredIsCompleted'
    BY <1>2 DEF BeginPublication, DeliveredIsCompleted, rvars
<1> QED BY <1>3, <1>4, <1>5, <1>6, <1>7, <1>8

LEMMA StoreWordKeepsInv == BufferInv /\ StoreWord => BufferInv'
<1> SUFFICES ASSUME BufferInv, StoreWord PROVE BufferInv'
    OBVIOUS
<1> USE DEF BufferInv
<1>1. sequence \in Nat /\ Odd(sequence) /\ sequence' = sequence
    BY SMT DEF StoreWord, TypeOK, CounterTellsWriter, Words
<1>2. InProgress(sequence) \in 0 .. MaxPublications
    BY <1>1, CounterSteps, SMT DEF TypeOK
<1>3. TypeOK'
  <2>1. words' \in [Words -> 0 .. MaxPublications]
    BY <1>2 DEF StoreWord, TypeOK
  <2>2. wnext' \in 0 .. WordCount + 1
    BY SMT DEF StoreWord, Words
  <2> QED BY <2>1, <2>2 DEF StoreWord, TypeOK, rvars
<1>4. CounterTellsWriter'
    BY SMT DEF StoreWord, CounterTellsWriter, Words
<1>5. WordsInStoreOrder'
    BY SMT DEF StoreWord, WordsInStoreOrder, Words, TypeOK
<1>6. CopiedIsCurrent'
    BY SMT DEF StoreWord, CopiedIsCurrent, rvars
<1>7. FailureHasCause'
    BY SMT DEF StoreWord, FailureHasCause, rvars, Inside
<1>8. DeliveredIsCompleted'
    BY SMT DEF StoreWord, DeliveredIsCompleted, rvars
<1> QED BY <1>3, <1>4, <1>5, <1>6, <1>7, <1>8

LEMMA EndPublicationKeepsInv == BufferInv /\ EndPublication => BufferInv'
<1> SUFFICES ASSUME BufferInv, EndPublication PROVE BufferInv'
    OBVIOUS
<1> USE DEF BufferInv
<1>1. sequence \in Nat /\ sequence' = sequence + 1 /\ Odd(sequence) /\ ~Odd(sequence')
    BY CounterSteps, SMT DEF EndPublication, TypeOK, CounterTellsWriter
<1>2. /\ Completed(sequence) \in Nat
      /\ Completed(sequence') = Completed(sequence) + 1
      /\ Completed(sequence') = InProgress(sequence)
      /\ sequence = 2 * Completed(sequence) + 1
    BY <1>1, CounterSteps
<1>3. TypeOK'
  <2>1. sequence' \in 0 .. 2 * MaxPublications
    <3>1. sequence \in 0 .. 2 * MaxPublications
      BY DEF TypeOK
    <3> QED BY <1>1, <1>2, <3>1
  <2> QED BY <2>1 DEF EndPublication, TypeOK, rvars
<1>4. CounterTellsWriter'
    BY <1>1 DEF EndPublication, CounterTellsWriter
<1>5. WordsInStoreOrder'
    BY <1>2, SMT DEF EndPublication, WordsInStoreOrder, Words
<1>6. CopiedIsCurrent'
    BY <1>1, SMT DEF EndPublication, CopiedIsCurrent, rvars, TypeOK
<1>7. FailureHasCause'
    BY <1>1 DEF EndPublication, FailureHasCause, rvars, Inside
<1>8. DeliveredIsCompleted'
    BY <1>2, SMT DEF EndPublication, DeliveredIsCompleted, rvars
<1> QED BY <1>3, <1>4, <1>5, <1>6, <1>7, <1>8

-----------------------------------------------------------------------------
(* One lemma per step of a reader.  A reader's step touches only that      *)
(* reader, so each conjunct is shown for the reader that moved and carries *)
(* over for the others.                                                    *)

LEMMA CallReadKeepsInv ==
    ASSUME BufferInv, NEW r \in Readers, NEW n \in 0 .. Completed(sequence),
           CallRead(r, Whole(n))
    PROVE  BufferInv'
<1> USE DEF BufferInv
<1>1. TypeOK'
  <2>1. 0 \in 0 .. MaxReadAttempts - 1
    OBVIOUS
  <2>2. rpc' \in [Readers -> {"outside", "load_before", "copy", "load_after"}]
    BY DEF CallRead, TypeOK
  <2>3. attempt' \in [Readers -> 0 .. MaxReadAttempts - 1]
    BY <2>1 DEF CallRead, TypeOK
  <2>4. state' \in [Readers -> [Words -> 0 .. MaxPublications]]
    <3>1. sequence \in 0 .. 2 * MaxPublications
      BY DEF TypeOK
    <3>2. n \in 0 .. MaxPublications
      BY <3>1, SMT DEF Completed
    <3> QED BY <3>2 DEF CallRead, TypeOK
  <2>5. overlapped' \in [Readers -> BOOLEAN]
    BY DEF CallRead, TypeOK, Odd
  <2> QED BY <2>2, <2>3, <2>4, <2>5 DEF CallRead, TypeOK, wvars
<1>2. CounterTellsWriter' /\ WordsInStoreOrder'
    BY DEF CallRead, CounterTellsWriter, WordsInStoreOrder, wvars
<1>3. CopiedIsCurrent'
    BY DEF CallRead, CopiedIsCurrent, wvars, TypeOK
<1>4. FailureHasCause'
    BY DEF CallRead, FailureHasCause, wvars, TypeOK, Inside
<1>5. DeliveredIsCompleted'
    BY DEF CallRead, DeliveredIsCompleted, wvars, TypeOK
<1> QED BY <1>1, <1>2, <1>3, <1>4, <1>5

LEMMA LoadBeforeEvenKeepsInv ==
    ASSUME BufferInv, NEW r \in Readers, LoadBeforeEven(r)
    PROVE  BufferInv'
<1> USE DEF BufferInv
<1>1. TypeOK'
    BY SMT DEF LoadBeforeEven, TypeOK, wvars
<1>2. CounterTellsWriter' /\ WordsInStoreOrder'
    BY DEF LoadBeforeEven, CounterTellsWriter, WordsInStoreOrder, wvars
<1>3. CopiedIsCurrent'
  <2>1. before'[r] = sequence /\ rnext'[r] = 1 /\ ~Odd(sequence) /\ rpc'[r] = "copy"
    BY DEF LoadBeforeEven, TypeOK
  <2>2. \A q \in Readers \ {r} :
          rpc'[q] = rpc[q] /\ before'[q] = before[q] /\ rnext'[q] = rnext[q]
    BY DEF LoadBeforeEven, TypeOK
  <2>3. 1 \in Words /\ sequence \in Nat /\ \A w \in Words : ~(w < 1)
    BY SMT DEF TypeOK, Words
  <2> QED BY <2>1, <2>2, <2>3 DEF LoadBeforeEven, CopiedIsCurrent, wvars
<1>4. FailureHasCause'
    BY DEF LoadBeforeEven, FailureHasCause, wvars, TypeOK, Inside
<1>5. DeliveredIsCompleted'
    BY DEF LoadBeforeEven, DeliveredIsCompleted, wvars
<1> QED BY <1>1, <1>2, <1>3, <1>4, <1>5

(* A failed attempt stays inside read(), or returns FALSE; either way an   *)
(* overlapping publication is on record.                                   *)
LEMMA NextAttemptKeepsInv ==
    ASSUME BufferInv, NEW r \in Readers, NextAttempt(r), overlapped[r],
           UNCHANGED <<before, rnext, candidate, state, overlapped>>,
           UNCHANGED wvars
    PROVE  BufferInv'
<1> USE DEF BufferInv
<1>1. TypeOK'
  <2>1. CASE attempt[r] + 1 < MaxReadAttempts
    <3>1. attempt[r] + 1 \in 0 .. MaxReadAttempts - 1
      BY <2>1 DEF TypeOK
    <3> QED BY <2>1, <3>1 DEF NextAttempt, TypeOK, wvars
  <2>2. CASE ~(attempt[r] + 1 < MaxReadAttempts)
    BY <2>2 DEF NextAttempt, TypeOK, wvars
  <2> QED BY <2>1, <2>2
<1>2. CounterTellsWriter' /\ WordsInStoreOrder'
    BY DEF CounterTellsWriter, WordsInStoreOrder, wvars
<1>3. /\ \A q \in Readers \ {r} : rpc'[q] = rpc[q] /\ attempt'[q] = attempt[q]
      /\ rpc'[r] \in {"outside", "load_before"}
    BY DEF NextAttempt, TypeOK
<1>4. CopiedIsCurrent'
    BY <1>3 DEF CopiedIsCurrent, wvars
<1>5. FailureHasCause'
    BY <1>3 DEF FailureHasCause, wvars, Inside
<1>6. DeliveredIsCompleted'
    BY DEF DeliveredIsCompleted, wvars
<1> QED BY <1>1, <1>2, <1>4, <1>5, <1>6

LEMMA LoadBeforeOddKeepsInv ==
    ASSUME BufferInv, NEW r \in Readers, LoadBeforeOdd(r)
    PROVE  BufferInv'
<1>1. overlapped[r]
    BY DEF LoadBeforeOdd, BufferInv, FailureHasCause, Inside
<1> QED BY <1>1, NextAttemptKeepsInv DEF LoadBeforeOdd

LEMMA LoadAfterMovedKeepsInv ==
    ASSUME BufferInv, NEW r \in Readers, LoadAfterMoved(r)
    PROVE  BufferInv'
<1>1. overlapped[r]
    BY DEF LoadAfterMoved, BufferInv, FailureHasCause, Inside
<1> QED BY <1>1, NextAttemptKeepsInv DEF LoadAfterMoved

LEMMA CopyWordKeepsInv ==
    ASSUME BufferInv, NEW r \in Readers, CopyWord(r)
    PROVE  BufferInv'
<1> USE DEF BufferInv
<1>1. rnext[r] \in Words /\ rnext[r] + 1 \in 1 .. WordCount + 1
    BY SMT DEF CopyWord, CopiedIsCurrent, Words
<1>2. words[rnext[r]] \in 0 .. MaxPublications
    BY <1>1 DEF TypeOK
<1>3. TypeOK'
  <2>1. candidate' \in [Readers -> [Words -> 0 .. MaxPublications]]
    BY <1>1, <1>2 DEF CopyWord, TypeOK
  <2>2. rpc' \in [Readers -> {"outside", "load_before", "copy", "load_after"}]
    BY DEF CopyWord, TypeOK
  <2>3. rnext' \in [Readers -> 1 .. WordCount + 1]
    BY <1>1 DEF CopyWord, TypeOK
  <2> QED BY <2>1, <2>2, <2>3 DEF CopyWord, TypeOK, wvars
<1>4. CounterTellsWriter' /\ WordsInStoreOrder'
    BY DEF CopyWord, CounterTellsWriter, WordsInStoreOrder, wvars
<1>5. CopiedIsCurrent'
  <2>1. ASSUME sequence = before[r]
        PROVE  words[rnext[r]] = Completed(sequence)
    BY <2>1, <1>1, SMT
       DEF CopyWord, CopiedIsCurrent, WordsInStoreOrder, CounterTellsWriter, Words
  <2>2. /\ rpc'[r] = IF rnext[r] = WordCount THEN "load_after" ELSE "copy"
        /\ rnext'[r] = rnext[r] + 1
        /\ candidate'[r] = [candidate[r] EXCEPT ![rnext[r]] = words[rnext[r]]]
    BY DEF CopyWord, TypeOK
  <2>3. \A q \in Readers \ {r} :
          rpc'[q] = rpc[q] /\ rnext'[q] = rnext[q] /\ candidate'[q] = candidate[q]
    BY DEF CopyWord, TypeOK
  <2>4. ASSUME sequence = before[r], NEW w \in Words, w < rnext[r] + 1
        PROVE  candidate'[r][w] = Completed(sequence)
    <3>1. candidate[r] \in [Words -> 0 .. MaxPublications]
      BY DEF TypeOK
    <3>2. CASE w = rnext[r]
      BY <2>1, <2>2, <2>4, <3>1, <3>2
    <3>3. CASE w < rnext[r]
      <4>1. candidate[r][w] = Completed(sequence)
        BY <2>4, <3>3 DEF CopyWord, CopiedIsCurrent
      <4> QED BY <2>2, <3>1, <3>3, <4>1, <1>1, SMT DEF Words
    <3> QED BY <2>4, <3>2, <3>3, <1>1, SMT DEF Words
  <2>5. /\ ~Odd(before[r]) /\ before[r] <= sequence
        /\ rpc'[r] = "copy" => rnext'[r] \in Words
        /\ rpc'[r] = "load_after" => rnext'[r] = WordCount + 1
    BY <1>1, <2>2, SMT DEF CopyWord, CopiedIsCurrent, Words
  <2>6. UNCHANGED <<sequence, before>>
    BY DEF CopyWord, wvars
  <2>7. CopiedIsCurrent!(r)'
    BY <2>2, <2>4, <2>5, <2>6
  <2>8. ASSUME NEW q \in Readers \ {r}
        PROVE  CopiedIsCurrent!(q)'
    BY <2>3, <2>6, <2>8 DEF CopiedIsCurrent
  <2> QED BY <2>7, <2>8 DEF CopiedIsCurrent
<1>6. FailureHasCause'
    BY DEF CopyWord, FailureHasCause, wvars, TypeOK, Inside
<1>7. DeliveredIsCompleted'
    BY DEF CopyWord, DeliveredIsCompleted, wvars
<1> QED BY <1>3, <1>4, <1>5, <1>6, <1>7

(* The candidate that passes the check is the latest completed publication. *)
LEMMA AcceptedIsLatest ==
    ASSUME BufferInv, NEW r \in Readers, LoadAfterSame(r)
    PROVE  candidate[r] = Whole(Completed(sequence))
<1>1. \A w \in Words : candidate[r][w] = Completed(sequence)
    BY SMT DEF BufferInv, LoadAfterSame, CopiedIsCurrent, Words
<1>2. candidate[r] \in [Words -> 0 .. MaxPublications]
    BY DEF BufferInv, TypeOK
<1> QED BY <1>1, <1>2

LEMMA LoadAfterSameKeepsInv ==
    ASSUME BufferInv, NEW r \in Readers, LoadAfterSame(r)
    PROVE  BufferInv'
<1> USE DEF BufferInv
<1>1. TypeOK'
    BY DEF LoadAfterSame, TypeOK, wvars
<1>2. CounterTellsWriter' /\ WordsInStoreOrder'
    BY DEF LoadAfterSame, CounterTellsWriter, WordsInStoreOrder, wvars
<1>3. CopiedIsCurrent'
    BY DEF LoadAfterSame, CopiedIsCurrent, wvars, TypeOK
<1>4. FailureHasCause'
    BY DEF LoadAfterSame, FailureHasCause, wvars, TypeOK, Inside
<1>5. DeliveredIsCompleted'
  <2>1. Completed(sequence) \in 0 .. Completed(sequence)
    BY CounterSteps, SMT DEF TypeOK
  <2>2. state'[r] = Whole(Completed(sequence))
    BY AcceptedIsLatest DEF LoadAfterSame, TypeOK
  <2>3. \A q \in Readers \ {r} : state'[q] = state[q]
    BY DEF LoadAfterSame, TypeOK
  <2>4. sequence' = sequence
    BY DEF LoadAfterSame, wvars
  <2>5. \E n \in 0 .. Completed(sequence) : state'[r] = Whole(n)
    BY <2>1, <2>2
  <2>6. ASSUME NEW q \in Readers
        PROVE  \E n \in 0 .. Completed(sequence)' : state'[q] = Whole(n)
    <3>1. CASE q = r
      BY <2>4, <2>5, <3>1
    <3>2. CASE q # r
      BY <2>3, <2>4, <3>2 DEF DeliveredIsCompleted
    <3> QED BY <3>1, <3>2
  <2> QED BY <2>6 DEF DeliveredIsCompleted
<1> QED BY <1>1, <1>2, <1>3, <1>4, <1>5

-----------------------------------------------------------------------------
LEMMA StepKeepsBufferInv == BufferInv /\ [Next]_vars => BufferInv'
<1> SUFFICES ASSUME BufferInv, [Next]_vars PROVE BufferInv'
  OBVIOUS
<1>1. CASE Publish
  BY <1>1, BeginPublicationKeepsInv, StoreWordKeepsInv, EndPublicationKeepsInv DEF Publish
<1>2. ASSUME NEW r \in Readers, NEW n \in 0 .. Completed(sequence), CallRead(r, Whole(n))
      PROVE  BufferInv'
  BY <1>2, CallReadKeepsInv
<1>3. ASSUME NEW r \in Readers, ReadStep(r)
      PROVE  BufferInv'
  BY <1>3, LoadBeforeEvenKeepsInv, LoadBeforeOddKeepsInv, CopyWordKeepsInv,
     LoadAfterSameKeepsInv, LoadAfterMovedKeepsInv DEF ReadStep
<1>4. CASE UNCHANGED vars
  BY <1>4 DEF vars, BufferInv, TypeOK, CounterTellsWriter, WordsInStoreOrder,
     CopiedIsCurrent, FailureHasCause, DeliveredIsCompleted, Inside
<1> QED BY <1>1, <1>2, <1>3, <1>4 DEF Next

(* BufferInv holds throughout: publish() and read() of SnapshotBuffer.cpp, *)
(* in any interleaving, keep the counter, the words and every reader's     *)
(* locals in the relation the seqlock relies on.                           *)
THEOREM BufferInvariant == Spec => []BufferInv
BY InitBufferInv, StepKeepsBufferInv, PTL DEF Spec

(* Type correctness of the buffer, the attempts bound of the retry loop    *)
(* included.                                                               *)
THEOREM TypeCorrect == Spec => []TypeOK
<1>1. BufferInv => TypeOK
    BY DEF BufferInv
<1> QED BY <1>1, BufferInvariant, PTL

(* No caller of read() is ever left with a state mixing two publications,  *)
(* for any number of joints, readers and attempts.                         *)
THEOREM NeverTorn == Spec => []NoTornRead
<1>1. BufferInv => NoTornRead
  <2> SUFFICES ASSUME BufferInv, NEW r \in Readers, NEW v \in Words, NEW w \in Words
               PROVE  state[r][v] = state[r][w]
    BY DEF NoTornRead
  <2>1. PICK n \in 0 .. Completed(sequence) : state[r] = Whole(n)
    BY DEF BufferInv, DeliveredIsCompleted
  <2> QED BY <2>1
<1> QED BY <1>1, BufferInvariant, PTL

-----------------------------------------------------------------------------
(* publish() and read() implement the atomic snapshot with failing reads:  *)
(* a publication takes effect at its second increment, a read at the load  *)
(* of `after`.                                                             *)
THEOREM Refinement == Spec => AtomicSpec
<1> USE DEF Atomic!Whole, Inside
<1>1. Init => Atomic!Init
  <2>1. Completed(0) = 0 /\ ~Odd(0)
    BY SMT DEF Completed, Odd
  <2> SUFFICES ASSUME Init PROVE Atomic!Init
    OBVIOUS
  <2>2. Completed(sequence) = 0 /\ Odd(sequence) = FALSE
    BY <2>1 DEF Init, Odd
  <2>3. [r \in Readers |-> rpc[r] # "outside"] = [r \in Readers |-> FALSE]
    BY DEF Init
  <2> QED BY <2>2, <2>3 DEF Init, Atomic!Init
<1>2. BufferInv /\ [Next]_vars => [Atomic!Next]_Atomic!vars
  <2> SUFFICES ASSUME BufferInv, [Next]_vars PROVE [Atomic!Next]_Atomic!vars
    OBVIOUS
  <2> USE DEF BufferInv
  <2>0. sequence \in Nat
    BY SMT DEF TypeOK
  <2>1. CASE BeginPublication
    <3>1. ~Odd(sequence) /\ Odd(sequence') /\ Completed(sequence') = Completed(sequence)
      BY <2>0, <2>1, CounterSteps DEF BeginPublication, CounterTellsWriter
    <3>2. Atomic!BeginPublish
      BY <2>1, <3>1 DEF BeginPublication, Atomic!BeginPublish, rvars
    <3> QED BY <3>2 DEF Atomic!Next
  <2>2. CASE StoreWord
    BY <2>2 DEF StoreWord, rvars, Atomic!vars
  <2>3. CASE EndPublication
    <3>1. Odd(sequence)
      BY <2>3, SMT DEF EndPublication, CounterTellsWriter
    <3>2. ~Odd(sequence') /\ Completed(sequence') = Completed(sequence) + 1
      BY <2>0, <2>3, <3>1, CounterSteps DEF EndPublication
    <3>3. Atomic!EndPublish
      BY <2>3, <3>1, <3>2 DEF EndPublication, Atomic!EndPublish, rvars
    <3> QED BY <3>3 DEF Atomic!Next
  <2>4. ASSUME NEW r \in Readers, NEW n \in 0 .. Completed(sequence), CallRead(r, Whole(n))
        PROVE  [Atomic!Next]_Atomic!vars
    <3>1. Atomic!BeginRead(r)
      BY <2>4 DEF CallRead, Atomic!BeginRead, TypeOK, wvars
    <3> QED BY <3>1 DEF Atomic!Next
  <2>5. ASSUME NEW r \in Readers, rpc[r] # "outside", overlapped[r], NextAttempt(r),
               UNCHANGED <<sequence, state, overlapped>>
        PROVE  [Atomic!Next]_Atomic!vars
    <3>1. CASE attempt[r] + 1 < MaxReadAttempts
      <4>1. [q \in Readers |-> rpc'[q] # "outside"] = [q \in Readers |-> rpc[q] # "outside"]
        BY <2>5, <3>1 DEF NextAttempt, TypeOK
      <4> QED BY <2>5, <4>1 DEF Atomic!vars
    <3>2. CASE ~(attempt[r] + 1 < MaxReadAttempts)
      <4>1. Atomic!ReadFails(r)
        BY <2>5, <3>2 DEF NextAttempt, Atomic!ReadFails, TypeOK
      <4> QED BY <4>1 DEF Atomic!Next
    <3> QED BY <3>1, <3>2
  <2>6. ASSUME NEW r \in Readers, LoadBeforeOdd(r)
        PROVE  [Atomic!Next]_Atomic!vars
    <3>1. overlapped[r]
      BY <2>6 DEF LoadBeforeOdd, FailureHasCause
    <3> QED BY <2>5, <2>6, <3>1 DEF LoadBeforeOdd, wvars
  <2>7. ASSUME NEW r \in Readers, LoadAfterMoved(r)
        PROVE  [Atomic!Next]_Atomic!vars
    <3>1. overlapped[r]
      BY <2>7 DEF LoadAfterMoved, FailureHasCause
    <3> QED BY <2>5, <2>7, <3>1 DEF LoadAfterMoved, wvars
  <2>8. ASSUME NEW r \in Readers, LoadBeforeEven(r) \/ CopyWord(r)
        PROVE  [Atomic!Next]_Atomic!vars
    <3>1. [q \in Readers |-> rpc'[q] # "outside"] = [q \in Readers |-> rpc[q] # "outside"]
      BY <2>8 DEF LoadBeforeEven, CopyWord, TypeOK
    <3> QED BY <2>8, <3>1 DEF LoadBeforeEven, CopyWord, wvars, Atomic!vars
  <2>9. ASSUME NEW r \in Readers, LoadAfterSame(r)
        PROVE  [Atomic!Next]_Atomic!vars
    <3>1. candidate[r] = Whole(Completed(sequence))
      BY <2>9, AcceptedIsLatest
    <3>2. Atomic!ReadSucceeds(r)
      BY <2>9, <3>1 DEF LoadAfterSame, Atomic!ReadSucceeds, TypeOK, wvars
    <3> QED BY <3>2 DEF Atomic!Next
  <2>10. CASE UNCHANGED vars
    BY <2>10 DEF vars, Atomic!vars
  <2> QED BY <2>1, <2>2, <2>3, <2>4, <2>6, <2>7, <2>8, <2>9, <2>10 DEF Next, Publish, ReadStep
<1> QED BY <1>1, <1>2, BufferInvariant, PTL DEF Spec, AtomicSpec, Atomic!Spec

-----------------------------------------------------------------------------
(* read() is wait-free. *)

LEMMA AttemptsTimesSteps ==
    ASSUME NEW k \in Nat, NEW m \in Nat, NEW s \in Nat
    PROVE  /\ k * s \in Nat /\ (k + 1) * s = k * s + s
           /\ k <= m => k * s <= m * s
BY SMT

(* What an attempt has left is within an attempt, and a call within all of them. *)
LEMMA StepsInRange ==
    ASSUME BufferInv, NEW r \in Readers, Inside(r)
    PROVE  /\ StepsInAttempt(r) \in 1 .. WordCount + 2
           /\ MaxReadAttempts - 1 - attempt[r] \in 0 .. MaxReadAttempts - 1
           /\ (MaxReadAttempts - 1 - attempt[r]) * (WordCount + 2) \in Nat
           /\ StepsInRead(r) = (MaxReadAttempts - 1 - attempt[r]) * (WordCount + 2) + StepsInAttempt(r)
           /\ StepsInRead(r) \in 1 .. MaxReadAttempts * (WordCount + 2)
<1> DEFINE k == MaxReadAttempts - 1 - attempt[r]
<1>1. rpc[r] \in {"load_before", "copy", "load_after"} /\ attempt[r] \in 0 .. MaxReadAttempts - 1
    BY DEF BufferInv, TypeOK, Inside
<1>2. rpc[r] = "copy" => rnext[r] \in Words
    BY DEF BufferInv, CopiedIsCurrent
<1>3. StepsInAttempt(r) \in 1 .. WordCount + 2
    BY <1>1, <1>2, SMT DEF StepsInAttempt, Words
<1>4. k \in 0 .. MaxReadAttempts - 1 /\ k \in Nat /\ MaxReadAttempts - 1 \in Nat /\ k <= MaxReadAttempts - 1
    BY <1>1, SMT
<1>5. /\ k * (WordCount + 2) \in Nat
      /\ k * (WordCount + 2) <= (MaxReadAttempts - 1) * (WordCount + 2)
      /\ (MaxReadAttempts - 1) * (WordCount + 2) \in Nat
      /\ (MaxReadAttempts - 1 + 1) * (WordCount + 2) = (MaxReadAttempts - 1) * (WordCount + 2) + (WordCount + 2)
  <2> HIDE DEF k
  <2>1. WordCount + 2 \in Nat
      BY SMT
  <2> QED BY <1>4, <2>1, AttemptsTimesSteps
<1>6. MaxReadAttempts - 1 + 1 = MaxReadAttempts
    BY SMT
<1>7. StepsInRead(r) = k * (WordCount + 2) + StepsInAttempt(r)
    BY DEF StepsInRead
<1>8. StepsInRead(r) \in 1 .. MaxReadAttempts * (WordCount + 2)
  <2> HIDE DEF k
  <2> QED BY <1>3, <1>5, <1>6, <1>7, SMT
<1> QED BY <1>3, <1>4, <1>5, <1>7, <1>8

LEMMA BufferIsBounded == BufferInv => ReadIsBounded
BY StepsInRange DEF ReadIsBounded

(* For every number of words, attempts and publications: a call of read() is over  *)
(* within MaxReadAttempts * (WordCount + 2) steps of the reader.                   *)
THEOREM ReadBounded == Spec => []ReadIsBounded
BY BufferIsBounded, BufferInvariant, PTL

(* A failed attempt uses up more than what is left of it. *)
LEMMA NextAttemptComesCloser ==
    ASSUME BufferInv, NEW r \in Readers, Inside(r), NextAttempt(r)
    PROVE  StepsInRead(r)' < StepsInRead(r)
<1> DEFINE k == MaxReadAttempts - 1 - attempt[r]
<1>1. /\ k \in 0 .. MaxReadAttempts - 1 /\ attempt[r] \in 0 .. MaxReadAttempts - 1
      /\ k * (WordCount + 2) \in Nat
      /\ StepsInRead(r) = k * (WordCount + 2) + StepsInAttempt(r)
      /\ StepsInAttempt(r) \in 1 .. WordCount + 2
      /\ StepsInRead(r) \in Nat \ {0}
    BY StepsInRange, SMT DEF BufferInv, TypeOK
<1>2. CASE attempt[r] + 1 < MaxReadAttempts
  <2>1. rpc'[r] = "load_before" /\ attempt'[r] = attempt[r] + 1
      BY <1>2 DEF NextAttempt, BufferInv, TypeOK
  <2>2. StepsInRead(r)' = (MaxReadAttempts - 1 - (attempt[r] + 1)) * (WordCount + 2) + (WordCount + 2)
      BY <2>1 DEF StepsInRead, StepsInAttempt, Inside
  <2>3. MaxReadAttempts - 1 - (attempt[r] + 1) = k - 1 /\ k - 1 \in Nat /\ (k - 1) + 1 = k
    <3>1. attempt[r] \in Nat
        BY <1>1, SMT
    <3> QED BY <1>2, <3>1, SMT
  <2>4. WordCount + 2 \in Nat
      BY SMT
  <2> HIDE DEF k
  <2>5. k * (WordCount + 2) = (k - 1) * (WordCount + 2) + (WordCount + 2) /\ (k - 1) * (WordCount + 2) \in Nat
      BY <2>3, <2>4, AttemptsTimesSteps
  <2> QED BY <1>1, <2>2, <2>3, <2>5, SMT
<1>3. CASE ~(attempt[r] + 1 < MaxReadAttempts)
  <2>1. rpc'[r] = "outside"
      BY <1>3 DEF NextAttempt, BufferInv, TypeOK
  <2>2. StepsInRead(r)' = 0
      BY <2>1 DEF StepsInRead, Inside
  <2> QED BY <1>1, <2>2, SMT
<1> QED BY <1>2, <1>3

LEMMA ReadStepComesCloser ==
    ASSUME BufferInv, NEW r \in Readers, ReadStep(r)
    PROVE  StepsInRead(r)' < StepsInRead(r)
<1>1. Inside(r)
    BY DEF ReadStep, LoadBeforeEven, LoadBeforeOdd, CopyWord, LoadAfterSame, LoadAfterMoved, Inside
<1>2. /\ (MaxReadAttempts - 1 - attempt[r]) * (WordCount + 2) \in Nat
      /\ StepsInRead(r) = (MaxReadAttempts - 1 - attempt[r]) * (WordCount + 2) + StepsInAttempt(r)
      /\ StepsInAttempt(r) \in Nat \ {0}
    BY <1>1, StepsInRange, SMT
<1>3. CASE LoadBeforeEven(r)
  <2>1. /\ rpc[r] = "load_before" /\ rpc'[r] = "copy" /\ rnext'[r] = 1 /\ attempt' = attempt
      BY <1>3 DEF LoadBeforeEven, BufferInv, TypeOK
  <2>2. /\ StepsInRead(r)' = (MaxReadAttempts - 1 - attempt[r]) * (WordCount + 2) + (WordCount + 2 - 1)
        /\ StepsInAttempt(r) = WordCount + 2
      BY <2>1 DEF StepsInRead, StepsInAttempt, Inside
  <2> QED BY <1>2, <2>2, SMT
<1>4. CASE CopyWord(r)
  <2>1. /\ rpc[r] = "copy" /\ rnext[r] \in Words /\ rnext'[r] = rnext[r] + 1 /\ attempt' = attempt
        /\ rpc'[r] = IF rnext[r] = WordCount THEN "load_after" ELSE "copy"
      BY <1>4 DEF CopyWord, BufferInv, TypeOK, CopiedIsCurrent
  <2>2. StepsInAttempt(r) = WordCount + 2 - rnext[r]
      BY <2>1 DEF StepsInAttempt
  <2>3. CASE rnext[r] = WordCount
    <3>1. StepsInRead(r)' = (MaxReadAttempts - 1 - attempt[r]) * (WordCount + 2) + 1
        BY <2>1, <2>3 DEF StepsInRead, StepsInAttempt, Inside
    <3> QED BY <1>2, <2>2, <2>3, <3>1, SMT
  <2>4. CASE rnext[r] # WordCount
    <3>1. StepsInRead(r)' = (MaxReadAttempts - 1 - attempt[r]) * (WordCount + 2)
                              + (WordCount + 2 - (rnext[r] + 1))
        BY <2>1, <2>4 DEF StepsInRead, StepsInAttempt, Inside
    <3> QED BY <1>2, <2>1, <2>2, <3>1, SMT DEF Words
  <2> QED BY <2>3, <2>4
<1>5. CASE LoadAfterSame(r)
  <2>1. StepsInRead(r)' = 0
      BY <1>5 DEF LoadAfterSame, BufferInv, TypeOK, StepsInRead, Inside
  <2> QED BY <1>2, <2>1, SMT
<1>6. CASE LoadBeforeOdd(r) \/ LoadAfterMoved(r)
    BY <1>1, <1>6, NextAttemptComesCloser DEF LoadBeforeOdd, LoadAfterMoved
<1> QED BY <1>3, <1>4, <1>5, <1>6 DEF ReadStep

(* The steps of the writer and of other readers leave a reader's locals alone. *)
LEMMA OthersLeaveRead ==
    ASSUME BufferInv, [Next]_vars, NEW r \in Readers, Inside(r), ~ReadStep(r)
    PROVE  rpc'[r] = rpc[r] /\ attempt'[r] = attempt[r] /\ rnext'[r] = rnext[r]
<1>1. CASE Publish
    BY <1>1 DEF Publish, BeginPublication, StoreWord, EndPublication, rvars
<1>2. ASSUME NEW q \in Readers, NEW n \in 0 .. Completed(sequence), CallRead(q, Whole(n))
      PROVE  rpc'[r] = rpc[r] /\ attempt'[r] = attempt[r] /\ rnext'[r] = rnext[r]
    BY <1>2 DEF CallRead, Inside, BufferInv, TypeOK
<1>3. ASSUME NEW q \in Readers, ReadStep(q)
      PROVE  rpc'[r] = rpc[r] /\ attempt'[r] = attempt[r] /\ rnext'[r] = rnext[r]
    BY <1>3 DEF ReadStep, LoadBeforeEven, LoadBeforeOdd, CopyWord, LoadAfterSame, LoadAfterMoved,
       NextAttempt, BufferInv, TypeOK
<1>4. CASE UNCHANGED vars
    BY <1>4 DEF vars
<1> QED BY <1>1, <1>2, <1>3, <1>4 DEF Next

LEMMA OthersLeaveDistance ==
    ASSUME BufferInv, [Next]_vars, NEW r \in Readers, Inside(r), ~ReadStep(r)
    PROVE  StepsInRead(r)' = StepsInRead(r)
<1>1. rpc'[r] = rpc[r] /\ attempt'[r] = attempt[r] /\ rnext'[r] = rnext[r]
    BY OthersLeaveRead
<1> QED BY <1>1 DEF StepsInRead, StepsInAttempt, Inside

(* No writer, however fast, and no other reader can keep a reader inside read().   *)
THEOREM ReadIsWaitFree == Spec => ReadComesCloser
<1>1. BufferInv /\ [Next]_vars =>
          [\A r \in Readers : Inside(r) =>
              IF ReadStep(r) THEN StepsInRead(r)' < StepsInRead(r)
                             ELSE StepsInRead(r)' = StepsInRead(r)]_vars
    BY ReadStepComesCloser, OthersLeaveDistance
<1> QED BY <1>1, BufferInvariant, PTL DEF Spec, ReadComesCloser

-----------------------------------------------------------------------------
(* StateMonitor *)

HIDE DEF Whole

LEMMA SequenceIsNat == BufferInv => sequence \in Nat /\ Completed(sequence) \in 0 .. MaxPublications
<1> SUFFICES ASSUME BufferInv PROVE sequence \in Nat /\ Completed(sequence) \in 0 .. MaxPublications
    OBVIOUS
<1>1. sequence \in 0 .. 2 * MaxPublications
    BY DEF BufferInv, TypeOK
<1> QED BY <1>1, MaxPublicationsAssumption, SMT DEF Completed

(* Two constant states are as new as their publications. *)
LEMMA WholesCompare ==
    ASSUME NEW m \in Nat, NEW n \in Nat
    PROVE  /\ Whole(m) = Whole(n) => m = n
           /\ \A w \in Words : Whole(m)[w] = m
<1>1. 1 \in Words
    BY WordCountAssumption, SMT DEF Words
<1>2. \A w \in Words : Whole(m)[w] = m /\ Whole(n)[w] = n
    BY DEF Whole
<1> QED BY <1>1, <1>2

LEMMA InitMonitorInv == MonitorInit => MonitorInv
<1> SUFFICES ASSUME MonitorInit PROVE MonitorInv
    OBVIOUS
<1> USE DEF MonitorInit
<1>1. sequence = 0 /\ Completed(0) = 0 /\ wnext = 0
    BY SMT DEF Init, Completed
<1>2. 0 \in 0 .. MaxPublications /\ 0 \in 0 .. Completed(sequence)
    BY <1>1, MaxPublicationsAssumption, SMT
<1>3. MonitorTypeOK
    BY <1>2 DEF MonitorTypeOK, Whole
<1>4. MutexSerialises
    BY NoReaderAssumption DEF MutexSerialises, Init, Inside
<1>5. CounterFollows
    BY <1>1, SMT DEF CounterFollows
<1>6. LastIsPublished /\ ReturnsOnePublication
    BY <1>2 DEF LastIsPublished, ReturnsOnePublication
<1>7. ReadIsFresh
  <2>1. \A c \in Readers : mpc[c] = "out" /\ seen[c] = 0
    OBVIOUS
  <2>2. completed = 0 /\ 0 <= 0
    BY SMT
  <2> QED BY <2>1, <2>2 DEF ReadIsFresh
<1>8. FreshAfterCompletedCycles
    BY SMT DEF FreshAfterCompletedCycles, Whole
<1> QED BY <1>3, <1>4, <1>5, <1>6, <1>7, <1>8 DEF MonitorInv

-----------------------------------------------------------------------------
(* Every step is one of the buffer, or leaves it alone. *)
LEMMA StepUsesBuffer == BufferInv /\ MonitorInv /\ [MonitorNext]_allvars => [Next]_vars
<1> SUFFICES ASSUME MonitorInv, [MonitorNext]_allvars PROVE [Next]_vars
    OBVIOUS
<1>1. CASE WorkerPublishes
    BY <1>1 DEF WorkerPublishes, Next
<1>2. CASE CountCycle
    BY <1>2 DEF CountCycle
<1>3. ASSUME NEW c \in Readers, CallState(c) \/ LockStateMutex(c) \/ ReturnState(c)
      PROVE  [Next]_vars
    BY <1>3 DEF CallState, LockStateMutex, ReturnState
<1>4. ASSUME NEW c \in Readers, BeginBufferRead(c)
      PROVE  [Next]_vars
  <2>1. PICK n \in 0 .. Completed(sequence) : lastState = Whole(n)
      BY DEF MonitorInv, LastIsPublished
  <2> QED BY <1>4, <2>1 DEF BeginBufferRead, Next
<1>5. ASSUME NEW c \in Readers, BufferReadStep(c)
      PROVE  [Next]_vars
    BY <1>5 DEF BufferReadStep, Next
<1>6. CASE UNCHANGED allvars
    BY <1>6 DEF allvars
<1> QED BY <1>1, <1>2, <1>3, <1>4, <1>5, <1>6 DEF MonitorNext, InsideState

-----------------------------------------------------------------------------
(* One lemma per step that MonitorInv has to survive. *)

LEMMA WorkerPublishesKeepsInv == BufferInv /\ MonitorInv /\ WorkerPublishes => MonitorInv'
<1> SUFFICES ASSUME BufferInv, MonitorInv, WorkerPublishes PROVE MonitorInv'
    OBVIOUS
<1> USE DEF MonitorInv, WorkerPublishes
<1>1. mvars' = mvars
    BY DEF mvars
<1>2. sequence \in Nat /\ Completed(sequence) \in Nat /\ completed = Completed(sequence)
    BY SequenceIsNat, SMT
<1>3. rpc' = rpc /\ state' = state /\ ok' = ok
    BY DEF Publish, BeginPublication, StoreWord, EndPublication, rvars
<1>4. \A r \in Readers : overlapped'[r] = overlapped[r] \/ (Inside(r) /\ sequence < 2 * MaxPublications)
    BY DEF Publish, BeginPublication, StoreWord, EndPublication, BufferInv, TypeOK
<1>5. /\ sequence' \in Nat
      /\ Completed(sequence') \in Nat
      /\ Completed(sequence) <= Completed(sequence')
      /\ Completed(sequence') <= completed + 1
      /\ wnext' # 0 => completed = Completed(sequence')
  <2>1. CASE BeginPublication
    BY <1>2, <2>1, CounterSteps DEF BeginPublication, BufferInv, CounterTellsWriter
  <2>2. CASE StoreWord
    BY <1>2, <2>2 DEF StoreWord
  <2>3. CASE EndPublication
    <3>1. Odd(sequence)
      BY <2>3, WordCountAssumption, SMT DEF EndPublication, BufferInv, CounterTellsWriter
    <3> QED BY <1>2, <2>3, <3>1, CounterSteps DEF EndPublication
  <2> QED BY <2>1, <2>2, <2>3 DEF Publish
<1>6. MonitorTypeOK' /\ CounterFollows'
    BY <1>1, <1>2, <1>5, SMT DEF MonitorTypeOK, CounterFollows, mvars
<1>7. MutexSerialises'
    BY <1>1, <1>3 DEF MutexSerialises, mvars, Inside
<1>8. LastIsPublished' /\ ReturnsOnePublication'
  <2>1. \A n \in 0 .. Completed(sequence) : n \in 0 .. Completed(sequence')
    BY <1>2, <1>5, SMT
  <2> QED BY <1>1, <2>1 DEF LastIsPublished, ReturnsOnePublication, mvars
<1>9. \A c \in Readers : seen[c] = MaxPublications => completed = MaxPublications /\ sequence = 2 * MaxPublications
  <2> SUFFICES ASSUME NEW c \in Readers, seen[c] = MaxPublications
               PROVE  completed = MaxPublications /\ sequence = 2 * MaxPublications
      OBVIOUS
  <2>1. seen[c] <= completed /\ completed \in 0 .. MaxPublications
      BY DEF ReadIsFresh, MonitorTypeOK
  <2>2. completed = MaxPublications
      BY <2>1, MaxPublicationsAssumption, SMT
  <2>3. sequence \in 0 .. 2 * MaxPublications
      BY DEF BufferInv, TypeOK
  <2> QED BY <1>2, <2>2, <2>3, MaxPublicationsAssumption, SMT DEF Completed
<1>10. ReadIsFresh'
  <2> SUFFICES ASSUME NEW c \in Readers
               PROVE  /\ seen[c] <= completed
                      /\ mpc[c] = "return" /\ ok[c] =>
                           \A w \in Words : lastState[w] <= state[c][w] /\ seen[c] <= state[c][w]
                      /\ mpc[c] = "return" /\ ~ok[c] => overlapped'[c]
                      /\ mpc[c] \in {"reading", "return"} /\ seen[c] = MaxPublications => ~overlapped'[c]
      BY <1>1, <1>3 DEF ReadIsFresh, mvars
  <2>1. seen[c] = MaxPublications => ~(sequence < 2 * MaxPublications)
      BY <1>9, MaxPublicationsAssumption, SMT
  <2>2. mpc[c] = "return" => overlapped'[c] = overlapped[c]
      BY <1>4 DEF MutexSerialises
  <2> QED BY <1>4, <2>1, <2>2 DEF ReadIsFresh
<1>11. FreshAfterCompletedCycles'
  <2>1. \A c \in Readers : mpc[c] = "out" => overlapped'[c] = overlapped[c]
      BY <1>4 DEF MutexSerialises, BufferInv, TypeOK
  <2> QED BY <1>1, <2>1 DEF FreshAfterCompletedCycles, mvars
<1> QED BY <1>6, <1>7, <1>8, <1>10, <1>11

LEMMA CountCycleKeepsInv == BufferInv /\ MonitorInv /\ CountCycle => MonitorInv'
<1> SUFFICES ASSUME BufferInv, MonitorInv, CountCycle PROVE MonitorInv'
    OBVIOUS
<1> USE DEF MonitorInv, CountCycle
<1>1. /\ Completed(sequence) \in 0 .. MaxPublications
      /\ completed \in 0 .. MaxPublications
      /\ completed' = completed + 1 /\ completed < Completed(sequence) /\ sequence' = sequence
    BY SequenceIsNat DEF MonitorTypeOK, vars
<1>2. MonitorTypeOK'
  <2>1. completed' \in 0 .. MaxPublications
      BY <1>1, MaxPublicationsAssumption, SMT
  <2> QED BY <2>1 DEF MonitorTypeOK
<1>3. CounterFollows'
    BY <1>1, SMT DEF CounterFollows, vars
<1>4. MutexSerialises' /\ LastIsPublished' /\ ReturnsOnePublication' /\ FreshAfterCompletedCycles'
    BY DEF MutexSerialises, LastIsPublished, ReturnsOnePublication, FreshAfterCompletedCycles,
           vars, Inside
<1>5. \A c \in Readers : seen[c] <= completed'
    BY <1>1, SMT DEF ReadIsFresh, MonitorTypeOK
<1>6. ReadIsFresh'
    BY <1>5 DEF ReadIsFresh, vars
<1> QED BY <1>2, <1>3, <1>4, <1>6

LEMMA CallStateKeepsInv ==
    ASSUME MonitorInv, NEW c \in Readers, CallState(c)
    PROVE  MonitorInv'
<1> USE DEF MonitorInv, CallState
<1>1. vars' = vars /\ \A d \in Readers : d # c => mpc'[d] = mpc[d] /\ seen'[d] = seen[d]
    BY DEF MonitorTypeOK
<1>2. mpc'[c] = "lock" /\ seen'[c] = completed
    BY DEF MonitorTypeOK
<1>3. MonitorTypeOK' /\ CounterFollows' /\ LastIsPublished' /\ ReturnsOnePublication'
    BY <1>1 DEF MonitorTypeOK, CounterFollows, LastIsPublished, ReturnsOnePublication, vars
<1>4. MutexSerialises'
    BY <1>1, <1>2 DEF MutexSerialises, vars, Inside
<1>5. completed <= completed
    BY SMT DEF MonitorTypeOK
<1>6. ReadIsFresh'
    BY <1>1, <1>2, <1>5 DEF ReadIsFresh, vars
<1>7. FreshAfterCompletedCycles'
    BY <1>1, <1>2 DEF FreshAfterCompletedCycles, vars
<1> QED BY <1>3, <1>4, <1>6, <1>7

LEMMA LockStateMutexKeepsInv ==
    ASSUME MonitorInv, NEW c \in Readers, LockStateMutex(c)
    PROVE  MonitorInv'
<1> USE DEF MonitorInv, LockStateMutex
<1>1. vars' = vars /\ \A d \in Readers : d # c => mpc'[d] = mpc[d]
    BY DEF MonitorTypeOK
<1>2. mpc'[c] = "read" /\ stateMutex' = c /\ mpc[c] = "lock"
    BY DEF MonitorTypeOK
<1>3. MonitorTypeOK' /\ CounterFollows' /\ LastIsPublished' /\ ReturnsOnePublication'
    BY <1>1 DEF MonitorTypeOK, CounterFollows, LastIsPublished, ReturnsOnePublication, vars
<1>4. MutexSerialises'
    BY <1>1, <1>2, NoReaderAssumption DEF MutexSerialises, vars, Inside
<1>5. ReadIsFresh'
    BY <1>1, <1>2 DEF ReadIsFresh, vars
<1>6. FreshAfterCompletedCycles'
    BY <1>1, <1>2 DEF FreshAfterCompletedCycles, vars
<1> QED BY <1>3, <1>4, <1>5, <1>6

LEMMA BeginBufferReadKeepsInv ==
    ASSUME BufferInv, MonitorInv, NEW c \in Readers, BeginBufferRead(c)
    PROVE  MonitorInv'
<1> USE DEF MonitorInv, BeginBufferRead
<1>1. /\ mpc[c] = "read" /\ mpc'[c] = "reading"
      /\ \A d \in Readers : d # c => mpc'[d] = mpc[d]
    BY DEF MonitorTypeOK
<1>2. /\ sequence' = sequence /\ wnext' = wnext /\ ok' = ok
      /\ \A d \in Readers : d # c => /\ rpc'[d] = rpc[d]
                                     /\ state'[d] = state[d]
                                     /\ overlapped'[d] = overlapped[d]
      /\ rpc'[c] = "load_before"
      /\ overlapped'[c] = Odd(sequence)
    BY DEF CallRead, wvars, BufferInv, TypeOK
<1>3. MonitorTypeOK' /\ CounterFollows' /\ LastIsPublished' /\ ReturnsOnePublication'
    BY <1>2 DEF MonitorTypeOK, CounterFollows, LastIsPublished, ReturnsOnePublication
<1>4. MutexSerialises'
    BY <1>1, <1>2 DEF MutexSerialises, Inside
<1>5. seen[c] = MaxPublications => ~Odd(sequence)
  <2>1. seen[c] <= completed /\ completed \in 0 .. MaxPublications /\ seen[c] \in 0 .. MaxPublications
      BY DEF ReadIsFresh, MonitorTypeOK
  <2>2. sequence \in 0 .. 2 * MaxPublications /\ completed <= Completed(sequence)
      BY DEF CounterFollows, BufferInv, TypeOK
  <2> QED BY <2>1, <2>2, MaxPublicationsAssumption, SMT DEF Completed, Odd
<1>6. ReadIsFresh'
  <2>1. ReadIsFresh!(c)'
      BY <1>1, <1>2, <1>5 DEF ReadIsFresh
  <2>2. ASSUME NEW d \in Readers, d # c PROVE ReadIsFresh!(d)'
      BY <1>1, <1>2, <2>2 DEF ReadIsFresh
  <2> QED BY <2>1, <2>2 DEF ReadIsFresh
<1>7. FreshAfterCompletedCycles'
    BY <1>1, <1>2 DEF FreshAfterCompletedCycles
<1> QED BY <1>3, <1>4, <1>6, <1>7

(* What a step inside read() leaves behind when it is the last one. *)
LEMMA LastReadStep ==
    ASSUME BufferInv, NEW c \in Readers, ReadStep(c)
    PROVE  /\ Inside(c)' \/ (ok'[c] /\ state'[c] = Whole(Completed(sequence)))
                         \/ (~ok'[c] /\ overlapped[c])
           /\ Inside(c)
           /\ \A d \in Readers : d # c => /\ rpc'[d] = rpc[d]
                                          /\ state'[d] = state[d]
                                          /\ ok'[d] = ok[d]
           /\ sequence' = sequence /\ wnext' = wnext /\ overlapped' = overlapped
<1> USE DEF BufferInv
<1>1. ASSUME NextAttempt(c), Inside(c), overlapped[c]
      PROVE  /\ Inside(c)' \/ (~ok'[c] /\ overlapped[c])
             /\ \A d \in Readers : d # c => rpc'[d] = rpc[d] /\ ok'[d] = ok[d]
    BY <1>1 DEF NextAttempt, TypeOK, Inside
<1>2. CASE LoadBeforeEven(c) \/ CopyWord(c)
    BY <1>2 DEF LoadBeforeEven, CopyWord, TypeOK, Inside, wvars
<1>3. CASE LoadBeforeOdd(c)
  <2>1. Inside(c) /\ overlapped[c]
      BY <1>3 DEF LoadBeforeOdd, FailureHasCause, Inside
  <2> QED BY <1>1, <1>3, <2>1 DEF LoadBeforeOdd, wvars
<1>4. CASE LoadAfterMoved(c)
  <2>1. Inside(c) /\ overlapped[c]
      BY <1>4 DEF LoadAfterMoved, FailureHasCause, Inside
  <2> QED BY <1>1, <1>4, <2>1 DEF LoadAfterMoved, wvars
<1>5. CASE LoadAfterSame(c)
  <2>1. candidate[c] = Whole(Completed(sequence))
      BY <1>5, AcceptedIsLatest
  <2> QED BY <1>5, <2>1 DEF LoadAfterSame, TypeOK, Inside, wvars
<1> QED BY <1>2, <1>3, <1>4, <1>5 DEF ReadStep

LEMMA BufferReadStepKeepsInv ==
    ASSUME BufferInv, MonitorInv, NEW c \in Readers, BufferReadStep(c)
    PROVE  MonitorInv'
<1> USE DEF MonitorInv, BufferReadStep
<1>0. ReadStep(c)
    OBVIOUS
<1>1. /\ mpc[c] = "reading" /\ mpc'[c] = IF Inside(c)' THEN "reading" ELSE "return"
      /\ \A d \in Readers : d # c => mpc'[d] = mpc[d]
    BY DEF MonitorTypeOK
<1>2. /\ Inside(c)' \/ (ok'[c] /\ state'[c] = Whole(Completed(sequence)))
                    \/ (~ok'[c] /\ overlapped[c])
      /\ \A d \in Readers : d # c => rpc'[d] = rpc[d] /\ state'[d] = state[d] /\ ok'[d] = ok[d]
      /\ sequence' = sequence /\ wnext' = wnext /\ overlapped' = overlapped
    BY <1>0, LastReadStep
<1>3. MonitorTypeOK'
    BY <1>1 DEF MonitorTypeOK
<1>4. CounterFollows' /\ LastIsPublished' /\ ReturnsOnePublication'
    BY <1>2 DEF CounterFollows, LastIsPublished, ReturnsOnePublication
<1>5. MutexSerialises'
    BY <1>1, <1>2 DEF MutexSerialises, Inside
<1>6. ASSUME NEW w \in Words
      PROVE  lastState[w] <= Completed(sequence) /\ seen[c] <= Completed(sequence)
  <2>1. PICK n \in 0 .. Completed(sequence) : lastState = Whole(n)
      BY DEF LastIsPublished
  <2>2. lastState[w] = n
      BY <2>1, WholesCompare
  <2>3. seen[c] <= completed /\ completed <= Completed(sequence)
        /\ seen[c] \in 0 .. MaxPublications /\ completed \in 0 .. MaxPublications
      BY DEF ReadIsFresh, CounterFollows, MonitorTypeOK
  <2> QED BY <2>1, <2>2, <2>3, SequenceIsNat, SMT
<1>7. ReadIsFresh'
  <2>1. ASSUME mpc'[c] = "return", ok'[c]
        PROVE  \A w \in Words : lastState[w] <= state'[c][w] /\ seen[c] <= state'[c][w]
    <3>1. state'[c] = Whole(Completed(sequence))
        BY <1>1, <1>2, <2>1
    <3>2. \A w \in Words : state'[c][w] = Completed(sequence)
        BY <3>1 DEF Whole
    <3> QED BY <1>6, <3>2
  <2>2. ReadIsFresh!(c)'
      BY <1>1, <1>2, <2>1 DEF ReadIsFresh
  <2>3. ASSUME NEW d \in Readers, d # c PROVE ReadIsFresh!(d)'
      BY <1>1, <1>2, <2>3 DEF ReadIsFresh
  <2> QED BY <2>2, <2>3 DEF ReadIsFresh
<1>8. FreshAfterCompletedCycles'
    BY <1>1, <1>2 DEF FreshAfterCompletedCycles
<1> QED BY <1>3, <1>4, <1>5, <1>7, <1>8

LEMMA ReturnStateKeepsInv ==
    ASSUME BufferInv, MonitorInv, NEW c \in Readers, ReturnState(c)
    PROVE  /\ MonitorInv'
           /\ \A w \in Words : lastState[w] <= lastState'[w]
<1> USE DEF MonitorInv, ReturnState
<1>1. /\ vars' = vars /\ UNCHANGED <<completed, seen>> /\ stateMutex' = NoReader
      /\ mpc[c] = "return" /\ mpc'[c] = "out" /\ returned'[c] = lastState'
      /\ \A d \in Readers : d # c => mpc'[d] = mpc[d] /\ returned'[d] = returned[d]
    BY DEF MonitorTypeOK
<1>2. PICK n \in 0 .. Completed(sequence) : lastState' = Whole(n)
    BY DEF LastIsPublished, BufferInv, DeliveredIsCompleted
<1>3. n \in 0 .. MaxPublications
    BY SequenceIsNat, MaxPublicationsAssumption, SMT
<1>4. MonitorTypeOK'
  <2>1. lastState' \in [Words -> 0 .. MaxPublications]
      BY <1>2, <1>3 DEF Whole
  <2> QED BY <1>1, <2>1 DEF MonitorTypeOK
<1>5. CounterFollows' /\ LastIsPublished' /\ ReturnsOnePublication'
    BY <1>1, <1>2 DEF CounterFollows, LastIsPublished, ReturnsOnePublication, vars
<1>6. MutexSerialises'
    BY <1>1, NoReaderAssumption DEF MutexSerialises, vars, Inside
<1>7. \A w \in Words : lastState[w] <= lastState'[w]
  <2>1. CASE ok[c]
      BY <1>1, <2>1 DEF ReadIsFresh
  <2>2. CASE ~ok[c]
    <3>1. \A w \in Words : lastState[w] \in Nat
        BY SMT DEF MonitorTypeOK
    <3> QED BY <2>2, <3>1, SMT
  <2> QED BY <2>1, <2>2
<1>8. ReadIsFresh'
  <2>1. ASSUME NEW d \in Readers, d # c, mpc[d] = "return" PROVE FALSE
      BY <1>1, <2>1 DEF MutexSerialises
  <2>2. ReadIsFresh!(c)'
      BY <1>1 DEF ReadIsFresh, vars
  <2>3. ASSUME NEW d \in Readers, d # c PROVE ReadIsFresh!(d)'
      BY <1>1, <2>1, <2>3 DEF ReadIsFresh, vars
  <2> QED BY <2>2, <2>3 DEF ReadIsFresh
<1>9. FreshAfterCompletedCycles'
  <2>1. ~overlapped[c] => ok[c]
      BY <1>1 DEF ReadIsFresh
  <2>2. ok[c] => \A w \in Words : seen[c] <= returned'[c][w]
      BY <1>1 DEF ReadIsFresh
  <2>3. seen[c] = MaxPublications => returned'[c] = Whole(MaxPublications)
    <3> SUFFICES ASSUME seen[c] = MaxPublications PROVE n = MaxPublications
        BY <1>1, <1>2
    <3>1. 1 \in Words
        BY WordCountAssumption, SMT DEF Words
    <3>2. seen[c] <= returned'[c][1]
        BY <1>1, <2>1, <2>2, <3>1 DEF ReadIsFresh
    <3>3. returned'[c][1] = n
        BY <1>1, <1>2, <3>1 DEF Whole
    <3> QED BY <1>3, <3>2, <3>3, MaxPublicationsAssumption, SMT
  <2>4. FreshAfterCompletedCycles!(c)'
      BY <1>1, <2>1, <2>2, <2>3 DEF vars
  <2>5. ASSUME NEW d \in Readers, d # c PROVE FreshAfterCompletedCycles!(d)'
      BY <1>1, <2>5 DEF FreshAfterCompletedCycles, vars
  <2> QED BY <2>4, <2>5 DEF FreshAfterCompletedCycles
<1> QED BY <1>4, <1>5, <1>6, <1>7, <1>8, <1>9

LEMMA StepKeepsMonitorInv == BufferInv /\ MonitorInv /\ [MonitorNext]_allvars => MonitorInv'
<1> SUFFICES ASSUME BufferInv, MonitorInv, [MonitorNext]_allvars PROVE MonitorInv'
    OBVIOUS
<1>1. CASE WorkerPublishes
    BY <1>1, WorkerPublishesKeepsInv
<1>2. CASE CountCycle
    BY <1>2, CountCycleKeepsInv
<1>3. ASSUME NEW c \in Readers, CallState(c) \/ InsideState(c)
      PROVE  MonitorInv'
    BY <1>3, CallStateKeepsInv, LockStateMutexKeepsInv, BeginBufferReadKeepsInv,
       BufferReadStepKeepsInv, ReturnStateKeepsInv DEF InsideState
<1>4. CASE UNCHANGED allvars
    BY <1>4 DEF allvars, mvars, vars, MonitorInv, MonitorTypeOK, MutexSerialises, CounterFollows,
       LastIsPublished, ReadIsFresh, ReturnsOnePublication, FreshAfterCompletedCycles, Inside
<1> QED BY <1>1, <1>2, <1>3, <1>4 DEF MonitorNext

LEMMA BothInvariants == MonitorSpec => [](BufferInv /\ MonitorInv)
<1>1. MonitorInit => BufferInv /\ MonitorInv
    BY InitBufferInv, InitMonitorInv DEF MonitorInit
<1>2. (BufferInv /\ MonitorInv) /\ [MonitorNext]_allvars => (BufferInv /\ MonitorInv)'
    BY StepUsesBuffer, StepKeepsBufferInv, StepKeepsMonitorInv
<1> QED BY <1>1, <1>2, PTL DEF MonitorSpec

-----------------------------------------------------------------------------
(* ControlLoop uses its SnapshotBuffer the way SnapshotBuffer's own            *)
(* specification allows, callers serialised by state_mutex_ and starting from  *)
(* last_state_: all that is proved of the buffer holds inside ControlLoop.     *)
THEOREM MonitorUsesBuffer == MonitorSpec => UsesBuffer
<1>1. MonitorInit => Init
    BY DEF MonitorInit
<1> QED BY <1>1, StepUsesBuffer, BothInvariants, PTL DEF MonitorSpec, UsesBuffer, Spec

(* In particular the seqlock inside ControlLoop is an atomic snapshot.         *)
THEOREM MonitorIsAtomic == MonitorSpec => AtomicSpec
BY MonitorUsesBuffer, Refinement, PTL DEF UsesBuffer

(* state() only returns whole published states, for any number of callers,     *)
(* joints and cycles.                                                          *)
THEOREM StateIsOnePublication == MonitorSpec => []ReturnsOnePublication
<1>1. MonitorInv => ReturnsOnePublication
    BY DEF MonitorInv
<1> QED BY <1>1, BothInvariants, PTL

(* What completedCycles() announced, the next undisturbed state() shows; after *)
(* the last cycle every state() shows the final state.                         *)
THEOREM StateIsFresh == MonitorSpec => []FreshAfterCompletedCycles
<1>1. MonitorInv => FreshAfterCompletedCycles
    BY DEF MonitorInv
<1> QED BY <1>1, BothInvariants, PTL

(* Successive results of state() never go back to an older publication.        *)
THEOREM StateNeverGoesBack == MonitorSpec => MonitorNeverGoesBack
<1>1. BufferInv /\ MonitorInv /\ [MonitorNext]_allvars
        => [\A w \in Words : lastState[w] <= lastState'[w]]_allvars
  <2> SUFFICES ASSUME BufferInv, MonitorInv, MonitorNext
               PROVE  \A w \in Words : lastState[w] <= lastState'[w]
      OBVIOUS
  <2>1. CASE lastState' = lastState
    <3>1. \A w \in Words : lastState[w] \in Nat
        BY SMT DEF MonitorInv, MonitorTypeOK
    <3> QED BY <2>1, <3>1, SMT
  <2>2. ASSUME NEW c \in Readers, ReturnState(c)
        PROVE  \A w \in Words : lastState[w] <= lastState'[w]
      BY <2>2, ReturnStateKeepsInv
  <2> QED BY <2>1, <2>2 DEF MonitorNext, InsideState, WorkerPublishes, CountCycle, CallState,
             LockStateMutex, BeginBufferRead, BufferReadStep, mvars
<1> QED BY <1>1, BothInvariants, PTL DEF MonitorSpec, MonitorNeverGoesBack

(* A caller of state() holds state_mutex_ for a bounded number of its own steps. *)
THEOREM ReleaseBounded == MonitorSpec => []ReleaseIsBounded
<1>1. ASSUME BufferInv, MonitorInv, NEW c \in Readers, stateMutex = c
      PROVE  StepsToRelease(c) \in 1 .. MaxReadAttempts * (WordCount + 2) + 2
  <2>1. mpc[c] \in {"read", "reading", "return"} /\ (Inside(c) <=> mpc[c] = "reading")
      BY <1>1, NoReaderAssumption DEF MonitorInv, MutexSerialises
  <2>2. MaxReadAttempts * (WordCount + 2) \in Nat
    <3>1. MaxReadAttempts \in Nat /\ WordCount + 2 \in Nat
        BY SMT
    <3> QED BY <3>1, AttemptsTimesSteps
  <2>3. CASE mpc[c] = "reading"
    <3>1. StepsInRead(c) \in 1 .. MaxReadAttempts * (WordCount + 2)
        BY <1>1, <2>1, <2>3, StepsInRange
    <3> QED BY <2>2, <2>3, <3>1, SMT DEF StepsToRelease
  <2>4. CASE mpc[c] = "read"
      BY <2>2, <2>4, SMT DEF StepsToRelease
  <2>5. CASE mpc[c] = "return"
      BY <2>2, <2>5, SMT DEF StepsToRelease
  <2> QED BY <2>1, <2>3, <2>4, <2>5
<1>2. BufferInv /\ MonitorInv => ReleaseIsBounded
    BY <1>1 DEF ReleaseIsBounded
<1> QED BY <1>2, BothInvariants, PTL

(* Within MaxReadAttempts * (WordCount + 2) + 2 steps of its holder state_mutex_ is *)
(* released, and nothing the worker or the other callers do makes it more.          *)
THEOREM ReleaseIsNear == MonitorSpec => ReleaseComesCloser
<1>1. ASSUME BufferInv, MonitorInv, MonitorNext, NEW c \in Readers, stateMutex = c
      PROVE  \/ ReturnState(c) /\ stateMutex' = NoReader
             \/ /\ stateMutex' = c
                /\ IF InsideState(c) THEN StepsToRelease(c)' < StepsToRelease(c)
                                     ELSE StepsToRelease(c)' = StepsToRelease(c)
  <2>1. /\ mpc[c] \in {"read", "reading", "return"} /\ (Inside(c) <=> mpc[c] = "reading")
        /\ c # NoReader /\ ~LockStateMutex(c)
      BY <1>1, NoReaderAssumption DEF MonitorInv, MutexSerialises, LockStateMutex
  <2>2. CASE ReturnState(c)
      BY <2>2 DEF ReturnState
  <2>3. CASE BeginBufferRead(c)
    <3>1. /\ mpc[c] = "read" /\ mpc'[c] = "reading" /\ stateMutex' = c
          /\ rpc'[c] = "load_before" /\ attempt'[c] = 0
        BY <1>1, <2>3 DEF BeginBufferRead, CallRead, MonitorInv, MonitorTypeOK, BufferInv, TypeOK
    <3>2. /\ StepsToRelease(c) = MaxReadAttempts * (WordCount + 2) + 2
          /\ StepsToRelease(c)' = (MaxReadAttempts - 1 - 0) * (WordCount + 2) + (WordCount + 2) + 1
        BY <3>1 DEF StepsToRelease, StepsInRead, StepsInAttempt, Inside
    <3>3. MaxReadAttempts - 1 \in Nat /\ WordCount + 2 \in Nat
          /\ (MaxReadAttempts - 1) + 1 = MaxReadAttempts /\ MaxReadAttempts - 1 - 0 = MaxReadAttempts - 1
        BY SMT
    <3>4. /\ MaxReadAttempts * (WordCount + 2) = (MaxReadAttempts - 1) * (WordCount + 2) + (WordCount + 2)
          /\ (MaxReadAttempts - 1) * (WordCount + 2) \in Nat
        BY <3>3, AttemptsTimesSteps
    <3>5. StepsToRelease(c)' < StepsToRelease(c)
        BY <3>2, <3>3, <3>4, SMT
    <3> QED BY <2>3, <3>1, <3>5 DEF InsideState
  <2>4. CASE BufferReadStep(c)
    <3>1. /\ mpc[c] = "reading" /\ stateMutex' = c /\ ReadStep(c)
          /\ mpc'[c] = IF Inside(c)' THEN "reading" ELSE "return"
        BY <1>1, <2>4 DEF BufferReadStep, MonitorInv, MonitorTypeOK
    <3>2. /\ StepsInRead(c)' < StepsInRead(c) /\ StepsInRead(c) \in Nat \ {0}
          /\ StepsToRelease(c) = StepsInRead(c) + 1
        BY <1>1, <2>1, <3>1, ReadStepComesCloser, StepsInRange, AttemptsTimesSteps, SMT DEF StepsToRelease
    <3>3. BufferInv'
        BY <1>1, <3>1, StepKeepsBufferInv, StepUsesBuffer
    <3>4. CASE Inside(c)'
      <4>1. StepsToRelease(c)' = StepsInRead(c)' + 1
          BY <3>1, <3>4 DEF StepsToRelease
      <4>2. StepsInRead(c)' \in 1 .. MaxReadAttempts * (WordCount + 2)
        <5>1. BufferInv' => ReadIsBounded'
            BY BufferIsBounded, PTL
        <5> QED BY <3>3, <3>4, <5>1 DEF ReadIsBounded
      <4>3. StepsToRelease(c)' < StepsToRelease(c)
          BY <3>2, <4>1, <4>2, SMT
      <4> QED BY <2>4, <3>1, <4>3 DEF InsideState
    <3>5. CASE ~Inside(c)'
      <4>1. StepsToRelease(c)' = 1
          BY <3>1, <3>5 DEF StepsToRelease
      <4>2. StepsToRelease(c)' < StepsToRelease(c)
          BY <3>2, <4>1, SMT
      <4> QED BY <2>4, <3>1, <4>2 DEF InsideState
    <3> QED BY <3>4, <3>5
  <2>5. CASE ~InsideState(c)
    <3>1. /\ mpc'[c] = mpc[c] /\ stateMutex' = c
          /\ rpc'[c] = rpc[c] /\ attempt'[c] = attempt[c] /\ rnext'[c] = rnext[c]
      <4>1. CASE WorkerPublishes
          BY <1>1, <4>1 DEF WorkerPublishes, mvars, Publish, BeginPublication, StoreWord,
             EndPublication, rvars
      <4>2. CASE CountCycle
          BY <1>1, <4>2 DEF CountCycle, vars
      <4>3. ASSUME NEW d \in Readers, CallState(d) \/ InsideState(d)
            PROVE  d # c /\ (CallState(d) \/ LockStateMutex(d))
        <5>1. CASE d = c
            BY <2>1, <2>5, <4>3, <5>1 DEF CallState
        <5>2. CASE d # c
            BY <1>1, <2>1, <4>3, <5>2 DEF InsideState, BeginBufferRead, BufferReadStep,
               ReturnState, MonitorInv, MutexSerialises
        <5> QED BY <5>1, <5>2
      <4>4. ASSUME NEW d \in Readers, d # c, CallState(d)
            PROVE  /\ mpc'[c] = mpc[c] /\ stateMutex' = c
                   /\ rpc'[c] = rpc[c] /\ attempt'[c] = attempt[c] /\ rnext'[c] = rnext[c]
          BY <1>1, <4>4 DEF CallState, vars, MonitorInv, MonitorTypeOK
      <4>5. \A d \in Readers : ~LockStateMutex(d)
          BY <1>1, NoReaderAssumption DEF LockStateMutex
      <4> QED BY <1>1, <4>1, <4>2, <4>3, <4>4, <4>5 DEF MonitorNext
    <3>2. mpc[c] = "reading" => StepsInRead(c)' = StepsInRead(c)
        BY <3>1 DEF StepsInRead, StepsInAttempt, Inside
    <3>3. StepsToRelease(c)' = StepsToRelease(c)
        BY <2>1, <3>1, <3>2 DEF StepsToRelease
    <3> QED BY <2>5, <3>1, <3>3
  <2> QED BY <2>1, <2>2, <2>3, <2>4, <2>5 DEF InsideState
<1>2. BufferInv /\ MonitorInv /\ [MonitorNext]_allvars =>
          [\A c \in Readers : stateMutex = c =>
              \/ ReturnState(c) /\ stateMutex' = NoReader
              \/ /\ stateMutex' = c
                 /\ IF InsideState(c) THEN StepsToRelease(c)' < StepsToRelease(c)
                                      ELSE StepsToRelease(c)' = StepsToRelease(c)]_allvars
    BY <1>1
<1> QED BY <1>2, BothInvariants, PTL DEF MonitorSpec, ReleaseComesCloser
=============================================================================
