------------------------- MODULE CanBuffers_proofs -------------------------
(***************************************************************************)
(* Theorems about CanBuffers for any number of words, attempts and         *)
(* publications, under every value a relaxed load may return.              *)
(*                                                                         *)
(* BuffersInv is inductive.  The views only grow; a release increment      *)
(* stores the publication it completes and a relaxed one passes on the     *)
(* one before (ReleasesAreComplete), so that an acquire load of any value  *)
(* brings every word's view up to the publication complete with it.        *)
(* The last part bounds the loads of a read().                             *)
(***************************************************************************)
EXTENDS CanBuffers, TLAPS

USE WordCountAssumption, MaxReadAttemptsAssumption, MaxPublicationsAssumption

(* Parity and halves of the counter. *)
LEMMA CounterSteps ==
    ASSUME NEW n \in Nat
    PROVE  /\ Completed(n) \in Nat /\ InProgress(n) \in Nat
           /\ Odd(n) <=> ~Odd(n + 1)
           /\ Odd(n) => /\ InProgress(n) = Completed(n) + 1
                        /\ Completed(n + 1) = InProgress(n)
                        /\ n = 2 * Completed(n) + 1
           /\ ~Odd(n) => /\ Completed(n + 1) = Completed(n)
                         /\ InProgress(n + 1) = Completed(n) + 1
                         /\ n = 2 * Completed(n)
BY SMT DEF Odd, Completed, InProgress

LEMMA CompletedIsMonotone == \A m, n \in Nat : m <= n => Completed(m) <= Completed(n)
BY SMT DEF Completed

LEMMA InitBuffersInv == Init => BuffersInv
<1> SUFFICES ASSUME Init PROVE BuffersInv
    OBVIOUS
<1> USE DEF Init
<1>1. Completed(0) = 0 /\ ~Odd(0) /\ 0 .. sequence = {0}
    BY SMT DEF Completed, Odd
<1>2. TypeOK
  <2>1. /\ 0 \in 0 .. 2 * MaxPublications /\ 0 \in 0 .. MaxPublications
        /\ 0 \in 0 .. WordCount + 1 /\ 1 \in 1 .. WordCount + 1
        /\ 0 \in 0 .. MaxReadAttempts - 1
      BY SMT
  <2> QED BY <2>1 DEF TypeOK
<1>3. WriterInv /\ ReleasesAreComplete
    BY <1>1, SMT DEF WriterInv, ReleasesAreComplete, Words
<1>4. ViewsExist /\ AttemptInv /\ DeliveredIsSeen /\ DeliversValidated
    BY SMT DEF ViewsExist, AttemptInv, DeliveredIsSeen, DeliversValidated
<1> QED BY <1>2, <1>3, <1>4 DEF BuffersInv

-----------------------------------------------------------------------------
(* One lemma per step of the writer. *)

LEMMA BeginPublicationKeepsInv == BuffersInv /\ BeginPublication => BuffersInv'
<1> SUFFICES ASSUME BuffersInv, BeginPublication PROVE BuffersInv'
    OBVIOUS
<1> USE DEF BuffersInv, BeginPublication
<1>1. /\ sequence \in Nat /\ ~Odd(sequence) /\ sequence' = sequence + 1 /\ Odd(sequence')
      /\ wnext = 0 /\ wnext' = 1
    BY CounterSteps, SMT DEF TypeOK, WriterInv
<1>2. Completed(sequence') = Completed(sequence) /\ InProgress(sequence') = Completed(sequence) + 1
    BY <1>1, CounterSteps
<1>3. TypeOK'
    BY SMT DEF TypeOK, views, rvars
<1>4. WriterInv'
    BY <1>1, <1>2, SMT DEF WriterInv, Words
<1>5. ReleasesAreComplete'
  <2>1. \A s \in 0 .. sequence' : s \in 0 .. sequence \/ s = sequence + 1
      BY <1>1, SMT
  <2>2. /\ sequence \in 0 .. sequence /\ sequence + 1 \in 0 .. 2 * MaxPublications
        /\ \A s \in 0 .. sequence : s # sequence + 1
      BY <1>1, SMT
  <2>3. /\ released'[sequence + 1] = released[sequence]
        /\ \A s \in 0 .. sequence : released'[s] = released[s]
    <3>1. \A s \in 0 .. sequence : s \in 0 .. 2 * MaxPublications
        BY <1>1, SMT
    <3> QED BY <2>2, <3>1 DEF TypeOK
  <2> QED BY <1>1, <1>2, <2>1, <2>2, <2>3 DEF ReleasesAreComplete
<1>6. ViewsExist'
    BY <1>1, SMT DEF ViewsExist, views, TypeOK
<1>7. AttemptInv' /\ DeliveredIsSeen' /\ DeliversValidated'
    BY DEF AttemptInv, DeliveredIsSeen, DeliversValidated, views, rvars
<1> QED BY <1>3, <1>4, <1>5, <1>6, <1>7

LEMMA StoreWordKeepsInv == BuffersInv /\ StoreWord => BuffersInv'
<1> SUFFICES ASSUME BuffersInv, StoreWord PROVE BuffersInv'
    OBVIOUS
<1> USE DEF BuffersInv, StoreWord
<1>1. sequence \in Nat /\ Odd(sequence) /\ sequence' = sequence
    BY SMT DEF TypeOK, WriterInv, Words
<1>2. InProgress(sequence) \in 0 .. MaxPublications /\ Completed(sequence) <= InProgress(sequence)
  <2>1. /\ sequence = 2 * Completed(sequence) + 1 /\ Completed(sequence) \in Nat
        /\ InProgress(sequence) = Completed(sequence) + 1
      BY <1>1, CounterSteps
  <2>2. sequence \in 0 .. 2 * MaxPublications
      BY DEF TypeOK
  <2> QED BY <2>1, <2>2, SMT
<1>3. TypeOK'
  <2>1. stored' \in [Words -> 0 .. MaxPublications]
      BY <1>2 DEF TypeOK
  <2>2. wnext' \in 0 .. WordCount + 1
      BY SMT DEF Words
  <2> QED BY <2>1, <2>2 DEF TypeOK, views, rvars
<1>4. WriterInv'
  <2>1. wnext \in Words /\ wnext' = wnext + 1 /\ wnext # 0 /\ wnext' # 0
      BY SMT DEF Words
  <2>2. ASSUME NEW w \in Words
        PROVE  stored'[w] = IF w < wnext' THEN InProgress(sequence) ELSE Completed(sequence)
    <3>1. CASE w = wnext
        BY <2>1, <3>1, SMT DEF TypeOK, Words
    <3>2. CASE w # wnext
      <4>1. w < wnext' <=> w < wnext
          BY <2>1, <3>2, SMT DEF Words
      <4>2. stored'[w] = stored[w]
          BY <3>2 DEF TypeOK
      <4> QED BY <4>1, <4>2 DEF WriterInv
    <3> QED BY <3>1, <3>2
  <2> QED BY <1>1, <2>1, <2>2 DEF WriterInv
<1>5. ReleasesAreComplete'
    BY DEF ReleasesAreComplete
<1>6. ViewsExist'
  <2>1. ASSUME NEW w \in Words PROVE wordView[w] <= stored'[w]
    <3>1. stored[w] \in Nat /\ wordView[w] \in Nat /\ wordView[w] <= stored[w]
        BY SMT DEF TypeOK, ViewsExist
    <3>2. stored'[w] = stored[w] \/ (stored'[w] = InProgress(sequence) /\ stored[w] = Completed(sequence))
        BY <1>1, SMT DEF TypeOK, WriterInv, Words
    <3> QED BY <1>1, <1>2, <3>1, <3>2, CounterSteps, SMT
  <2> QED BY <2>1 DEF ViewsExist, views
<1>7. AttemptInv' /\ DeliveredIsSeen' /\ DeliversValidated'
    BY DEF AttemptInv, DeliveredIsSeen, DeliversValidated, views, rvars
<1> QED BY <1>3, <1>4, <1>5, <1>6, <1>7

LEMMA EndPublicationKeepsInv == BuffersInv /\ EndPublication => BuffersInv'
<1> SUFFICES ASSUME BuffersInv, EndPublication PROVE BuffersInv'
    OBVIOUS
<1> USE DEF BuffersInv, EndPublication
<1>1. /\ sequence \in Nat /\ Odd(sequence) /\ sequence' = sequence + 1 /\ ~Odd(sequence')
      /\ wnext = WordCount + 1 /\ wnext' = 0
    BY CounterSteps, SMT DEF TypeOK, WriterInv
<1>2. /\ Completed(sequence') = InProgress(sequence)
      /\ sequence = 2 * Completed(sequence) + 1 /\ Completed(sequence) \in Nat
      /\ InProgress(sequence) = Completed(sequence) + 1
    BY <1>1, CounterSteps
<1>3. sequence + 1 \in 0 .. 2 * MaxPublications /\ InProgress(sequence) \in 0 .. MaxPublications
  <2>1. sequence \in 0 .. 2 * MaxPublications
      BY DEF TypeOK
  <2> QED BY <1>1, <1>2, <2>1, SMT
<1>4. TypeOK'
    BY <1>1, <1>3 DEF TypeOK, views, rvars
<1>5. WriterInv'
    BY <1>1, <1>2, SMT DEF WriterInv, Words
<1>6. ReleasesAreComplete'
  <2>1. \A s \in 0 .. sequence' : s \in 0 .. sequence \/ s = sequence + 1
      BY <1>1, SMT
  <2>2. \A s \in 0 .. sequence : s # sequence + 1 /\ s \in 0 .. 2 * MaxPublications
      BY <1>1, <1>3, SMT
  <2>3. /\ released'[sequence + 1] = InProgress(sequence)
        /\ \A s \in 0 .. sequence : released'[s] = released[s]
      BY <1>3, <2>2 DEF TypeOK
  <2> QED BY <1>1, <1>2, <2>1, <2>3 DEF ReleasesAreComplete
<1>7. ViewsExist'
    BY <1>1, SMT DEF ViewsExist, views, TypeOK
<1>8. AttemptInv' /\ DeliveredIsSeen' /\ DeliversValidated'
    BY DEF AttemptInv, DeliveredIsSeen, DeliversValidated, views, rvars
<1> QED BY <1>4, <1>5, <1>6, <1>7, <1>8

-----------------------------------------------------------------------------
(* What an acquire load of the counter does to the reader's views. *)
LEMMA LoadSequenceStep ==
    ASSUME BuffersInv, NEW s \in 0 .. 2 * MaxPublications, LoadSequence(s)
    PROVE  /\ s <= sequence
           /\ seqView' = s
           /\ wordView' \in [Words -> 0 .. MaxPublications]
           /\ \A w \in Words : /\ wordView[w] <= wordView'[w]
                               /\ Completed(s) <= wordView'[w]
                               /\ wordView'[w] <= stored[w]
<1> USE DEF BuffersInv, LoadSequence
<1>1. /\ sequence \in 0 .. 2 * MaxPublications /\ seqView \in Nat
      /\ \A w \in Words : /\ stored[w] \in 0 .. MaxPublications
                          /\ wordView[w] \in 0 .. MaxPublications
                          /\ wordView[w] <= stored[w]
    BY SMT DEF TypeOK, ViewsExist
<1>2. s \in 0 .. sequence /\ s \in Nat /\ sequence \in Nat /\ s <= sequence
    BY <1>1, SMT
<1>3. released[s] = Completed(s) /\ Completed(s) \in Nat /\ Completed(s) <= Completed(sequence)
    BY <1>2, CounterSteps, CompletedIsMonotone DEF ReleasesAreComplete
<1>4. \A w \in Words : Completed(sequence) <= stored[w]
  <2>1. Completed(sequence) \in Nat
      BY <1>2, CounterSteps
  <2>2. ASSUME NEW w \in Words, w < wnext PROVE Completed(sequence) <= InProgress(sequence)
    <3>1. Odd(sequence)
        BY <2>2, SMT DEF WriterInv, Words
    <3> QED BY <1>2, <2>1, <3>1, CounterSteps, SMT
  <2> QED BY <2>1, <2>2 DEF WriterInv
<1>5. ASSUME NEW w \in Words
      PROVE  /\ wordView'[w] = MaxOf(wordView[w], Completed(s))
             /\ wordView'[w] \in 0 .. MaxPublications
             /\ wordView[w] <= wordView'[w] /\ Completed(s) <= wordView'[w]
             /\ wordView'[w] <= stored[w]
  <2>1. wordView'[w] = MaxOf(wordView[w], Completed(s))
      BY <1>3
  <2>2. wordView[w] \in Nat /\ stored[w] \in 0 .. MaxPublications /\ Completed(sequence) \in Nat
      BY <1>1, <1>2, CounterSteps
  <2>3. wordView[w] <= stored[w] /\ Completed(sequence) <= stored[w]
      BY <1>1, <1>4
  <2> QED BY <1>3, <2>1, <2>2, <2>3, SMT DEF MaxOf
<1> QED BY <1>2, <1>5

-----------------------------------------------------------------------------
(* One lemma per step of the reader. *)

LEMMA CallReadKeepsInv == BuffersInv /\ CallRead => BuffersInv' /\ UNCHANGED state
<1> SUFFICES ASSUME BuffersInv, CallRead PROVE BuffersInv' /\ UNCHANGED state
    OBVIOUS
<1> USE DEF BuffersInv, CallRead
<1>1. 0 \in 0 .. MaxReadAttempts - 1
    BY SMT
<1>2. TypeOK'
    BY <1>1 DEF TypeOK, wvars, views
<1>3. WriterInv' /\ ReleasesAreComplete' /\ ViewsExist'
    BY DEF WriterInv, ReleasesAreComplete, ViewsExist, wvars, views
<1>4. AttemptInv' /\ DeliveredIsSeen' /\ DeliversValidated'
    BY DEF AttemptInv, DeliveredIsSeen, DeliversValidated, views
<1> QED BY <1>2, <1>3, <1>4

LEMMA NextAttemptStep ==
    ASSUME TypeOK, NextAttempt
    PROVE  /\ rpc' \in {"outside", "load_before"}
           /\ rpc' = "outside" => ~ok'
           /\ attempt' \in 0 .. MaxReadAttempts - 1
           /\ ok' \in BOOLEAN
<1>1. CASE attempt + 1 < MaxReadAttempts
  <2>1. attempt + 1 \in 0 .. MaxReadAttempts - 1
      BY <1>1, SMT DEF TypeOK
  <2> QED BY <1>1, <2>1 DEF NextAttempt, TypeOK
<1>2. CASE ~(attempt + 1 < MaxReadAttempts)
    BY <1>2 DEF NextAttempt, TypeOK
<1> QED BY <1>1, <1>2

LEMMA LoadBeforeKeepsInv ==
    ASSUME BuffersInv, NEW s \in 0 .. 2 * MaxPublications, LoadBefore(s)
    PROVE  BuffersInv' /\ UNCHANGED state
<1> USE DEF BuffersInv, LoadBefore
<1>1. /\ s <= sequence /\ seqView' = s /\ before' = s
      /\ wordView' \in [Words -> 0 .. MaxPublications]
      /\ \A w \in Words : /\ wordView[w] <= wordView'[w]
                          /\ Completed(s) <= wordView'[w]
                          /\ wordView'[w] <= stored[w]
    BY LoadSequenceStep
<1>2. \/ /\ rpc' \in {"outside", "load_before"} /\ (rpc' = "outside" => ~ok') /\ rnext' = rnext
         /\ attempt' \in 0 .. MaxReadAttempts - 1 /\ ok' \in BOOLEAN
      \/ rpc' = "load_word" /\ rnext' = 1 /\ attempt' = attempt /\ ok' = ok
    BY NextAttemptStep
<1>3. 1 \in 1 .. WordCount + 1 /\ 1 \in Words /\ \A w \in Words : ~(w < 1)
    BY SMT DEF Words
<1>4. TypeOK'
    BY <1>1, <1>2, <1>3 DEF TypeOK, wvars
<1>5. WriterInv' /\ ReleasesAreComplete' /\ ViewsExist'
    BY <1>1 DEF WriterInv, ReleasesAreComplete, ViewsExist, wvars
<1>6. AttemptInv'
    BY <1>1, <1>2, <1>3 DEF AttemptInv
<1>7. DeliveredIsSeen'
  <2>1. ASSUME NEW w \in Words PROVE state[w] <= wordView'[w]
    <3>1. state[w] \in Nat /\ wordView[w] \in Nat /\ wordView'[w] \in Nat
        BY <1>1, SMT DEF TypeOK
    <3> QED BY <1>1, <3>1, SMT DEF DeliveredIsSeen
  <2> QED BY <2>1 DEF DeliveredIsSeen
<1>8. DeliversValidated'
    BY <1>2 DEF DeliversValidated
<1> QED BY <1>4, <1>5, <1>6, <1>7, <1>8

LEMMA LoadWordKeepsInv ==
    ASSUME BuffersInv, NEW v \in 0 .. MaxPublications, LoadWord(v)
    PROVE  BuffersInv' /\ UNCHANGED state
<1> USE DEF BuffersInv, LoadWord
<1>1. rnext \in Words /\ rpc = "load_word" /\ rpc' \in {"load_word", "load_after"}
    BY DEF AttemptInv
<1>2. /\ \A w \in Words : wordView'[w] = IF w = rnext THEN v ELSE wordView[w]
      /\ \A w \in Words : candidate'[w] = IF w = rnext THEN v ELSE candidate[w]
      /\ wordView' \in [Words -> 0 .. MaxPublications]
      /\ candidate' \in [Words -> 0 .. MaxPublications]
    BY <1>1 DEF TypeOK
<1>3. wordView[rnext] <= v /\ v <= stored[rnext] /\ v \in Nat /\ wordView[rnext] \in Nat
    BY <1>1, SMT DEF TypeOK
<1>4. /\ rnext' = rnext + 1 /\ rnext' \in 1 .. WordCount + 1
      /\ rpc' = "load_word" => rnext' \in Words
      /\ rpc' = "load_after" => rnext' = WordCount + 1
      /\ \A w \in Words : w < rnext' => w < rnext \/ w = rnext
    BY <1>1, SMT DEF Words
<1>5. TypeOK'
    BY <1>1, <1>2, <1>4 DEF TypeOK, wvars
<1>6. WriterInv' /\ ReleasesAreComplete' /\ ViewsExist'
    BY <1>2, <1>3 DEF WriterInv, ReleasesAreComplete, ViewsExist, wvars
<1>7. Completed(before) <= v
  <2>1. Completed(before) \in Nat /\ Completed(before) <= wordView[rnext]
    <3>1. before \in Nat
        BY SMT DEF TypeOK
    <3> QED BY <1>1, <3>1, CounterSteps DEF AttemptInv
  <2> QED BY <1>3, <2>1, SMT
<1>8. AttemptInv'
    BY <1>1, <1>2, <1>4, <1>7 DEF AttemptInv
<1>9. DeliveredIsSeen'
  <2>1. state[rnext] <= v
    <3>1. state[rnext] \in Nat /\ state[rnext] <= wordView[rnext]
        BY <1>1, SMT DEF TypeOK, DeliveredIsSeen
    <3> QED BY <1>3, <3>1, SMT
  <2> QED BY <1>2, <2>1 DEF DeliveredIsSeen
<1>10. DeliversValidated'
    BY <1>1 DEF DeliversValidated
<1> QED BY <1>5, <1>6, <1>8, <1>9, <1>10

(* The one step that delivers: what it delivers is what the views stood at. *)
LEMMA LoadAfterKeepsInv ==
    ASSUME BuffersInv, NEW s \in 0 .. 2 * MaxPublications, LoadAfter(s)
    PROVE  BuffersInv' /\ \A w \in Words : state[w] <= state'[w]
<1> USE DEF BuffersInv, LoadAfter
<1>1. /\ s <= sequence /\ seqView' = s
      /\ wordView' \in [Words -> 0 .. MaxPublications]
      /\ \A w \in Words : wordView[w] <= wordView'[w] /\ wordView'[w] <= stored[w]
    BY LoadSequenceStep
<1>2. \A w \in Words :
        /\ candidate[w] = wordView[w] /\ Completed(before) <= candidate[w]
        /\ state[w] \in Nat /\ candidate[w] \in Nat /\ wordView'[w] \in Nat
        /\ state[w] <= candidate[w] /\ candidate[w] <= wordView'[w]
  <2>1. \A w \in Words : w < WordCount + 1
      BY SMT DEF Words
  <2>2. \A w \in Words : candidate[w] = wordView[w] /\ Completed(before) <= candidate[w]
      BY <2>1 DEF AttemptInv
  <2>3. \A w \in Words : state[w] \in Nat /\ candidate[w] \in Nat /\ wordView'[w] \in Nat
      BY <1>1, SMT DEF TypeOK
  <2> QED BY <1>1, <2>2, <2>3 DEF DeliveredIsSeen
<1>3. \/ /\ rpc' \in {"outside", "load_before"} /\ (rpc' = "outside" => ~ok')
         /\ attempt' \in 0 .. MaxReadAttempts - 1 /\ ok' \in BOOLEAN
         /\ state' = state
      \/ rpc' = "outside" /\ ok' = TRUE /\ state' = candidate /\ attempt' = attempt
    BY NextAttemptStep
<1>4. TypeOK'
    BY <1>1, <1>3 DEF TypeOK, wvars
<1>5. WriterInv' /\ ReleasesAreComplete' /\ ViewsExist'
    BY <1>1 DEF WriterInv, ReleasesAreComplete, ViewsExist, wvars
<1>6. AttemptInv'
    BY <1>3 DEF AttemptInv
<1>7. ASSUME NEW w \in Words
      PROVE  state'[w] <= wordView'[w] /\ state[w] <= state'[w]
  <2>1. CASE state' = state
      BY <1>2, <2>1, SMT
  <2>2. CASE state' = candidate
      BY <1>2, <2>2, SMT
  <2> QED BY <1>3, <2>1, <2>2
<1>8. DeliversValidated'
    BY <1>2, <1>3 DEF DeliversValidated
<1> QED BY <1>4, <1>5, <1>6, <1>7, <1>8 DEF DeliveredIsSeen

LEMMA StepKeepsBuffersInv ==
    BuffersInv /\ [Next]_vars => BuffersInv' /\ \A w \in Words : state[w] <= state'[w]
<1> SUFFICES ASSUME BuffersInv, [Next]_vars
             PROVE  BuffersInv' /\ \A w \in Words : state[w] <= state'[w]
    OBVIOUS
<1>1. UNCHANGED state => \A w \in Words : state[w] <= state'[w]
    BY SMT DEF BuffersInv, TypeOK
<1>2. CASE Publish
    BY <1>1, <1>2, BeginPublicationKeepsInv, StoreWordKeepsInv, EndPublicationKeepsInv
       DEF Publish, BeginPublication, StoreWord, EndPublication, rvars
<1>3. CASE Read
    BY <1>1, <1>3, CallReadKeepsInv, LoadBeforeKeepsInv, LoadWordKeepsInv, LoadAfterKeepsInv
       DEF Read
<1>4. CASE UNCHANGED vars
    BY <1>1, <1>4 DEF BuffersInv, TypeOK, WriterInv, ReleasesAreComplete, ViewsExist, AttemptInv,
       DeliveredIsSeen, DeliversValidated, vars, wvars, views, rvars
<1> QED BY <1>2, <1>3, <1>4 DEF Next

-----------------------------------------------------------------------------
(* BuffersInv holds whatever the writer and the reader do and whatever values  *)
(* the relaxed loads return.                                                   *)
THEOREM BuffersInvariant == Spec => []BuffersInv
BY InitBuffersInv, StepKeepsBuffersInv, PTL DEF Spec

(* A successful read() is at least as new, in every word, as the publication   *)
(* its sequence number stands for, for any number of words: the one release    *)
(* increment of publish() is enough for that.                                  *)
THEOREM ValidatedIsDelivered == Spec => []DeliversValidated
<1>1. BuffersInv => DeliversValidated
    BY DEF BuffersInv
<1> QED BY <1>1, BuffersInvariant, PTL

(* No word a reader gets is older than the one it got before: the target the   *)
(* control loop takes from CanCommandBuffer never goes back.                   *)
THEOREM ReaderNeverGoesBack == Spec => NeverGoesBack
<1>1. BuffersInv /\ [Next]_vars => [\A w \in Words : state[w] <= state'[w]]_vars
    BY StepKeepsBuffersInv
<1> QED BY <1>1, BuffersInvariant, PTL DEF Spec, NeverGoesBack

-----------------------------------------------------------------------------
(* The distance of the reader from the end of read(). *)

LEMMA AttemptsTimesSteps ==
    ASSUME NEW k \in Nat, NEW m \in Nat, NEW s \in Nat
    PROVE  /\ k * s \in Nat /\ (k + 1) * s = k * s + s
           /\ k <= m => k * s <= m * s
BY SMT

(* What an attempt has left is within an attempt, and a call within all of them. *)
LEMMA StepsInRange ==
    ASSUME BuffersInv, rpc # "outside"
    PROVE  /\ StepsInAttempt \in 1 .. WordCount + 2
           /\ MaxReadAttempts - 1 - attempt \in Nat
           /\ (MaxReadAttempts - 1 - attempt) * (WordCount + 2) \in Nat
           /\ StepsInRead = (MaxReadAttempts - 1 - attempt) * (WordCount + 2) + StepsInAttempt
           /\ StepsInRead \in 1 .. MaxReadAttempts * (WordCount + 2)
<1> DEFINE k == MaxReadAttempts - 1 - attempt
<1>1. rpc \in {"load_before", "load_word", "load_after"} /\ attempt \in 0 .. MaxReadAttempts - 1
    BY DEF BuffersInv, TypeOK
<1>2. rpc = "load_word" => rnext \in Words
    BY DEF BuffersInv, AttemptInv
<1>3. StepsInAttempt \in 1 .. WordCount + 2
    BY <1>1, <1>2, SMT DEF StepsInAttempt, Words
<1>4. k \in Nat /\ k <= MaxReadAttempts - 1 /\ MaxReadAttempts - 1 \in Nat /\ WordCount + 2 \in Nat
    BY <1>1, SMT
<1>5. StepsInRead = k * (WordCount + 2) + StepsInAttempt
    BY DEF StepsInRead
<1> HIDE DEF k
<1>6. /\ k * (WordCount + 2) \in Nat
      /\ k * (WordCount + 2) <= (MaxReadAttempts - 1) * (WordCount + 2)
      /\ (MaxReadAttempts - 1) * (WordCount + 2) \in Nat
      /\ (MaxReadAttempts - 1 + 1) * (WordCount + 2) = (MaxReadAttempts - 1) * (WordCount + 2) + (WordCount + 2)
    BY <1>4, AttemptsTimesSteps
<1>7. MaxReadAttempts - 1 + 1 = MaxReadAttempts
    BY SMT
<1>8. StepsInRead \in 1 .. MaxReadAttempts * (WordCount + 2)
    BY <1>3, <1>5, <1>6, <1>7, SMT
<1> QED BY <1>3, <1>4, <1>5, <1>6, <1>8 DEF k

(* read() ends within MaxReadAttempts * (WordCount + 2) loads. *)
THEOREM ReadBounded == Spec => []ReadIsBounded
<1>1. BuffersInv => ReadIsBounded
    BY StepsInRange DEF ReadIsBounded
<1> QED BY <1>1, BuffersInvariant, PTL

(* A failed attempt uses up more than what is left of it. *)
LEMMA NextAttemptComesCloser ==
    ASSUME BuffersInv, rpc # "outside", NextAttempt
    PROVE  StepsInRead' < StepsInRead
<1> DEFINE k == MaxReadAttempts - 1 - attempt
<1>1. /\ attempt \in Nat /\ k \in Nat /\ k * (WordCount + 2) \in Nat
      /\ StepsInRead = k * (WordCount + 2) + StepsInAttempt
      /\ StepsInAttempt \in 1 .. WordCount + 2
    BY StepsInRange, SMT DEF BuffersInv, TypeOK
<1>2. CASE attempt + 1 < MaxReadAttempts
  <2>1. rpc' = "load_before" /\ attempt' = attempt + 1
      BY <1>2 DEF NextAttempt
  <2>2. StepsInRead' = (MaxReadAttempts - 1 - (attempt + 1)) * (WordCount + 2) + (WordCount + 2)
      BY <2>1 DEF StepsInRead, StepsInAttempt
  <2>3. MaxReadAttempts - 1 - (attempt + 1) = k - 1 /\ k - 1 \in Nat /\ (k - 1) + 1 = k
      BY <1>1, <1>2, SMT
  <2>4. WordCount + 2 \in Nat
      BY SMT
  <2> HIDE DEF k
  <2>5. k * (WordCount + 2) = (k - 1) * (WordCount + 2) + (WordCount + 2) /\ (k - 1) * (WordCount + 2) \in Nat
      BY <2>3, <2>4, AttemptsTimesSteps
  <2> QED BY <1>1, <2>2, <2>3, <2>5, SMT
<1>3. CASE ~(attempt + 1 < MaxReadAttempts)
  <2>1. rpc' = "outside"
      BY <1>3 DEF NextAttempt
  <2>2. StepsInRead' = 0
      BY <2>1 DEF StepsInRead
  <2> QED BY <1>1, <2>2, SMT
<1> QED BY <1>2, <1>3

LEMMA LoadBeforeComesCloser ==
    ASSUME BuffersInv, NEW s \in 0 .. 2 * MaxPublications, LoadBefore(s)
    PROVE  StepsInRead' < StepsInRead
<1>1. CASE NextAttempt
    BY <1>1, NextAttemptComesCloser DEF LoadBefore
<1>2. CASE rpc' = "load_word" /\ rnext' = 1 /\ attempt' = attempt
  <2>1. rpc = "load_before"
      BY DEF LoadBefore
  <2>2. /\ StepsInAttempt = WordCount + 2
        /\ StepsInRead' = (MaxReadAttempts - 1 - attempt) * (WordCount + 2) + (WordCount + 2 - 1)
      BY <1>2, <2>1 DEF StepsInRead, StepsInAttempt
  <2> QED BY <2>1, <2>2, StepsInRange, SMT
<1> QED BY <1>1, <1>2 DEF LoadBefore

LEMMA LoadWordComesCloser ==
    ASSUME BuffersInv, NEW v \in 0 .. MaxPublications, LoadWord(v)
    PROVE  StepsInRead' < StepsInRead
<1>1. /\ rpc = "load_word" /\ rnext \in Words /\ rnext' = rnext + 1 /\ attempt' = attempt
      /\ rpc' = IF rnext = WordCount THEN "load_after" ELSE "load_word"
    BY DEF LoadWord, BuffersInv, AttemptInv
<1>2. /\ (MaxReadAttempts - 1 - attempt) * (WordCount + 2) \in Nat
      /\ StepsInRead = (MaxReadAttempts - 1 - attempt) * (WordCount + 2) + (WordCount + 2 - rnext)
    BY <1>1, StepsInRange DEF StepsInAttempt
<1>3. CASE rnext = WordCount
  <2>1. StepsInRead' = (MaxReadAttempts - 1 - attempt) * (WordCount + 2) + 1
      BY <1>1, <1>3 DEF StepsInRead, StepsInAttempt
  <2> QED BY <1>2, <1>3, <2>1, SMT
<1>4. CASE rnext # WordCount
  <2>1. StepsInRead' = (MaxReadAttempts - 1 - attempt) * (WordCount + 2) + (WordCount + 2 - (rnext + 1))
      BY <1>1, <1>4 DEF StepsInRead, StepsInAttempt
  <2> QED BY <1>1, <1>2, <2>1, SMT DEF Words
<1> QED BY <1>3, <1>4

LEMMA LoadAfterComesCloser ==
    ASSUME BuffersInv, NEW s \in 0 .. 2 * MaxPublications, LoadAfter(s)
    PROVE  StepsInRead' < StepsInRead
<1>1. CASE NextAttempt
    BY <1>1, NextAttemptComesCloser DEF LoadAfter
<1>2. CASE rpc' = "outside"
  <2>1. StepsInRead' = 0
      BY <1>2 DEF StepsInRead
  <2> QED BY <2>1, StepsInRange, SMT DEF LoadAfter
<1> QED BY <1>1, <1>2 DEF LoadAfter

(* A step of the writer leaves the reader's locals alone, and so its distance. *)
LEMMA ReadOrNotComesCloser ==
    ASSUME BuffersInv, [Next]_vars, rpc # "outside"
    PROVE  IF Read THEN StepsInRead' < StepsInRead ELSE StepsInRead' = StepsInRead
<1>1. CASE Read
    BY <1>1, LoadBeforeComesCloser, LoadWordComesCloser, LoadAfterComesCloser DEF Read, CallRead
<1>2. CASE ~Read
  <2>1. rvars' = rvars
      BY <1>2 DEF Next, Publish, BeginPublication, StoreWord, EndPublication, vars
  <2>2. rpc' = rpc /\ attempt' = attempt /\ rnext' = rnext
      BY <2>1 DEF rvars
  <2> QED BY <1>2, <2>2 DEF StepsInRead, StepsInAttempt
<1> QED BY <1>1, <1>2

(* read() comes to its end whatever values its loads return and however often  *)
(* publish() overtakes it.                                                     *)
THEOREM ReadIsWaitFree == Spec => ReadComesCloser
<1>1. BuffersInv /\ [Next]_vars =>
          [rpc # "outside" =>
              IF Read THEN StepsInRead' < StepsInRead ELSE StepsInRead' = StepsInRead]_vars
    BY ReadOrNotComesCloser
<1> QED BY <1>1, BuffersInvariant, PTL DEF Spec, ReadComesCloser
=============================================================================
