--------------------------- MODULE SnapshotBuffer ---------------------------
(***************************************************************************)
(* SnapshotBuffer (synchronization/SnapshotBuffer.cpp): one writer         *)
(* publishes a RobotState word by word between two increments of a         *)
(* sequence counter; readers copy the words and retry when the counter was *)
(* odd or moved.  Every access is seq_cst, so one atomic step per access   *)
(* in any interleaving is exactly the C++ semantics.                       *)
(*                                                                         *)
(* The buffer never looks at the doubles it stores, so a word is the       *)
(* number of the publication that wrote it (0: the zero initialisation).   *)
(* The 64-bit counter is a natural number: at 1 kHz it takes 292 million   *)
(* years to wrap.                                                          *)
(***************************************************************************)
EXTENDS Naturals

CONSTANTS
    Readers,          \* threads that call read()
    WordCount,        \* 2 * joint_count in the code: a position and a velocity per joint
    MaxReadAttempts,  \* max_read_attempts_
    MaxPublications   \* bound on the publications of a behaviour

ASSUME WordCountAssumption == WordCount \in Nat \ {0}
ASSUME MaxReadAttemptsAssumption == MaxReadAttempts \in Nat \ {0}
ASSUME MaxPublicationsAssumption == MaxPublications \in Nat

Words == 1 .. WordCount

(* The RobotState of publication n. *)
Whole(n) == [w \in Words |-> n]

VARIABLES
    sequence,    \* sequence_
    words,       \* positions_ and velocities_, in the order they are stored
    wnext,       \* the word publish() stores next; 0 when the writer is outside
    rpc,         \* rpc[r]: where reader r stands in read()
    attempt,     \* attempt[r]: failed attempts of the current call
    before,      \* before[r]: the local `before`
    rnext,       \* rnext[r]: the word r copies next
    candidate,   \* candidate[r]: the local `candidate`
    state,       \* state[r]: the caller's RobotState, the in/out parameter
    ok,          \* ok[r]: what the last call returned
    overlapped   \* overlapped[r], history: a publication was in progress during r's call

wvars == <<sequence, words, wnext>>
rvars == <<rpc, attempt, before, rnext, candidate, state, ok>>
vars == <<sequence, words, wnext, rpc, attempt, before, rnext, candidate,
          state, ok, overlapped>>

-----------------------------------------------------------------------------
(* The sequence counter. *)

Odd(n) == n % 2 = 1

(* The last publication completed when the counter reads n. *)
Completed(n) == n \div 2

(* The publication the words belong to while the counter reads n (odd). *)
InProgress(n) == (n + 1) \div 2

TypeOK ==
    /\ sequence \in 0 .. 2 * MaxPublications
    /\ words \in [Words -> 0 .. MaxPublications]
    /\ wnext \in 0 .. WordCount + 1
    /\ rpc \in [Readers -> {"outside", "load_before", "copy", "load_after"}]
    /\ attempt \in [Readers -> 0 .. MaxReadAttempts - 1]
    /\ before \in [Readers -> 0 .. 2 * MaxPublications]
    /\ rnext \in [Readers -> 1 .. WordCount + 1]
    /\ candidate \in [Readers -> [Words -> 0 .. MaxPublications]]
    /\ state \in [Readers -> [Words -> 0 .. MaxPublications]]
    /\ ok \in [Readers -> BOOLEAN]
    /\ overlapped \in [Readers -> BOOLEAN]

Init ==
    /\ sequence = 0
    /\ words = Whole(0)
    /\ wnext = 0
    /\ rpc = [r \in Readers |-> "outside"]
    /\ attempt = [r \in Readers |-> 0]
    /\ before = [r \in Readers |-> 0]
    /\ rnext = [r \in Readers |-> 1]
    /\ candidate = [r \in Readers |-> Whole(0)]
    /\ state = [r \in Readers |-> Whole(0)]
    /\ ok = [r \in Readers |-> FALSE]
    /\ overlapped = [r \in Readers |-> FALSE]

-----------------------------------------------------------------------------
(* publish(): the control thread, the only writer. *)

Inside(r) == rpc[r] # "outside"

BeginPublication ==
    /\ wnext = 0
    /\ sequence < 2 * MaxPublications
    /\ sequence' = sequence + 1
    /\ wnext' = 1
    /\ overlapped' = [r \in Readers |-> overlapped[r] \/ Inside(r)]
    /\ UNCHANGED words
    /\ UNCHANGED rvars

StoreWord ==
    /\ wnext \in Words
    /\ words' = [words EXCEPT ![wnext] = InProgress(sequence)]
    /\ wnext' = wnext + 1
    /\ UNCHANGED <<sequence, overlapped>>
    /\ UNCHANGED rvars

(* Mutant: the second increment of publish() is missing. *)
EndPublicationForgotten ==
    /\ wnext = WordCount + 1
    /\ wnext' = 0
    /\ UNCHANGED <<sequence, words, overlapped>>
    /\ UNCHANGED rvars

EndPublication ==
    /\ wnext = WordCount + 1
    /\ sequence' = sequence + 1
    /\ wnext' = 0
    /\ UNCHANGED <<words, overlapped>>
    /\ UNCHANGED rvars

Publish == BeginPublication \/ StoreWord \/ EndPublication

-----------------------------------------------------------------------------
(* read(): any reader, with any state it may have got before as in/out argument. *)

CallRead(r, argument) ==
    /\ rpc[r] = "outside"
    /\ rpc' = [rpc EXCEPT ![r] = "load_before"]
    /\ attempt' = [attempt EXCEPT ![r] = 0]
    /\ state' = [state EXCEPT ![r] = argument]
    /\ overlapped' = [overlapped EXCEPT ![r] = Odd(sequence)]
    /\ UNCHANGED <<before, rnext, candidate, ok>>
    /\ UNCHANGED wvars

(* Mutant: the retry loop is not bounded. *)
NextAttemptUnbounded(r) ==
    /\ rpc' = [rpc EXCEPT ![r] = "load_before"]
    /\ UNCHANGED <<attempt, ok>>

(* The end of a failed attempt: the next one, or `return false`. *)
NextAttempt(r) ==
    IF attempt[r] + 1 < MaxReadAttempts
    THEN /\ attempt' = [attempt EXCEPT ![r] = attempt[r] + 1]
         /\ rpc' = [rpc EXCEPT ![r] = "load_before"]
         /\ UNCHANGED ok
    ELSE /\ rpc' = [rpc EXCEPT ![r] = "outside"]
         /\ ok' = [ok EXCEPT ![r] = FALSE]
         /\ UNCHANGED attempt

(* Mutant: read() does not look at the parity of `before`. *)
LoadBeforeAny(r) ==
    /\ rpc[r] = "load_before"
    /\ before' = [before EXCEPT ![r] = sequence]
    /\ rnext' = [rnext EXCEPT ![r] = 1]
    /\ rpc' = [rpc EXCEPT ![r] = "copy"]
    /\ UNCHANGED <<attempt, candidate, state, ok, overlapped>>
    /\ UNCHANGED wvars

LoadBeforeEven(r) ==
    /\ rpc[r] = "load_before"
    /\ ~Odd(sequence)
    /\ before' = [before EXCEPT ![r] = sequence]
    /\ rnext' = [rnext EXCEPT ![r] = 1]
    /\ rpc' = [rpc EXCEPT ![r] = "copy"]
    /\ UNCHANGED <<attempt, candidate, state, ok, overlapped>>
    /\ UNCHANGED wvars

LoadBeforeOdd(r) ==
    /\ rpc[r] = "load_before"
    /\ Odd(sequence)
    /\ NextAttempt(r)
    /\ UNCHANGED <<before, rnext, candidate, state, overlapped>>
    /\ UNCHANGED wvars

CopyWord(r) ==
    /\ rpc[r] = "copy"
    /\ candidate' = [candidate EXCEPT ![r][rnext[r]] = words[rnext[r]]]
    /\ rnext' = [rnext EXCEPT ![r] = rnext[r] + 1]
    /\ rpc' = [rpc EXCEPT ![r] = IF rnext[r] = WordCount THEN "load_after" ELSE "copy"]
    /\ UNCHANGED <<attempt, before, state, ok, overlapped>>
    /\ UNCHANGED wvars

LoadAfterSame(r) ==
    /\ rpc[r] = "load_after"
    /\ sequence = before[r]
    /\ state' = [state EXCEPT ![r] = candidate[r]]
    /\ ok' = [ok EXCEPT ![r] = TRUE]
    /\ rpc' = [rpc EXCEPT ![r] = "outside"]
    /\ UNCHANGED <<attempt, before, rnext, candidate, overlapped>>
    /\ UNCHANGED wvars

LoadAfterMoved(r) ==
    /\ rpc[r] = "load_after"
    /\ sequence # before[r]
    /\ NextAttempt(r)
    /\ UNCHANGED <<before, rnext, candidate, state, overlapped>>
    /\ UNCHANGED wvars

ReadStep(r) ==
    \/ LoadBeforeEven(r)
    \/ LoadBeforeOdd(r)
    \/ CopyWord(r)
    \/ LoadAfterSame(r)
    \/ LoadAfterMoved(r)

Next ==
    \/ Publish
    \/ \E r \in Readers :
         \/ \E n \in 0 .. Completed(sequence) : CallRead(r, Whole(n))
         \/ ReadStep(r)

Spec == Init /\ [][Next]_vars

-----------------------------------------------------------------------------
(* Properties *)

(* No reader is ever left with words of two publications: SnapshotBuffer.cpp:52-56   *)
(* accepts a candidate only when no store happened between its first and last word.  *)
NoTornRead == \A r \in Readers : \A v, w \in Words : state[r][v] = state[r][w]

(* The buffer is an atomic register with failing reads: each publication and each    *)
(* successful read takes effect at one instant, and read() fails (SnapshotBuffer.cpp *)
(* :59) only when a publication overlapped the call.                                 *)
Atomic == INSTANCE AtomicSnapshot WITH
    latest <- Completed(sequence),
    publishing <- Odd(sequence),
    reading <- [r \in Readers |-> Inside(r)],
    value <- state

AtomicSpec == Atomic!Spec

-----------------------------------------------------------------------------
(* The inductive invariant behind the theorems (StateMonitor_proofs). *)

(* The counter is odd exactly while the writer is between its two increments. *)
CounterTellsWriter == Odd(sequence) <=> wnext # 0

(* The writer has replaced exactly the words below wnext. *)
WordsInStoreOrder ==
    \A w \in Words :
        words[w] = IF w < wnext THEN InProgress(sequence) ELSE Completed(sequence)

(* While the counter still has the value a reader saw first, what it copied is whole. *)
CopiedIsCurrent ==
    \A r \in Readers :
        rpc[r] \in {"copy", "load_after"} =>
            /\ ~Odd(before[r])
            /\ before[r] <= sequence
            /\ rpc[r] = "copy" => rnext[r] \in Words
            /\ rpc[r] = "load_after" => rnext[r] = WordCount + 1
            /\ sequence = before[r] =>
                 \A w \in Words : w < rnext[r] => candidate[r][w] = Completed(sequence)

(* Whatever can make an attempt fail was a publication during this call. *)
FailureHasCause ==
    \A r \in Readers :
        Inside(r) =>
            \/ overlapped[r]
            \/ /\ ~Odd(sequence)
               /\ attempt[r] = 0
               /\ rpc[r] \in {"copy", "load_after"} => sequence = before[r]

(* A delivered state is a completed publication. *)
DeliveredIsCompleted ==
    \A r \in Readers : \E n \in 0 .. Completed(sequence) :
        state[r] = Whole(n)

BufferInv ==
    /\ TypeOK
    /\ CounterTellsWriter
    /\ WordsInStoreOrder
    /\ CopiedIsCurrent
    /\ FailureHasCause
    /\ DeliveredIsCompleted

-----------------------------------------------------------------------------
(* Distances: how many steps of its own a reader still takes in read(), at most. *)

(* An attempt is two loads of the counter and a copy of every word. *)
StepsInAttempt(r) ==
    CASE rpc[r] = "load_before" -> WordCount + 2
      [] rpc[r] = "copy" -> WordCount + 2 - rnext[r]
      [] rpc[r] = "load_after" -> 1

StepsInRead(r) ==
    IF Inside(r) THEN (MaxReadAttempts - 1 - attempt[r]) * (WordCount + 2) + StepsInAttempt(r)
                 ELSE 0

(* read() is wait-free: every step of the reader brings its return closer, whatever  *)
(* the writer does, and no step of the writer or of another reader moves it away.    *)
ReadComesCloser ==
    [][\A r \in Readers : Inside(r) =>
          IF ReadStep(r) THEN StepsInRead(r)' < StepsInRead(r)
                         ELSE StepsInRead(r)' = StepsInRead(r)]_vars

(* A call takes no more than max_read_attempts_ attempts of WordCount + 2 steps. *)
ReadIsBounded ==
    \A r \in Readers : Inside(r) => StepsInRead(r) \in 1 .. MaxReadAttempts * (WordCount + 2)
=============================================================================
