----------------------------- MODULE CanBuffers -----------------------------
(***************************************************************************)
(* CanStateBuffer (WordCount = 2: position and velocity of joint 1) and    *)
(* CanCommandBuffer (WordCount = 1: its target): a sequence counter around *)
(* relaxed stores, with one writer and one reader.  The two classes have   *)
(* the same code but for the number of words.                              *)
(*                                                                         *)
(* Their accesses are relaxed, acquire and release, so interleaving atomic *)
(* accesses does not give the C++ semantics.  Memory is modelled by views: *)
(* a location keeps its whole modification order (its n-th value is the    *)
(* index n), a load may return any value not older than the reader's view  *)
(* of that location, and only an acquire load of a value with a released   *)
(* view brings the reader's view of the other locations up to date.        *)
(*                                                                         *)
(* A word's n-th value is the one publication n stored; the counter's n-th *)
(* value is n.                                                             *)
(***************************************************************************)
EXTENDS Naturals

CONSTANTS
    WordCount,        \* words of one publication
    MaxReadAttempts,  \* max_attempts
    MaxPublications   \* bound on the publications of a behaviour

ASSUME WordCountAssumption == WordCount \in Nat \ {0}
ASSUME MaxReadAttemptsAssumption == MaxReadAttempts \in Nat \ {0}
ASSUME MaxPublicationsAssumption == MaxPublications \in Nat

Words == 1 .. WordCount

VARIABLES
    sequence,   \* the newest value of sequence_
    stored,     \* stored[w]: the newest value of word w
    released,   \* released[s]: the publication whose words a load-acquire of s makes visible
    wnext,      \* the word publish() stores next; 0 when the writer is outside
    seqView,    \* the oldest value of sequence_ the reader may still load
    wordView,   \* wordView[w]: the oldest value of word w the reader may still load
    rpc,        \* where the reader stands in read()
    attempt,    \* its failed attempts
    before,     \* its local `before`
    rnext,      \* the word it loads next
    candidate,  \* its local position and velocity (target)
    state,      \* the caller's variable
    ok          \* what the last call returned

wvars == <<sequence, stored, released, wnext>>
views == <<seqView, wordView>>
rvars == <<rpc, attempt, before, rnext, candidate, state, ok>>
vars == <<wvars, views, rvars>>

Odd(n) == n % 2 = 1
Completed(n) == n \div 2
InProgress(n) == (n + 1) \div 2
MaxOf(a, b) == IF a < b THEN b ELSE a

TypeOK ==
    /\ sequence \in 0 .. 2 * MaxPublications
    /\ stored \in [Words -> 0 .. MaxPublications]
    /\ released \in [0 .. 2 * MaxPublications -> 0 .. MaxPublications]
    /\ wnext \in 0 .. WordCount + 1
    /\ seqView \in 0 .. 2 * MaxPublications
    /\ wordView \in [Words -> 0 .. MaxPublications]
    /\ rpc \in {"outside", "load_before", "load_word", "load_after"}
    /\ attempt \in 0 .. MaxReadAttempts - 1
    /\ before \in 0 .. 2 * MaxPublications
    /\ rnext \in 1 .. WordCount + 1
    /\ candidate \in [Words -> 0 .. MaxPublications]
    /\ state \in [Words -> 0 .. MaxPublications]
    /\ ok \in BOOLEAN

Init ==
    /\ sequence = 0
    /\ stored = [w \in Words |-> 0]
    /\ released = [s \in 0 .. 2 * MaxPublications |-> 0]
    /\ wnext = 0
    /\ seqView = 0
    /\ wordView = [w \in Words |-> 0]
    /\ rpc = "outside"
    /\ attempt = 0
    /\ before = 0
    /\ rnext = 1
    /\ candidate = [w \in Words |-> 0]
    /\ state = [w \in Words |-> 0]
    /\ ok = FALSE

-----------------------------------------------------------------------------
(* publish() *)

(* A relaxed read-modify-write continues the release sequence of the value  *)
(* it replaces, so it passes that value's view on.                          *)
BeginPublication ==
    /\ wnext = 0
    /\ sequence < 2 * MaxPublications
    /\ sequence' = sequence + 1
    /\ released' = [released EXCEPT ![sequence + 1] = released[sequence]]
    /\ wnext' = 1
    /\ UNCHANGED <<stored, views, rvars>>

StoreWord ==
    /\ wnext \in Words
    /\ stored' = [stored EXCEPT ![wnext] = InProgress(sequence)]
    /\ wnext' = wnext + 1
    /\ UNCHANGED <<sequence, released, views, rvars>>

(* Mutant: the last increment is relaxed like the first. *)
EndPublicationRelaxed ==
    /\ wnext = WordCount + 1
    /\ sequence' = sequence + 1
    /\ released' = [released EXCEPT ![sequence + 1] = released[sequence]]
    /\ wnext' = 0
    /\ UNCHANGED <<stored, views, rvars>>

(* The release increment: it carries the words stored before it. *)
EndPublication ==
    /\ wnext = WordCount + 1
    /\ sequence' = sequence + 1
    /\ released' = [released EXCEPT ![sequence + 1] = InProgress(sequence)]
    /\ wnext' = 0
    /\ UNCHANGED <<stored, views, rvars>>

Publish == BeginPublication \/ StoreWord \/ EndPublication

-----------------------------------------------------------------------------
(* read() *)

CallRead ==
    /\ rpc = "outside"
    /\ rpc' = "load_before"
    /\ attempt' = 0
    /\ UNCHANGED <<wvars, views, before, rnext, candidate, state, ok>>

(* The value s of sequence_ is loaded with acquire. *)
LoadSequence(s) ==
    /\ s \in seqView .. sequence
    /\ seqView' = s
    /\ wordView' = [w \in Words |-> MaxOf(wordView[w], released[s])]

NextAttempt ==
    IF attempt + 1 < MaxReadAttempts
    THEN attempt' = attempt + 1 /\ rpc' = "load_before" /\ UNCHANGED ok
    ELSE rpc' = "outside" /\ ok' = FALSE /\ UNCHANGED attempt

LoadBefore(s) ==
    /\ rpc = "load_before"
    /\ LoadSequence(s)
    /\ before' = s
    /\ \/ /\ Odd(s)
          /\ NextAttempt
          /\ UNCHANGED rnext
       \/ /\ ~Odd(s)
          /\ rpc' = "load_word"
          /\ rnext' = 1
          /\ UNCHANGED <<attempt, ok>>
    /\ UNCHANGED <<wvars, candidate, state>>

(* A relaxed load: coherence is all that limits it. *)
LoadWord(v) ==
    /\ rpc = "load_word"
    /\ v \in wordView[rnext] .. stored[rnext]
    /\ wordView' = [wordView EXCEPT ![rnext] = v]
    /\ candidate' = [candidate EXCEPT ![rnext] = v]
    /\ rnext' = rnext + 1
    /\ rpc' = IF rnext = WordCount THEN "load_after" ELSE "load_word"
    /\ UNCHANGED <<wvars, seqView, attempt, before, state, ok>>

LoadAfter(s) ==
    /\ rpc = "load_after"
    /\ LoadSequence(s)
    /\ \/ /\ s # before
          /\ NextAttempt
          /\ UNCHANGED state
       \/ /\ s = before
          /\ state' = candidate
          /\ ok' = TRUE
          /\ rpc' = "outside"
          /\ UNCHANGED attempt
    /\ UNCHANGED <<wvars, before, rnext, candidate>>

Read ==
    \/ CallRead
    \/ \E s \in 0 .. 2 * MaxPublications : LoadBefore(s) \/ LoadAfter(s)
    \/ \E v \in 0 .. MaxPublications : LoadWord(v)

Next == Publish \/ Read

Spec == Init /\ [][Next]_vars

-----------------------------------------------------------------------------
(* Properties *)

(* What a successful read() delivers is at least as new as the publication whose     *)
(* sequence number it validated, in every word: the release increment                *)
(* (CanCommandBuffer.cpp:14) and the acquire load carry the words across.            *)
DeliversValidated ==
    ok /\ rpc = "outside" => \A w \in Words : Completed(before) <= state[w]

(* CanStateBuffer.cpp:17 "Publish the completed state.": position and velocity come  *)
(* from the same publication.  Nothing in publish() keeps its relaxed stores from    *)
(* being seen before its first increment, and nothing in read() keeps its relaxed    *)
(* loads from returning them while `after` still loads the old value.                *)
NoTornRead == \A v, w \in Words : state[v] = state[w]

(* Nor does a reader ever get an older word than it got before, although no fence    *)
(* orders its relaxed loads: the target of joint 1 is one word.                      *)
NeverGoesBack == [][\A w \in Words : state[w] <= state'[w]]_vars

-----------------------------------------------------------------------------
(* The inductive invariant behind the theorems (CanBuffers_proofs). *)

(* The counter is odd exactly while the writer is between its two increments, and it *)
(* has replaced exactly the words below wnext.                                       *)
WriterInv ==
    /\ Odd(sequence) <=> wnext # 0
    /\ \A w \in Words :
         stored[w] = IF w < wnext THEN InProgress(sequence) ELSE Completed(sequence)

(* Each value of the counter carries the publication that was complete with it: the  *)
(* odd ones through the release sequence.                                            *)
ReleasesAreComplete == \A s \in 0 .. sequence : released[s] = Completed(s)

(* The reader has seen nothing that does not exist. *)
ViewsExist == seqView <= sequence /\ \A w \in Words : wordView[w] <= stored[w]

(* Once `before` is loaded, every word in view is as new as what it validates.       *)
AttemptInv ==
    rpc \in {"load_word", "load_after"} =>
        /\ rpc = "load_word" => rnext \in Words
        /\ rpc = "load_after" => rnext = WordCount + 1
        /\ \A w \in Words :
             /\ Completed(before) <= wordView[w]
             /\ w < rnext => Completed(before) <= candidate[w] /\ candidate[w] = wordView[w]

(* What was delivered has been seen. *)
DeliveredIsSeen == \A w \in Words : state[w] <= wordView[w]

BuffersInv ==
    /\ TypeOK
    /\ WriterInv
    /\ ReleasesAreComplete
    /\ ViewsExist
    /\ AttemptInv
    /\ DeliveredIsSeen
    /\ DeliversValidated

-----------------------------------------------------------------------------
(* How many steps of its own the reader still takes in read(), at most. *)

StepsInAttempt ==
    CASE rpc = "load_before" -> WordCount + 2
      [] rpc = "load_word" -> WordCount + 2 - rnext
      [] rpc = "load_after" -> 1

StepsInRead ==
    IF rpc = "outside" THEN 0
                       ELSE (MaxReadAttempts - 1 - attempt) * (WordCount + 2) + StepsInAttempt

(* read() is wait-free whatever values the memory model lets its loads return: every *)
(* load brings its return closer and the writer does not move it away, so that the   *)
(* control loop and the communication thread never hold each other up.               *)
ReadComesCloser ==
    [][rpc # "outside" =>
          IF Read THEN StepsInRead' < StepsInRead ELSE StepsInRead' = StepsInRead]_vars

(* A call takes no more than max_attempts attempts of WordCount + 2 loads. *)
ReadIsBounded ==
    rpc # "outside" => StepsInRead \in 1 .. MaxReadAttempts * (WordCount + 2)
=============================================================================
