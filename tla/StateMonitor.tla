---------------------------- MODULE StateMonitor ----------------------------
(***************************************************************************)
(* ControlLoop's monitoring side: state() and completedCycles() called by  *)
(* any number of threads while the worker publishes one snapshot per cycle *)
(* and then increments completed_cycles_.                                  *)
(*                                                                         *)
(* The readers of the SnapshotBuffer are the callers of state(), one at a  *)
(* time under state_mutex_; its writer is the worker of a single run of    *)
(* MaxPublications cycles.                                                 *)
(***************************************************************************)
EXTENDS SnapshotBuffer

CONSTANT NoReader   \* state_mutex_ is free

ASSUME NoReaderAssumption == NoReader \notin Readers

VARIABLES
    completed,    \* completed_cycles_
    stateMutex,   \* the caller that holds state_mutex_
    lastState,    \* last_state_
    mpc,          \* mpc[c]: where caller c stands in state()
    seen,         \* seen[c]: what completedCycles() told c just before its state()
    returned      \* returned[c]: what c's last state() returned

mvars == <<completed, stateMutex, lastState, mpc, seen, returned>>
allvars == <<vars, mvars>>

MonitorTypeOK ==
    /\ completed \in 0 .. MaxPublications
    /\ stateMutex \in Readers \cup {NoReader}
    /\ lastState \in [Words -> 0 .. MaxPublications]
    /\ mpc \in [Readers -> {"out", "lock", "read", "reading", "return"}]
    /\ seen \in [Readers -> 0 .. MaxPublications]
    /\ returned \in [Readers -> [Words -> 0 .. MaxPublications]]

MonitorInit ==
    /\ Init
    /\ completed = 0
    /\ stateMutex = NoReader
    /\ lastState = Whole(0)
    /\ mpc = [c \in Readers |-> "out"]
    /\ seen = [c \in Readers |-> 0]
    /\ returned = [c \in Readers |-> Whole(0)]

-----------------------------------------------------------------------------
(* The worker: update() publishes, and only then counts the cycle. *)

(* Mutant: the cycle is counted before its state is published. *)
CountBeforePublication ==
    \/ /\ wnext = 0
       /\ completed = Completed(sequence)
       /\ completed < MaxPublications
       /\ completed' = completed + 1
       /\ UNCHANGED vars
       /\ UNCHANGED <<stateMutex, lastState, mpc, seen, returned>>
    \/ /\ completed = Completed(sequence) + 1 \/ wnext # 0
       /\ Publish
       /\ UNCHANGED mvars

WorkerPublishes ==
    /\ completed = Completed(sequence)
    /\ Publish
    /\ UNCHANGED mvars

CountCycle ==
    /\ wnext = 0
    /\ completed < Completed(sequence)
    /\ completed' = completed + 1
    /\ UNCHANGED vars
    /\ UNCHANGED <<stateMutex, lastState, mpc, seen, returned>>

-----------------------------------------------------------------------------
(* A caller: completedCycles(), then state(). *)

CallState(c) ==
    /\ mpc[c] = "out"
    /\ seen' = [seen EXCEPT ![c] = completed]
    /\ mpc' = [mpc EXCEPT ![c] = "lock"]
    /\ UNCHANGED vars
    /\ UNCHANGED <<completed, stateMutex, lastState, returned>>

(* Mutant: state() does not take state_mutex_. *)
NoLockStateMutex(c) ==
    /\ mpc[c] = "lock"
    /\ stateMutex' = c
    /\ mpc' = [mpc EXCEPT ![c] = "read"]
    /\ UNCHANGED vars
    /\ UNCHANGED <<completed, lastState, seen, returned>>

LockStateMutex(c) ==
    /\ mpc[c] = "lock"
    /\ stateMutex = NoReader
    /\ stateMutex' = c
    /\ mpc' = [mpc EXCEPT ![c] = "read"]
    /\ UNCHANGED vars
    /\ UNCHANGED <<completed, lastState, seen, returned>>

(* state_snapshot_.read(state) with the local `state` holding last_state_. *)
BeginBufferRead(c) ==
    /\ mpc[c] = "read"
    /\ CallRead(c, lastState)
    /\ mpc' = [mpc EXCEPT ![c] = "reading"]
    /\ UNCHANGED <<completed, stateMutex, lastState, seen, returned>>

BufferReadStep(c) ==
    /\ mpc[c] = "reading"
    /\ ReadStep(c)
    /\ mpc' = [mpc EXCEPT ![c] = IF Inside(c)' THEN "reading" ELSE "return"]
    /\ UNCHANGED <<completed, stateMutex, lastState, seen, returned>>

(* Mutant: a failed read still leaves its candidate in last_state_. *)
ReturnCandidate(c) ==
    /\ mpc[c] = "return"
    /\ lastState' = candidate[c]
    /\ returned' = [returned EXCEPT ![c] = lastState']
    /\ stateMutex' = NoReader
    /\ mpc' = [mpc EXCEPT ![c] = "out"]
    /\ UNCHANGED vars
    /\ UNCHANGED <<completed, seen>>

ReturnState(c) ==
    /\ mpc[c] = "return"
    /\ lastState' = IF ok[c] THEN state[c] ELSE lastState
    /\ returned' = [returned EXCEPT ![c] = lastState']
    /\ stateMutex' = NoReader
    /\ mpc' = [mpc EXCEPT ![c] = "out"]
    /\ UNCHANGED vars
    /\ UNCHANGED <<completed, seen>>

InsideState(c) == LockStateMutex(c) \/ BeginBufferRead(c) \/ BufferReadStep(c) \/ ReturnState(c)

MonitorNext ==
    \/ WorkerPublishes
    \/ CountCycle
    \/ \E c \in Readers : CallState(c) \/ InsideState(c)

MonitorSpec == MonitorInit /\ [][MonitorNext]_allvars

(* The callers keep running once inside; nothing is assumed of the worker. *)
MonitorFairSpec ==
    /\ MonitorSpec
    /\ \A c \in Readers : WF_allvars(BeginBufferRead(c) \/ BufferReadStep(c) \/ ReturnState(c))

-----------------------------------------------------------------------------
(* Properties *)

(* What state() hands out is one published state, also when it falls back on         *)
(* last_state_ (README.md:558).                                                      *)
ReturnsOnePublication ==
    \A c \in Readers : \E n \in 0 .. Completed(sequence) : returned[c] = Whole(n)

(* last_state_, and with it everything state() returns, never goes back to an older  *)
(* publication, in whatever order the callers get state_mutex_.                      *)
MonitorNeverGoesBack ==
    [][\A w \in Words : lastState[w] <= lastState'[w]]_allvars

(* A caller that first asked completedCycles() gets a state at least that new, unless *)
(* a publication overlapped its read; and once the last cycle is counted nothing can  *)
(* overlap any more, so that main(), which polls the counter and never calls wait(),  *)
(* prints the final state (main.cpp:60-70).                                          *)
FreshAfterCompletedCycles ==
    \A c \in Readers : mpc[c] = "out" =>
        /\ ~overlapped[c] => \A w \in Words : seen[c] <= returned[c][w]
        /\ seen[c] = MaxPublications => returned[c] = Whole(MaxPublications)

(* The buffer's readers are used as the buffer expects: what SnapshotBuffer promises *)
(* holds of it inside ControlLoop.                                                   *)
UsesBuffer == Spec

(* state_mutex_ is always given back, even if the worker stops in mid-publication.   *)
StateMutexIsReleased == stateMutex # NoReader ~> stateMutex = NoReader

-----------------------------------------------------------------------------
(* The inductive invariant (StateMonitor_proofs), on top of BufferInv. *)

(* state_mutex_ is held from the copy of last_state_ to the return, and only its    *)
(* holder reads the buffer.                                                         *)
MutexSerialises ==
    \A c \in Readers :
        /\ mpc[c] \in {"read", "reading", "return"} <=> stateMutex = c
        /\ Inside(c) <=> mpc[c] = "reading"

(* completed_cycles_ lags behind the buffer by at most the cycle being finished. *)
CounterFollows ==
    /\ completed <= Completed(sequence)
    /\ Completed(sequence) <= completed + 1
    /\ wnext # 0 => completed = Completed(sequence)

LastIsPublished == \E n \in 0 .. Completed(sequence) : lastState = Whole(n)

(* A read that succeeded is at least as new as what the caller knew, and as last_state_; *)
(* one that failed was overlapped, which is impossible after the last cycle.             *)
ReadIsFresh ==
    \A c \in Readers :
        /\ seen[c] <= completed
        /\ mpc[c] = "return" /\ ok[c] =>
             \A w \in Words : lastState[w] <= state[c][w] /\ seen[c] <= state[c][w]
        /\ mpc[c] = "return" /\ ~ok[c] => overlapped[c]
        /\ mpc[c] \in {"reading", "return"} /\ seen[c] = MaxPublications => ~overlapped[c]

MonitorInv ==
    /\ MonitorTypeOK
    /\ MutexSerialises
    /\ CounterFollows
    /\ LastIsPublished
    /\ ReadIsFresh
    /\ ReturnsOnePublication
    /\ FreshAfterCompletedCycles

-----------------------------------------------------------------------------
(* The distance of the holder of state_mutex_ from its release, in its own steps. *)

StepsToRelease(c) ==
    CASE mpc[c] = "read" -> MaxReadAttempts * (WordCount + 2) + 2
      [] mpc[c] = "reading" -> StepsInRead(c) + 1
      [] mpc[c] = "return" -> 1

(* However the worker publishes and the other callers queue up, every step of the    *)
(* caller that holds state_mutex_ brings its release closer, and the steps of others *)
(* neither release it nor delay it.                                                  *)
ReleaseComesCloser ==
    [][\A c \in Readers : stateMutex = c =>
          \/ ReturnState(c) /\ stateMutex' = NoReader
          \/ /\ stateMutex' = c
             /\ IF InsideState(c) THEN StepsToRelease(c)' < StepsToRelease(c)
                                  ELSE StepsToRelease(c)' = StepsToRelease(c)]_allvars

(* A caller holds it for all the attempts of one read() and two steps around them. *)
ReleaseIsBounded ==
    \A c \in Readers : stateMutex = c =>
        StepsToRelease(c) \in 1 .. MaxReadAttempts * (WordCount + 2) + 2
=============================================================================
