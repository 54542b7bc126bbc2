---------------------------- MODULE ControlLoop ----------------------------
(***************************************************************************)
(* The lifecycle of ControlLoop (control/ControlLoop.cpp): client threads  *)
(* call run(), wait(), requestStop() and finally the destructor; run()     *)
(* starts a worker thread that executes update() once per cycle.           *)
(*                                                                         *)
(* run() and wait() hold lifecycle_mutex_ (wait() even while it joins);    *)
(* requestStop() and the worker never take it.  One update() is one step   *)
(* here: what happens inside a cycle is the business of StateMonitor,      *)
(* ControlTiming and Robot.  The worker's shared variables are seq_cst     *)
(* atomics, so that one step per access is the C++ semantics.              *)
(***************************************************************************)
EXTENDS Integers

CONSTANTS
    Clients,                \* threads that call the public functions
    CycleCounts,            \* the arguments run() is called with
    MaxRunCalls,            \* bound on the run() calls of a behaviour
    ThreadCreationMayFail,  \* the std::jthread constructor may throw std::system_error
    DestroyWhenBusy,        \* the destructor may be called while the worker is in update()
    NoClient                \* lifecycle_mutex_ is free

ASSUME CycleCountsAssumption == CycleCounts \subseteq Int
ASSUME MaxRunCallsAssumption == MaxRunCalls \in Nat
ASSUME FlagsAssumption == ThreadCreationMayFail \in BOOLEAN /\ DestroyWhenBusy \in BOOLEAN
ASSUME NoClientAssumption == NoClient \notin Clients

VARIABLES
    mutex,           \* the client holding lifecycle_mutex_
    lifecycle,       \* lifecycle_state_
    stopRequested,   \* stop_requested_
    stopToken,       \* a stop was requested on the jthread's stop source
    joinable,        \* thread_.joinable()
    worker,          \* where the worker thread stands; "none" without one
    i,               \* the worker's cycle index
    count,           \* the captured cycle_count
    completed,       \* completed_cycles_
    pc,              \* pc[c]: where client c stands
    arg,             \* arg[c]: the argument of c's run()
    lifetime,        \* "alive", "members", "thread" or "gone": progress of the destructor
    runCalls,        \* bound: run() calls made
    requested,       \* history: the cycles of all accepted runs
    lateCycles       \* history: cycles completed since the stop request of this run

vars == <<mutex, lifecycle, stopRequested, stopToken, joinable, worker, i, count,
          completed, pc, arg, lifetime, runCalls, requested, lateCycles>>

LifecycleStates == {"Idle", "Running", "Finished"}

(* The worker thread exists and has not returned from its function. *)
Active == {"starting", "check", "update", "finish"}

ClientPoints == {"out", "run_lock", "run_check", "run_construct", "run_assign",
                 "wait_lock", "wait_check", "wait_join", "wait_idle"}

TypeOK ==
    /\ mutex \in Clients \cup {NoClient}
    /\ lifecycle \in LifecycleStates
    /\ stopRequested \in BOOLEAN
    /\ stopToken \in BOOLEAN
    /\ joinable \in BOOLEAN
    /\ worker \in Active \cup {"none", "exited"}
    /\ i \in Nat
    /\ count \in CycleCounts \cup {0}
    /\ completed \in Nat
    /\ pc \in [Clients -> ClientPoints]
    /\ arg \in [Clients -> CycleCounts \cup {0}]
    /\ lifetime \in {"alive", "members", "thread", "gone"}
    /\ runCalls \in 0 .. MaxRunCalls
    /\ requested \in Nat
    /\ lateCycles \in Nat

Init ==
    /\ mutex = NoClient
    /\ lifecycle = "Idle"
    /\ stopRequested = FALSE
    /\ stopToken = FALSE
    /\ joinable = FALSE
    /\ worker = "none"
    /\ i = 0
    /\ count = 0
    /\ completed = 0
    /\ pc = [c \in Clients |-> "out"]
    /\ arg = [c \in Clients |-> 0]
    /\ lifetime = "alive"
    /\ runCalls = 0
    /\ requested = 0
    /\ lateCycles = 0

-----------------------------------------------------------------------------
(* lifecycle_mutex_, and the parts of the state a client's step may leave alone. *)

threadVars == <<stopToken, joinable, worker, i, count, completed, lateCycles>>
historyVars == <<runCalls, requested>>

Goto(c, point) == pc' = [pc EXCEPT ![c] = point]

Acquire(c) == mutex = NoClient /\ mutex' = c

(* The lock_guard of run() or wait() releases the mutex and the call returns. *)
ReturnAndRelease(c) == mutex' = NoClient /\ Goto(c, "out")

(* Mutant: run() lets a new worker replace a finished one that nobody joined. *)
MayRunUnlessRunning(n) == lifecycle # "Running" /\ n > 0

(* The condition under which run() starts a worker. *)
MayRun(n) == lifecycle = "Idle" /\ n > 0

-----------------------------------------------------------------------------
(* run() *)

CallRun(c) ==
    /\ lifetime = "alive"
    /\ pc[c] = "out"
    /\ runCalls < MaxRunCalls
    /\ runCalls' = runCalls + 1
    /\ Goto(c, "run_lock")
    /\ \E n \in CycleCounts : arg' = [arg EXCEPT ![c] = n]
    /\ UNCHANGED <<mutex, lifecycle, stopRequested, lifetime, requested>>
    /\ UNCHANGED threadVars

RunLock(c) ==
    /\ pc[c] = "run_lock"
    /\ Acquire(c)
    /\ Goto(c, "run_check")
    /\ UNCHANGED <<lifecycle, stopRequested, arg, lifetime>>
    /\ UNCHANGED threadVars
    /\ UNCHANGED historyVars

(* Mutant: run() clears the stop flag before it looks at the lifecycle. *)
RunRejectedAfterClear(c) ==
    /\ pc[c] = "run_check"
    /\ ~MayRun(arg[c])
    /\ stopRequested' = FALSE
    /\ ReturnAndRelease(c)
    /\ UNCHANGED <<lifecycle, arg, lifetime>>
    /\ UNCHANGED threadVars
    /\ UNCHANGED historyVars

RunRejected(c) ==
    /\ pc[c] = "run_check"
    /\ ~MayRun(arg[c])
    /\ ReturnAndRelease(c)
    /\ UNCHANGED <<lifecycle, stopRequested, arg, lifetime>>
    /\ UNCHANGED threadVars
    /\ UNCHANGED historyVars

RunAccepted(c) ==
    /\ pc[c] = "run_check"
    /\ MayRun(arg[c])
    /\ stopRequested' = FALSE
    /\ lifecycle' = "Running"
    /\ Goto(c, "run_construct")
    /\ requested' = requested + arg[c]
    /\ UNCHANGED <<mutex, arg, lifetime, runCalls>>
    /\ UNCHANGED threadVars

(* The jthread constructor starts the worker before thread_ owns it. *)
ConstructThread(c) ==
    /\ pc[c] = "run_construct"
    /\ worker' = "starting"
    /\ i' = 0
    /\ count' = arg[c]
    /\ lateCycles' = 0
    /\ Goto(c, "run_assign")
    /\ UNCHANGED <<mutex, lifecycle, stopRequested, stopToken, joinable, completed, arg,
                   lifetime>>
    /\ UNCHANGED historyVars

(* Mutant: the mutex is unlocked by hand, and the exception skips that. *)
ConstructThrowsLocked(c) ==
    /\ ThreadCreationMayFail
    /\ pc[c] = "run_construct"
    /\ Goto(c, "out")
    /\ UNCHANGED <<mutex, lifecycle, stopRequested, arg, lifetime>>
    /\ UNCHANGED threadVars
    /\ UNCHANGED historyVars

(* The constructor throws; the lock_guard releases and run() rethrows. *)
ConstructThrows(c) ==
    /\ ThreadCreationMayFail
    /\ pc[c] = "run_construct"
    /\ ReturnAndRelease(c)
    /\ UNCHANGED <<lifecycle, stopRequested, arg, lifetime>>
    /\ UNCHANGED threadVars
    /\ UNCHANGED historyVars

(* Move-assignment to thread_, which owns no thread at this point (IdleOwnsNothing). *)
AssignThread(c) ==
    /\ pc[c] = "run_assign"
    /\ joinable' = TRUE
    /\ ReturnAndRelease(c)
    /\ UNCHANGED <<lifecycle, stopRequested, stopToken, worker, i, count, completed,
                   lateCycles, arg, lifetime>>
    /\ UNCHANGED historyVars

-----------------------------------------------------------------------------
(* requestStop(): one lock-free store, at any time. *)

RequestStop(c) ==
    /\ lifetime = "alive"
    /\ pc[c] = "out"
    /\ stopRequested' = TRUE
    /\ UNCHANGED <<mutex, lifecycle, pc, arg, lifetime>>
    /\ UNCHANGED threadVars
    /\ UNCHANGED historyVars

-----------------------------------------------------------------------------
(* wait() *)

CallWait(c) ==
    /\ lifetime = "alive"
    /\ pc[c] = "out"
    /\ Goto(c, "wait_lock")
    /\ UNCHANGED <<mutex, lifecycle, stopRequested, arg, lifetime>>
    /\ UNCHANGED threadVars
    /\ UNCHANGED historyVars

WaitLock(c) ==
    /\ pc[c] = "wait_lock"
    /\ Acquire(c)
    /\ Goto(c, "wait_check")
    /\ UNCHANGED <<lifecycle, stopRequested, arg, lifetime>>
    /\ UNCHANGED threadVars
    /\ UNCHANGED historyVars

WaitCheck(c) ==
    /\ pc[c] = "wait_check"
    /\ Goto(c, IF joinable THEN "wait_join" ELSE "wait_idle")
    /\ UNCHANGED <<mutex, lifecycle, stopRequested, arg, lifetime>>
    /\ UNCHANGED threadVars
    /\ UNCHANGED historyVars

(* Mutant: wait() detaches the worker instead of joining it. *)
WaitDetach(c) ==
    /\ pc[c] = "wait_join"
    /\ joinable' = FALSE
    /\ Goto(c, "wait_idle")
    /\ UNCHANGED <<mutex, lifecycle, stopRequested, stopToken, worker, i, count, completed,
                   lateCycles, arg, lifetime>>
    /\ UNCHANGED historyVars

(* join() returns when the worker's function has; lifecycle_mutex_ stays held. *)
WaitJoin(c) ==
    /\ pc[c] = "wait_join"
    /\ worker = "exited"
    /\ worker' = "none"
    /\ joinable' = FALSE
    /\ Goto(c, "wait_idle")
    /\ UNCHANGED <<mutex, lifecycle, stopRequested, stopToken, i, count, completed,
                   lateCycles, arg, lifetime>>
    /\ UNCHANGED historyVars

WaitIdle(c) ==
    /\ pc[c] = "wait_idle"
    /\ lifecycle' = "Idle"
    /\ ReturnAndRelease(c)
    /\ UNCHANGED <<stopRequested, arg, lifetime>>
    /\ UNCHANGED threadVars
    /\ UNCHANGED historyVars

-----------------------------------------------------------------------------
(* The destructor.  Its caller makes sure that no other call is in progress *)
(* (any C++ object demands that), and has either joined the worker or, like *)
(* main(), polled completedCycles() up to the cycles it asked for; only     *)
(* DestroyWhenBusy lifts that.  Members declared after thread_ go first.    *)

DestroyMembers ==
    /\ lifetime = "alive"
    /\ \A c \in Clients : pc[c] = "out"
    /\ DestroyWhenBusy \/ ~joinable \/ completed >= requested
    /\ lifetime' = "members"
    /\ UNCHANGED <<mutex, lifecycle, stopRequested, pc, arg>>
    /\ UNCHANGED threadVars
    /\ UNCHANGED historyVars

(* ~jthread requests a stop on its own stop source if it owns a thread ... *)
DestroyThread ==
    /\ lifetime = "members"
    /\ stopToken' = joinable
    /\ lifetime' = IF joinable THEN "thread" ELSE "gone"
    /\ UNCHANGED <<mutex, lifecycle, stopRequested, joinable, worker, i, count, completed,
                   lateCycles, pc, arg>>
    /\ UNCHANGED historyVars

(* ... and joins. *)
DestroyJoin ==
    /\ lifetime = "thread"
    /\ worker = "exited"
    /\ worker' = "none"
    /\ joinable' = FALSE
    /\ lifetime' = "gone"
    /\ UNCHANGED <<mutex, lifecycle, stopRequested, stopToken, i, count, completed,
                   lateCycles, pc, arg>>
    /\ UNCHANGED historyVars

Destroy == DestroyMembers \/ DestroyThread \/ DestroyJoin

-----------------------------------------------------------------------------
(* The worker thread *)

clientVars == <<mutex, stopRequested, stopToken, joinable, count, pc, arg, lifetime, runCalls,
                requested>>

StopSeen == stopToken \/ stopRequested

OnControlThreadStart ==
    /\ worker = "starting"
    /\ worker' = "check"
    /\ UNCHANGED <<lifecycle, i, completed, lateCycles>>
    /\ UNCHANGED clientVars

(* Mutant: only the jthread's own stop token is looked at. *)
CheckTokenOnly ==
    /\ worker = "check"
    /\ worker' = IF i < count /\ ~stopToken THEN "update" ELSE "finish"
    /\ UNCHANGED <<lifecycle, i, completed, lateCycles>>
    /\ UNCHANGED clientVars

(* Mutant: the loop runs one cycle too many. *)
CheckOneMore ==
    /\ worker = "check"
    /\ worker' = IF i <= count /\ ~StopSeen THEN "update" ELSE "finish"
    /\ UNCHANGED <<lifecycle, i, completed, lateCycles>>
    /\ UNCHANGED clientVars

Check ==
    /\ worker = "check"
    /\ worker' = IF i < count /\ ~StopSeen THEN "update" ELSE "finish"
    /\ UNCHANGED <<lifecycle, i, completed, lateCycles>>
    /\ UNCHANGED clientVars

Update ==
    /\ worker = "update"
    /\ worker' = "check"
    /\ i' = i + 1
    /\ completed' = completed + 1
    /\ lateCycles' = IF StopSeen THEN lateCycles + 1 ELSE lateCycles
    /\ UNCHANGED lifecycle
    /\ UNCHANGED clientVars

(* Mutant: the worker takes lifecycle_mutex_ to report its completion. *)
FinishLocked ==
    /\ worker = "finish"
    /\ mutex = NoClient
    /\ lifecycle' = "Finished"
    /\ worker' = "exited"
    /\ UNCHANGED <<i, completed, lateCycles>>
    /\ UNCHANGED clientVars

Finish ==
    /\ worker = "finish"
    /\ lifecycle' = "Finished"
    /\ worker' = "exited"
    /\ UNCHANGED <<i, completed, lateCycles>>
    /\ UNCHANGED clientVars

Worker == OnControlThreadStart \/ Check \/ Update \/ Finish

-----------------------------------------------------------------------------
Run(c) ==
    \/ CallRun(c) \/ RunLock(c) \/ RunRejected(c) \/ RunAccepted(c)
    \/ ConstructThread(c) \/ ConstructThrows(c) \/ AssignThread(c)

Wait(c) == CallWait(c) \/ WaitLock(c) \/ WaitCheck(c) \/ WaitJoin(c) \/ WaitIdle(c)

(* The object is gone and nothing is left to do. *)
Terminated == lifetime = "gone" /\ UNCHANGED vars

Next ==
    \/ \E c \in Clients : Run(c) \/ Wait(c) \/ RequestStop(c)
    \/ Worker
    \/ Destroy
    \/ Terminated

Spec == Init /\ [][Next]_vars

(* A client inside a critical section, and the worker keep running.          *)
(* std::mutex promises nothing about who gets it next, and clients need not  *)
(* call anything.                                                            *)
Progress(c) ==
    \/ RunRejected(c) \/ RunAccepted(c) \/ ConstructThread(c) \/ ConstructThrows(c)
    \/ AssignThread(c) \/ WaitCheck(c) \/ WaitJoin(c) \/ WaitIdle(c)

FairSpec ==
    /\ Spec
    /\ \A c \in Clients : WF_vars(Progress(c))
    /\ WF_vars(Worker)

-----------------------------------------------------------------------------
(* Properties *)

InCriticalSection == ClientPoints \ {"out", "run_lock", "wait_lock"}

(* run() and wait() never work on thread_ together (ControlLoop.hpp:50).             *)
MutexProtects ==
    \A c \in Clients : pc[c] \in InCriticalSection <=> mutex = c

(* lifecycle_state_ tells the truth about the worker: a worker in its function means *)
(* Running, one that returned means Finished, and Idle means thread_ owns nothing.   *)
LifecycleTellsWorker ==
    /\ worker \in Active => lifecycle = "Running"
    /\ worker = "exited" => lifecycle = "Finished"
    /\ lifecycle = "Idle" => worker = "none"
    /\ worker = "none" => ~joinable

(* A client that is about to construct or assign a thread, or to store Idle, does so *)
(* with thread_ owning nothing: no move-assignment ever stops and joins a worker.    *)
IdleOwnsNothing ==
    /\ lifecycle = "Idle" => ~joinable
    /\ \A c \in Clients :
         /\ pc[c] = "run_construct" => lifecycle = "Running" /\ worker = "none"
         /\ pc[c] = "run_assign" => ~joinable /\ worker # "none" /\ lifecycle # "Idle"
         /\ pc[c] = "wait_join" => joinable
         /\ pc[c] = "wait_idle" => worker = "none"

(* A worker is owned by thread_, or run() is about to hand it over; Running without  *)
(* a worker is either a run() about to construct it, or one that failed to.          *)
WorkerIsOwned ==
    /\ worker # "none" => joinable \/ \E c \in Clients : pc[c] = "run_assign"
    /\ lifecycle = "Running" /\ worker = "none" =>
         ThreadCreationMayFail \/ \E c \in Clients : pc[c] = "run_construct"

(* A worker that leaves its loop has done all its cycles or been told to stop.       *)
ExitIsJustified ==
    worker \in {"finish", "exited"} => i = count \/ StopSeen

(* README.md:520: a stop request is honoured between cycles, so that at most the     *)
(* cycle in progress still completes, whatever run() calls arrive meanwhile.         *)
AtMostOneCycleAfterStop == lateCycles <= 1

(* A stop request made while a worker exists is not lost before that worker is       *)
(* joined: only the run() that starts a new worker clears the flag.                  *)
StopIsNotLost ==
    [][worker # "none" /\ stopRequested /\ worker' # "none" => stopRequested']_vars

(* The lifecycle goes Idle, Running, Finished, Idle.  The one shortcut is wait()     *)
(* after a run() whose thread could not be created.                                  *)
LifecycleOrder ==
    [][lifecycle' # lifecycle =>
         \/ lifecycle = "Idle" /\ lifecycle' = "Running"
         \/ lifecycle = "Running" /\ lifecycle' = "Finished"
         \/ lifecycle = "Finished" /\ lifecycle' = "Idle"
         \/ ThreadCreationMayFail /\ lifecycle = "Running" /\ lifecycle' = "Idle"]_vars

(* A destructor that runs after the worker was joined, or after completedCycles()    *)
(* reached the cycles asked for (main.cpp:60), never takes the members declared      *)
(* after thread_ away from an update().                                              *)
NoUseAfterLifetime == worker = "update" => lifetime = "alive"

(* Every worker returns, whatever the clients do. *)
WorkerExits == worker \in Active ~> worker \in {"exited", "none"}

(* Whoever holds lifecycle_mutex_ gives it back, a wait() that joins included: the   *)
(* worker it waits for never needs the mutex.                                        *)
MutexIsReleased == mutex # NoClient ~> mutex = NoClient

-----------------------------------------------------------------------------
(* The inductive invariant (Main_proofs). *)

(* The cycles of the current run, those owed to the clients, and the late ones. *)
Counting ==
    /\ worker \in Active \cup {"exited"} => i <= count /\ 0 < count
    /\ worker = "starting" => i = 0
    /\ worker = "update" => i < count
    /\ completed <= requested
    /\ worker # "none" => completed + (count - i) <= requested
    /\ \A c \in Clients :
         pc[c] = "run_construct" => completed + arg[c] <= requested /\ 0 < arg[c]
    /\ lateCycles <= 1
    /\ lateCycles > 0 /\ worker # "none" =>
         StopSeen /\ worker \in {"check", "finish", "exited"}

(* Once the destructor runs, nobody else is inside, and unless DestroyWhenBusy *)
(* the worker has no cycle left to do.                                         *)
Destruction ==
    /\ lifetime \in {"alive", "members"} => ~stopToken
    /\ lifetime # "alive" =>
         /\ \A c \in Clients : pc[c] = "out"
         /\ ~DestroyWhenBusy =>
              /\ worker \in {"check", "finish", "exited", "none"}
              /\ worker = "check" => i = count

LifecycleInv ==
    /\ TypeOK
    /\ MutexProtects
    /\ LifecycleTellsWorker
    /\ IdleOwnsNothing
    /\ WorkerIsOwned
    /\ ExitIsJustified
    /\ Counting
    /\ Destruction

-----------------------------------------------------------------------------
(* Distances: how many steps the worker is from its end, and the holder of *)
(* lifecycle_mutex_ from its release.                                      *)

StepsToExit ==
    CASE worker = "starting" -> 2 * (count - i) + 3
      [] worker = "check" -> 2 * (count - i) + 2
      [] worker = "update" -> 2 * (count - i) + 1
      [] worker = "finish" -> 1
      [] OTHER -> 0

(* For a worker that has been told to stop: the cycle in progress, a check, the end. *)
StepsAfterStop == [starting |-> 3, update |-> 3, check |-> 2, finish |-> 1,
                   exited |-> 0, none |-> 0]

(* A worker comes closer to its end with each of its steps, within three once it has *)
(* been told to stop, and nothing that clients do while it is in its function sets   *)
(* it back, ends it or takes the stop away.                                          *)
WorkerComesCloser ==
    [][(worker \in Active) =>
          /\ StopSeen => StopSeen'
          /\ Worker => StepsToExit' < StepsToExit
          /\ Worker /\ StopSeen => StepsAfterStop[worker'] < StepsAfterStop[worker]
          /\ Worker \/ UNCHANGED <<StepsToExit, worker>>]_vars

(* A check and an update for each cycle it was started for, one check more, and the  *)
(* first and last statements.                                                        *)
WorkerIsNear == worker \in Active => StepsToExit \in 1 .. 2 * count + 3

StepsToRelease == [run_check |-> 3, run_construct |-> 2, run_assign |-> 1,
                   wait_check |-> 3, wait_join |-> 2, wait_idle |-> 1]

(* Whoever holds lifecycle_mutex_ releases it within three steps of its own, which   *)
(* no other thread undoes ...                                                        *)
ReleaseComesCloser ==
    [][\A c \in Clients : mutex = c =>
          IF Progress(c)
          THEN \/ mutex' = NoClient
               \/ mutex' = c /\ StepsToRelease[pc'[c]] < StepsToRelease[pc[c]]
          ELSE mutex' = c /\ pc'[c] = pc[c]]_vars

(* ... and the only thing it can wait for, in join(), is a worker that exists.       *)
HolderWaitsForWorker ==
    \A c \in Clients : mutex = c /\ pc[c] = "wait_join" => worker \in Active \cup {"exited"}
=============================================================================
