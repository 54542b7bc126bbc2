-------------------------------- MODULE Main --------------------------------
(***************************************************************************)
(* The program (main.cpp): main() puts one command on the bus, starts the  *)
(* communication thread and a run of the control loop, polls               *)
(* completedCycles() until the run is over, stops the communication and    *)
(* returns; the destructors do the rest.  It composes ControlLoop, whose   *)
(* only client is main(), with CanCommunication; the loop's update() is    *)
(* the control cycle that meets the communication thread in the buffers.   *)
(*                                                                         *)
(* An exception of a thread constructor is not caught: it ends the         *)
(* program.  DestroyWhenBusy is TRUE here: nothing guards the destructor   *)
(* but the polling.                                                        *)
(***************************************************************************)
EXTENDS ControlLoop

CONSTANTS
    Me,         \* main()'s thread, the only client of the loop
    CycleCount  \* cycle_count

ASSUME MainAssumption ==
    /\ Clients = {Me} /\ CycleCounts = {CycleCount} /\ MaxRunCalls = 1
    /\ CycleCount \in Nat \ {0}
    /\ DestroyWhenBusy

VARIABLES
    at,           \* where main() stands
    frames, running, canJoinable, owner, cpc, frame, command, jointState, wpc, target,
    sent, foreign, starts  \* CanCommunication's; canJoinable is its thread_.joinable()

Can == INSTANCE CanCommunication WITH
    joinable <- canJoinable, MaxCommands <- 1, MaxForeign <- 0, MaxStarts <- 1

canVars == <<frames, running, canJoinable, owner, cpc, frame, command, jointState, wpc, target,
             sent, foreign, starts>>
mainVars == <<at, vars, canVars>>

MainInit == Init /\ Can!Init /\ at = "transmit"

-----------------------------------------------------------------------------
(* main(), statement by statement *)

Transmit ==
    /\ at = "transmit" /\ at' = "start"
    /\ Can!SendCommand
    /\ UNCHANGED vars

StartCommunication ==
    /\ at = "start"
    /\ \/ Can!Start /\ at' = "start"
       \/ Can!ConstructThread /\ at' = "run"
       \/ Can!ConstructThrows /\ at' = "terminated"
    /\ UNCHANGED vars

RunLoop ==
    /\ at = "run"
    /\ \/ (CallRun(Me) \/ RunLock(Me) \/ RunAccepted(Me) \/ ConstructThread(Me)) /\ at' = "run"
       \/ (RunRejected(Me) \/ AssignThread(Me)) /\ at' = "poll"
       \/ ConstructThrows(Me) /\ at' = "terminated"
    /\ UNCHANGED canVars

(* Mutants: main() leaves before the last cycle, or waits for one more. *)
PollEarly == at = "poll" /\ completed >= CycleCount - 1 /\ at' = "stop" /\ UNCHANGED <<vars, canVars>>
PollBeyond == at = "poll" /\ completed > CycleCount /\ at' = "stop" /\ UNCHANGED <<vars, canVars>>

(* The last check of the polling loop; the others change nothing. *)
Poll == at = "poll" /\ completed >= CycleCount /\ at' = "stop" /\ UNCHANGED <<vars, canVars>>

StopCommunication ==
    /\ at = "stop"
    /\ Can!StopCall
    /\ at' = IF owner' = "out" THEN "print" ELSE "stop"
    /\ UNCHANGED vars

Report == at = "print" /\ at' = "return" /\ UNCHANGED <<vars, canVars>>

(* The locals die in reverse order: communication and the bus, the loop, then the buffers, *)
(* the scheduler and the robot.                                                            *)
DestroyCommunication ==
    /\ at = "return"
    /\ Can!Destroy
    /\ at' = IF owner' = "gone" THEN "destroy_loop" ELSE "return"
    /\ UNCHANGED vars

DestroyLoop ==
    /\ at = "destroy_loop"
    /\ Destroy
    /\ at' = IF lifetime' = "gone" THEN "done" ELSE "destroy_loop"
    /\ UNCHANGED canVars

MainStep ==
    \/ Transmit \/ StartCommunication \/ RunLoop \/ Poll \/ StopCommunication \/ Report
    \/ DestroyCommunication \/ DestroyLoop

-----------------------------------------------------------------------------
(* The two threads.  std::terminate() ends them too. *)

(* update(): command buffer and robot, state buffer, then the snapshot and the counter. *)
ControlThread ==
    /\ at # "terminated"
    /\ \/ (OnControlThreadStart \/ Check \/ Finish) /\ UNCHANGED canVars
       \/ worker = "update" /\ (Can!ReadCommand \/ Can!BeginPublishState) /\ UNCHANGED vars
       \/ Update /\ Can!EndPublishState
    /\ UNCHANGED at

CommunicationThread ==
    /\ at # "terminated"
    /\ Can!CommunicationThread
    /\ UNCHANGED <<at, vars>>

Ended == at \in {"done", "terminated"} /\ UNCHANGED mainVars

MainNext == MainStep \/ ControlThread \/ CommunicationThread \/ Ended

MainSpec == MainInit /\ [][MainNext]_mainVars

(* All three threads keep running. *)
MainFairSpec ==
    /\ MainSpec
    /\ WF_mainVars(MainStep)
    /\ WF_mainVars(ControlThread)
    /\ WF_mainVars(CommunicationThread)

-----------------------------------------------------------------------------
(* Properties *)

(* Polling stands in for wait(): main() destroys the loop only when the worker has   *)
(* done all its cycles (main.cpp:60), although nothing but the counter tells it so.  *)
(* What is proved of such a loop therefore holds of this program.                    *)
Loop == INSTANCE ControlLoop WITH DestroyWhenBusy <- FALSE

PollingSuffices == Loop!Spec

(* The composition uses CanCommunication as that module says. *)
UsesCommunication == Can!Spec

(* What main() prints without a lock no thread writes any more, and no thread        *)
(* outlives what it works on: the bus dies with the communication thread gone, the   *)
(* buffers, the scheduler and the robot with both gone.                              *)
NothingLeftBehind ==
    /\ at \in {"stop", "print", "return", "destroy_loop", "done"} =>
         completed = CycleCount /\ worker \notin {"starting", "update"} /\ wpc = "read"
    /\ at \in {"print", "return", "destroy_loop", "done"} => cpc = "none" /\ ~running
    /\ at = "done" => worker = "none"

(* The program ends: polling, stop() and both joins return, unless a thread could    *)
(* not be created.                                                                   *)
MainReturns == <>(at \in {"done", "terminated"})
-----------------------------------------------------------------------------
(* The inductive invariant behind the theorems (Main_proofs). *)

(* Where main() may stand when nothing has ended the program. *)
BeforeRun == {"transmit", "start", "run"}
AfterPoll == {"stop", "print", "return", "destroy_loop", "done"}

(* The owner of CanCommunication is main(), which stops it before it destroys it. *)
CommunicationOwned ==
    /\ Can!OwnershipInv
    /\ owner \in {"out", "construct", "join", "gone"}
    /\ running \in BOOLEAN /\ canJoinable \in BOOLEAN
    /\ owner = "construct" => at = "start"
    /\ owner = "join" => at = "stop"
    /\ owner = "gone" <=> at \in {"destroy_loop", "done"}
    /\ at \in {"print", "return"} => ~running

(* The control loop is called by main() only, in this order, with this argument. *)
LoopOwned ==
    /\ at \in {"transmit", "start"} => pc[Me] = "out" /\ runCalls = 0
    /\ pc[Me] # "out" => at \in {"run", "terminated"} /\ arg[Me] = CycleCount
    /\ pc[Me] \in {"out", "run_lock", "run_check", "run_construct", "run_assign"}
    /\ runCalls = 0 \/ pc[Me] \in {"run_lock", "run_check"} =>
         lifecycle = "Idle" /\ requested = 0
    /\ pc[Me] \in {"run_construct", "run_assign"} => requested = CycleCount
    /\ at = "run" => (pc[Me] = "out" <=> runCalls = 0)
    /\ at \in {"poll"} \cup AfterPoll => requested = CycleCount
    /\ at \in AfterPoll => completed = CycleCount
    /\ lifetime # "alive" => at \in {"destroy_loop", "done"}
    /\ lifetime = "gone" <=> at = "done"
    /\ lifetime = "gone" => ~joinable

(* The worker is between its accesses to the buffers only inside update(). *)
BuffersInUse == wpc \in {"read", "update", "publish"} /\ (wpc # "read" => worker = "update")

MainInv ==
    /\ at \in BeforeRun \cup {"poll", "terminated"} \cup AfterPoll
    /\ LifecycleInv
    /\ CommunicationOwned
    /\ LoopOwned
    /\ BuffersInUse

(* Nobody stops the program's one run, and its worker counts every cycle. *)
RunIsCounted ==
    /\ ~stopRequested /\ (at \in {"poll"} \cup BeforeRun => ~stopToken)
    /\ completed = i
    /\ worker # "none" => count = CycleCount
    /\ at = "poll" => worker # "none"

(* main() does not poll for ever: as long as completedCycles() is short of           *)
(* cycle_count there is a worker in its function that will raise it; run() has       *)
(* neither been rejected nor has the worker left early (main.cpp:60).                *)
PollIsAnswered == at = "poll" => completed >= CycleCount \/ worker \in Active
=============================================================================
