-------------------------- MODULE CanCommunication --------------------------
(***************************************************************************)
(* The CAN side (communication/CanCommunication.cpp, SimulatedCan.cpp): a  *)
(* thread that takes one frame per iteration from the bus, hands decoded   *)
(* commands to the control loop through CanCommandBuffer and transmits the *)
(* joint state it finds in CanStateBuffer, which SimulatedCan loops back   *)
(* into reception.  The owner calls start(), stop() and the destructor.    *)
(*                                                                         *)
(* A command is the number of its transmission and a joint state the       *)
(* number of the target it moves to, so that the two cannot be told apart  *)
(* by their data.  The buffers are registers here; what they do between    *)
(* their accesses is the business of CanBuffers.                           *)
(***************************************************************************)
EXTENDS Integers, Sequences

CONSTANTS
    MaxCommands,           \* bound on the commands sent
    MaxForeign,            \* bound on the frames that are neither command nor state
    MaxStarts,             \* bound on the start() calls
    ThreadCreationMayFail  \* the std::jthread constructor may throw std::system_error

ASSUME BoundsAssumption == MaxCommands \in Nat /\ MaxForeign \in Nat /\ MaxStarts \in Nat
ASSUME FailureAssumption == ThreadCreationMayFail \in BOOLEAN

VARIABLES
    frames,        \* received_frames_, guarded by SimulatedCan's mutex_
    running,       \* running_
    joinable,      \* thread_.joinable()
    owner,         \* where the owner stands
    cpc,           \* where the communication thread stands; "none" without one
    frame,         \* its local `frame`
    command,       \* what CanCommandBuffer holds; 0: its initial zero target
    jointState,    \* what CanStateBuffer holds
    wpc,           \* the control loop's worker: to "read", to "update", or in "publish"
    target,        \* joint 1's target
    sent,          \* commands sent so far
    foreign,       \* bound: foreign frames sent
    starts         \* bound: start() calls

ownerVars == <<running, joinable, owner, starts>>
workerVars == <<jointState, wpc, target>>
busVars == <<sent, foreign>>
vars == <<frames, running, joinable, owner, cpc, frame, command, jointState, wpc, target,
          sent, foreign, starts>>

CommandFrame(n) == [id |-> "command", length |-> 4, data |-> n]
StateFrame(n) == [id |-> "state", length |-> 8, data |-> n]

(* A command id with a wrong length, and a foreign id with the length of a command. *)
ForeignFrames == {[id |-> "command", length |-> 8, data |-> 0],
                  [id |-> "other", length |-> 4, data |-> 0]}

Frames == [id : {"command", "state", "other"}, length : {4, 8}, data : 0 .. MaxCommands]

TypeOK ==
    /\ frames \in Seq(Frames)
    /\ running \in BOOLEAN
    /\ joinable \in BOOLEAN
    /\ owner \in {"out", "construct", "join", "destroy", "gone"}
    /\ cpc \in {"none", "check", "receive", "decode", "publish", "transmit", "exited"}
    /\ frame \in Frames
    /\ command \in 0 .. MaxCommands
    /\ jointState \in 0 .. MaxCommands
    /\ wpc \in {"read", "update", "publish"}
    /\ target \in 0 .. MaxCommands
    /\ sent \in 0 .. MaxCommands
    /\ foreign \in 0 .. MaxForeign
    /\ starts \in 0 .. MaxStarts

Init ==
    /\ frames = <<>>
    /\ running = FALSE
    /\ joinable = FALSE
    /\ owner = "out"
    /\ cpc = "none"
    /\ frame = StateFrame(0)
    /\ command = 0
    /\ jointState = 0
    /\ wpc = "read"
    /\ target = 0
    /\ sent = 0
    /\ foreign = 0
    /\ starts = 0

-----------------------------------------------------------------------------
(* The bus: other stations, and main() before it starts the thread. *)

SendCommand ==
    /\ sent < MaxCommands
    /\ sent' = sent + 1
    /\ frames' = Append(frames, CommandFrame(sent + 1))
    /\ UNCHANGED <<ownerVars, workerVars, cpc, frame, command, foreign>>

SendForeign ==
    /\ foreign < MaxForeign
    /\ foreign' = foreign + 1
    /\ \E f \in ForeignFrames : frames' = Append(frames, f)
    /\ UNCHANGED <<ownerVars, workerVars, cpc, frame, command, sent>>

-----------------------------------------------------------------------------
(* The owner.  A start() that finds running_ set returns and changes nothing. *)

Start ==
    /\ owner = "out"
    /\ starts < MaxStarts
    /\ ~running
    /\ running' = TRUE
    /\ owner' = "construct"
    /\ starts' = starts + 1
    /\ UNCHANGED <<frames, joinable, cpc, frame, command, workerVars, busVars>>

ConstructThread ==
    /\ owner = "construct"
    /\ cpc' = "check"
    /\ joinable' = TRUE
    /\ owner' = "out"
    /\ UNCHANGED <<frames, running, frame, command, workerVars, busVars, starts>>

(* The constructor throws; running_ stays set. *)
ConstructThrows ==
    /\ ThreadCreationMayFail
    /\ owner = "construct"
    /\ owner' = "out"
    /\ UNCHANGED <<frames, running, joinable, cpc, frame, command, workerVars, busVars, starts>>

(* Mutant: running_ is cleared only after the join. *)
StopAfterJoin(joining, done) ==
    /\ owner = "out"
    /\ running' = joinable
    /\ owner' = IF joinable THEN joining ELSE done
    /\ UNCHANGED <<frames, joinable, cpc, frame, command, workerVars, busVars, starts>>

(* stop(), called as such or by the destructor. *)
Stop(joining, done) ==
    /\ owner = "out"
    /\ running' = FALSE
    /\ owner' = IF joinable THEN joining ELSE done
    /\ UNCHANGED <<frames, joinable, cpc, frame, command, workerVars, busVars, starts>>

(* Mutant: stop() returns without waiting for the thread. *)
Detach(joining, done) ==
    /\ owner = joining
    /\ joinable' = FALSE
    /\ owner' = done
    /\ UNCHANGED <<frames, running, cpc, frame, command, workerVars, busVars, starts>>

Join(joining, done) ==
    /\ owner = joining
    /\ cpc = "exited"
    /\ cpc' = "none"
    /\ joinable' = FALSE
    /\ owner' = done
    /\ UNCHANGED <<frames, running, frame, command, workerVars, busVars, starts>>

StopCall == Stop("join", "out") \/ Join("join", "out")

Destroy == Stop("destroy", "gone") \/ Join("destroy", "gone")

-----------------------------------------------------------------------------
(* The communication thread: run() and transmitState(). *)

CheckRunning ==
    /\ cpc = "check"
    /\ cpc' = IF running THEN "receive" ELSE "exited"
    /\ UNCHANGED <<frames, ownerVars, frame, command, workerVars, busVars>>

(* Mutant: the newest frame is taken first. *)
ReceiveNewest ==
    /\ cpc = "receive"
    /\ frames # <<>>
    /\ frame' = frames[Len(frames)]
    /\ frames' = SubSeq(frames, 1, Len(frames) - 1)
    /\ cpc' = "decode"
    /\ UNCHANGED <<ownerVars, command, workerVars, busVars>>

(* Mutant: the received frame stays in the queue. *)
ReceiveNoPop ==
    /\ cpc = "receive"
    /\ frames # <<>>
    /\ frame' = Head(frames)
    /\ cpc' = "decode"
    /\ UNCHANGED <<frames, ownerVars, command, workerVars, busVars>>

Receive ==
    /\ cpc = "receive"
    /\ frames # <<>>
    /\ frame' = Head(frames)
    /\ frames' = Tail(frames)
    /\ cpc' = "decode"
    /\ UNCHANGED <<ownerVars, command, workerVars, busVars>>

ReceiveNothing ==
    /\ cpc = "receive"
    /\ frames = <<>>
    /\ cpc' = "transmit"
    /\ UNCHANGED <<frames, ownerVars, frame, command, workerVars, busVars>>

(* Mutant: decode() takes any frame for a command. *)
IsCommandAlways(f) == TRUE

IsCommand(f) == f.id = "command" /\ f.length = 4

Decode ==
    /\ cpc = "decode"
    /\ cpc' = IF IsCommand(frame) THEN "publish" ELSE "transmit"
    /\ UNCHANGED <<frames, ownerVars, frame, command, workerVars, busVars>>

PublishCommand ==
    /\ cpc = "publish"
    /\ command' = frame.data
    /\ cpc' = "transmit"
    /\ UNCHANGED <<frames, ownerVars, frame, workerVars, busVars>>

(* The state read fails, and nothing is transmitted, exactly when a publication of  *)
(* the control loop is in progress.                                                *)
TransmitState ==
    /\ cpc = "transmit"
    /\ cpc' = "check"
    /\ frames' = IF wpc = "publish" THEN frames ELSE Append(frames, StateFrame(jointState))
    /\ UNCHANGED <<ownerVars, frame, command, workerVars, busVars>>

CommunicationThread ==
    \/ CheckRunning \/ Receive \/ ReceiveNothing \/ Decode \/ PublishCommand \/ TransmitState

-----------------------------------------------------------------------------
(* The control loop's worker, as far as it concerns the buffers. *)

(* The read fails, and the target stays, while a command is being published. *)
ReadCommand ==
    /\ wpc = "read"
    /\ wpc' = "update"
    /\ target' = IF cpc = "publish" THEN target ELSE command
    /\ UNCHANGED <<frames, ownerVars, cpc, frame, command, jointState, busVars>>

BeginPublishState ==
    /\ wpc = "update"
    /\ wpc' = "publish"
    /\ UNCHANGED <<frames, ownerVars, cpc, frame, command, jointState, target, busVars>>

EndPublishState ==
    /\ wpc = "publish"
    /\ wpc' = "read"
    /\ jointState' = target
    /\ UNCHANGED <<frames, ownerVars, cpc, frame, command, target, busVars>>

ControlCycle == ReadCommand \/ BeginPublishState \/ EndPublishState

Next ==
    \/ SendCommand \/ SendForeign
    \/ Start \/ ConstructThread \/ ConstructThrows \/ StopCall \/ Destroy
    \/ CommunicationThread
    \/ ControlCycle

Spec == Init /\ [][Next]_vars

(* Both threads are scheduled again and again; the owner and the other *)
(* stations may do what they like, except that a stop() goes through.  *)
FairSpec ==
    /\ Spec
    /\ WF_vars(CommunicationThread)
    /\ WF_vars(ControlCycle)
    /\ WF_vars(Join("join", "out") \/ Join("destroy", "gone"))

-----------------------------------------------------------------------------
(* Properties *)

(* The loopback does not fill the queue: whatever the timing, the states in it and   *)
(* the frames others sent leave room for no more than one extra frame.               *)
QueueIsBounded == Len(frames) <= sent + foreign + 1

Queued == {i \in 1 .. Len(frames) : IsCommand(frames[i])}

InHand == cpc \in {"decode", "publish"} /\ IsCommand(frame)

(* The commands on their way: those queued and the one the thread is working on.     *)
Pending == {frames[i].data : i \in Queued} \cup {n \in {frame.data} : InHand}

(* Every command reaches CanCommandBuffer once and in the order sent, across any     *)
(* number of stop() and start(): those pending are exactly those not yet there, each *)
(* once, and the oldest is the next to be published.                                 *)
CommandsKeepOrder ==
    /\ Pending = command + 1 .. sent
    /\ \A i \in Queued :
         /\ InHand => frame.data < frames[i].data
         /\ \A j \in Queued : i < j => frames[i].data < frames[j].data

(* The target never falls back to an older command, in particular not to the value   *)
(* of a joint state that came back from the bus (README.md:629 "This prevents a      *)
(* state frame from being interpreted as a command frame.").                         *)
TargetNeverGoesBack == [][target <= target']_vars

(* running_, thread_ and the thread belong together: a thread is started only when   *)
(* thread_ owns none (so that no assignment joins one), a stopped or destroyed       *)
(* CanCommunication has none, and only a failed start leaves running_ without one.   *)
ThreadIsOwned ==
    /\ joinable <=> cpc # "none"
    /\ owner = "construct" => running /\ ~joinable
    /\ owner = "gone" => ~running /\ ~joinable
    /\ owner = "out" /\ ~running => ~joinable
    /\ running /\ owner = "out" => joinable \/ ThreadCreationMayFail
    /\ cpc = "exited" => ~running

(* stop() and the destructor return. *)
StopReturns == owner \in {"join", "destroy"} ~> owner \in {"out", "gone"}

(* While communication is up, every command sent becomes the target of joint 1,      *)
(* however many state frames the loopback puts into the queue.                       *)
CommandsTakeEffect ==
    <>[](running /\ joinable) =>
        \A n \in 1 .. MaxCommands : sent >= n ~> target >= n

-----------------------------------------------------------------------------
(* The inductive invariants behind the theorems (CanCommunication_proofs). *)

(* A stop() that still has to join the thread has told it to leave. *)
OwnershipInv ==
    /\ ThreadIsOwned
    /\ owner \in {"join", "destroy"} => joinable /\ ~running

(* The extra frame is only in the queue once the thread has transmitted. *)
QueueInv ==
    /\ QueueIsBounded
    /\ cpc \in {"decode", "publish", "transmit"} => Len(frames) <= sent + foreign

(* What was sent, is pending, in the buffer and in use is in that order. *)
OrderInv ==
    /\ cpc = "publish" => IsCommand(frame)
    /\ target <= command /\ command <= sent
    /\ CommandsKeepOrder

CommunicationInv == TypeOK /\ OwnershipInv /\ QueueInv /\ OrderInv

-----------------------------------------------------------------------------
(* Distances: how far StopReturns and CommandsTakeEffect are from their goals, in    *)
(* steps of the communication thread.                                                *)

(* What is left of run() for a thread that finds running_ cleared. *)
StepsToLeave == [receive |-> 5, decode |-> 4, publish |-> 3, transmit |-> 2, check |-> 1,
                 exited |-> 0, none |-> 0]

Joining == owner \in {"join", "destroy"}

(* Once stop() or the destructor waits for the thread, running_ stays cleared until  *)
(* the thread is joined, every step of the thread brings it closer to its end, at    *)
(* most five of them, and nothing that happens meanwhile sets it back.               *)
StopComesCloser ==
    [][Joining =>
          \/ cpc = "exited" /\ ~Joining'
          \/ /\ Joining' /\ ~running'
             /\ StepsToLeave[cpc'] <= StepsToLeave[cpc]
             /\ CommunicationThread => StepsToLeave[cpc'] < StepsToLeave[cpc]]_vars

(* What is left of the iteration before the thread takes the next frame. *)
StepsToReceive == [receive |-> 0, check |-> 1, transmit |-> 2, publish |-> 3, decode |-> 4,
                   exited |-> 1, none |-> 1]

Position(n) == CHOOSE i \in Queued : frames[i].data = n

(* For a command on its way: an iteration for every frame before it, then its own. *)
Distance(n) ==
    IF InHand /\ frame.data = n
    THEN IF cpc = "decode" THEN 2 ELSE 1
    ELSE 5 * (Position(n) - 1) + StepsToReceive[cpc] + 3

(* No step takes a command on its way farther from CanCommandBuffer, whatever the    *)
(* loopback and others put into the queue and however often the thread is stopped    *)
(* and started, and every step of a running thread brings it closer.                 *)
CommandsComeCloser ==
    [][\A n \in command + 1 .. sent :
          command' < n =>
              /\ Distance(n)' <= Distance(n)
              /\ CommunicationThread /\ running => Distance(n)' < Distance(n)]_vars

(* The frames that delay a command are those others sent and one state: the distance *)
(* has a bound that does not depend on how long the loopback has been running.       *)
CommandsAreNear == \A n \in command + 1 .. sent : Distance(n) \in 1 .. 5 * (sent + foreign) + 4
=============================================================================
