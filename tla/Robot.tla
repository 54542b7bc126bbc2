------------------------------- MODULE Robot -------------------------------
(***************************************************************************)
(* The robot's joints through one control cycle: PDController, SafetyLayer *)
(* and Joint/SimulatedMotor prepare an acceleration for every joint, then  *)
(* RobotSimulator integrates them.  The control loop first takes joint     *)
(* CanJoint's target from CanCommandBuffer.                                *)
(*                                                                         *)
(* The doubles are fixed-point integers, plus NaN: time in ticks, a        *)
(* velocity in units per tick, and positions in half units, so that half   *)
(* an acceleration is an integer.  The two operations that do not stay on  *)
(* the grid (the controller's gains, the time to the velocity limit) round *)
(* down, where the code rounds to the nearest double.  A target far beyond *)
(* the limits also stands for an infinite one: both saturate.  A time step *)
(* may be any double: Robot::update() ignores only those that compare as   *)
(* zero or less, so that NaN and Infinity are integrated.                  *)
(***************************************************************************)
EXTENDS Integers

CONSTANTS
    Joints,             \* the joint indices
    CanJoint,           \* the joint commanded over CAN: index 0
    MinPosition,        \* min_position_, in half units, alike for every joint
    MaxPosition,        \* max_position_
    MaxVelocity,        \* max_velocity_
    MaxAcceleration,    \* max_acceleration_
    ControllerMaximum,  \* PDControllerConfig::max_acceleration
    PositionGain,       \* position_gain_ and velocity_gain_, per GainScale
    VelocityGain,
    GainScale,
    ControlStep,        \* dt_ of the control loop
    TimeSteps,          \* what Robot::update() may be called with
    Positions,          \* what initializeJointPosition() may be called with
    Targets,            \* what setJointTargetPosition() may be called with
    Accelerations,      \* what setJointAcceleration() may be called with
    Commands,           \* what CanCommandBuffer::publish() may be called with
    MaxCalls,           \* bound on the calls other than updates
    NaN,                \* not a number
    Infinity            \* the positive infinity; the negative one is ignored like any negative

ASSUME LimitsAssumption ==
    /\ MinPosition \in Int /\ MaxPosition \in Int
    /\ MinPosition <= 0 /\ 0 <= MaxPosition /\ MinPosition < MaxPosition
    /\ MaxVelocity \in Nat \ {0} /\ MaxAcceleration \in Nat /\ ControllerMaximum \in Nat
ASSUME GainsAssumption ==
    PositionGain \in Int /\ VelocityGain \in Int /\ GainScale \in Nat \ {0}
ASSUME StepsAssumption ==
    ControlStep \in Nat \ {0} /\ TimeSteps \subseteq Int \cup {NaN, Infinity}
ASSUME NaNAssumption == NaN \notin Int /\ Infinity \notin Int /\ NaN # Infinity
ASSUME InputsAssumption ==
    /\ (Positions \cup Targets \cup Accelerations) \subseteq Int \cup {NaN}
    /\ Commands \subseteq Int
    /\ MaxCalls \in Nat
    /\ CanJoint \in Joints

VARIABLES
    position,    \* position[j]: joint j's position_
    velocity,    \* velocity[j]: its velocity_
    target,      \* target[j]: its command_.target_position
    motor,       \* motor[j]: the acceleration_ of its motor
    canCommand,  \* what CanCommandBuffer holds: the zero target until one is published
    last,        \* history: the last operation
    startedNaN,  \* history: the joints whose last initialisation was at NaN
    endless,     \* history: an update was called with NaN or Infinity
    calls        \* bound: calls other than updates

history == <<startedNaN, endless>>
vars == <<position, velocity, target, motor, canCommand, last, history, calls>>

TypeOK ==
    /\ position \in [Joints -> Int \cup {NaN}]
    /\ velocity \in [Joints -> Int \cup {NaN}]
    /\ target \in [Joints -> Int \cup {NaN}]
    /\ motor \in [Joints -> Int \cup {NaN}]
    /\ canCommand \in Int
    /\ last \in {"construct", "call", "update", "no_time", "endless"}
    /\ startedNaN \subseteq Joints
    /\ endless \in BOOLEAN
    /\ calls \in 0 .. MaxCalls

Init ==
    /\ position = [j \in Joints |-> 0]
    /\ velocity = [j \in Joints |-> 0]
    /\ target = [j \in Joints |-> 0]
    /\ motor = [j \in Joints |-> 0]
    /\ canCommand = 0
    /\ last = "construct"
    /\ startedNaN = {}
    /\ endless = FALSE
    /\ calls = 0

-----------------------------------------------------------------------------
(* std::clamp to a symmetric range, and a quotient on the grid. *)
Clamp(x, limit) == IF x > limit THEN limit ELSE IF x < -limit THEN -limit ELSE x
Ratio(n, d) == IF d > 0 THEN n \div d ELSE (-n) \div (-d)

(* PDController::calculate(): comparisons with NaN are false, so NaN passes its limits. *)
Calculate(goal, p, v) ==
    IF NaN \in {goal, p, v} THEN NaN
    ELSE Clamp((PositionGain * (goal - p) - VelocityGain * v) \div GainScale, ControllerMaximum)

(* SafetyLayer::validate() *)
Validate(a) == a # NaN /\ a <= MaxAcceleration /\ a >= -MaxAcceleration

(* Joint::setAcceleration() rejects what compares as beyond the limit. *)
Accepts(a) == ~(a # NaN /\ (a > MaxAcceleration \/ a < -MaxAcceleration))

(* What update() leaves in joint j's motor before it simulates, if j is to go to goal. *)
Commanded(j, goal) ==
    LET requested == Calculate(goal, position[j], velocity[j])
    IN IF ~Validate(requested) THEN 0
       ELSE IF Accepts(requested) THEN requested ELSE motor[j]

-----------------------------------------------------------------------------
(* RobotSimulator::update() for one joint: from velocity v under acceleration a. *)

FiniteVelocity(v, a, dt) == Clamp(Clamp(v, MaxVelocity) + a * dt, MaxVelocity)

(* std::clamp passes NaN, and zero times infinity is NaN. *)
FinalVelocity(v, a, dt) ==
    IF v = NaN \/ dt = NaN \/ (dt = Infinity /\ a = 0) THEN NaN
    ELSE IF dt = Infinity THEN IF a > 0 THEN MaxVelocity ELSE -MaxVelocity
    ELSE FiniteVelocity(v, a, dt)

(* Mutant: the acceleration acts throughout the step, beyond the velocity limit. *)
DisplacementUnlimited(v, a, dt) == 2 * Clamp(v, MaxVelocity) * dt + a * dt * dt

(* In half units.  Before the velocity limit is reached, after (limit - start) / a, the *)
(* joint accelerates; for the rest of the step it moves at the limit.                   *)
Displacement(v, a, dt) ==
    LET start == Clamp(v, MaxVelocity)
        limit == IF a > 0 THEN MaxVelocity ELSE -MaxVelocity
        unconstrained == start + a * dt
        exceeds == (a > 0 /\ unconstrained > MaxVelocity)
                   \/ (a < 0 /\ unconstrained < -MaxVelocity)
    IN IF a = 0 THEN 2 * FiniteVelocity(v, a, dt) * dt
       ELSE IF start = limit THEN 2 * limit * dt
       ELSE IF exceeds
            THEN Ratio((limit - start) * (limit + start)
                       + 2 * limit * (a * dt - (limit - start)), a)
       ELSE 2 * start * dt + a * dt * dt

(* An endless step under an acceleration ends beyond every limit in its direction. *)
Moved(j, a, dt) ==
    IF position[j] = NaN \/ FinalVelocity(velocity[j], a, dt) = NaN THEN NaN
    ELSE IF dt = Infinity THEN IF a > 0 THEN MaxPosition ELSE MinPosition
    ELSE position[j] + Displacement(velocity[j], a, dt)

(* Mutants: a joint that has just reached the limit keeps moving; nothing stops a joint *)
(* at its lower limit.                                                                 *)
StopsBeyond(p) == p # NaN /\ (p < MinPosition \/ p > MaxPosition)
StopsAtMaximum(p) == p # NaN /\ p >= MaxPosition

(* NaN compares as inside the limits. *)
Stops(p) == p # NaN /\ (p <= MinPosition \/ p >= MaxPosition)

Stopped(p) == IF p <= MinPosition THEN MinPosition ELSE MaxPosition

Simulate(command, dt) ==
    LET moved == [j \in Joints |-> Moved(j, command[j], dt)]
    IN /\ position' = [j \in Joints |-> IF Stops(moved[j]) THEN Stopped(moved[j]) ELSE moved[j]]
       /\ velocity' = [j \in Joints |-> IF Stops(moved[j]) THEN 0
                                        ELSE FinalVelocity(velocity[j], command[j], dt)]
       /\ motor' = [j \in Joints |-> IF Stops(moved[j]) THEN 0 ELSE command[j]]
       /\ IF dt \in Int THEN last' = "update" /\ UNCHANGED endless
                        ELSE last' = "endless" /\ endless' = TRUE

(* A time step that is not positive changes nothing but the motors' commands; one *)
(* that is NaN does not compare as zero or less.                                  *)
Advance(command, dt) ==
    /\ IF dt \in Int /\ dt <= 0
       THEN motor' = command /\ last' = "no_time" /\ UNCHANGED <<position, velocity, endless>>
       ELSE Simulate(command, dt)
    /\ UNCHANGED startedNaN

(* Robot::update(), called without a control loop. *)
Update(dt) ==
    /\ Advance([j \in Joints |-> Commanded(j, target[j])], dt)
    /\ UNCHANGED <<target, canCommand, calls>>

(* CanCommandBuffer::read() succeeds even if nothing was ever published.  One that fails *)
(* leaves the targets.                                                                   *)
TargetsRead == {target, [target EXCEPT ![CanJoint] = canCommand]}

(* ControlLoop::update(): whether the read succeeded or not, the robot is updated. *)
ControlCycle ==
    \E goal \in TargetsRead :
        /\ target' = goal
        /\ Advance([j \in Joints |-> Commanded(j, goal[j])], ControlStep)
        /\ UNCHANGED <<canCommand, calls>>

(* Robot::state() *)
State == [j \in Joints |-> [position |-> position[j], velocity |-> velocity[j]]]

-----------------------------------------------------------------------------
(* The calls of the robot's owner and of the communication thread.  One that is *)
(* rejected, also for an index beyond the last joint, changes nothing.          *)

Called == calls < MaxCalls /\ calls' = calls + 1 /\ last' = "call"

(* Comparisons with NaN are false: initializePosition() does not reject it. *)
InitializeJointPosition(j, p) ==
    /\ Called
    /\ p # NaN => MinPosition <= p /\ p <= MaxPosition
    /\ position' = [position EXCEPT ![j] = p]
    /\ startedNaN' = IF p = NaN THEN startedNaN \cup {j} ELSE startedNaN \ {j}
    /\ UNCHANGED <<velocity, target, motor, canCommand, endless>>

SetJointTargetPosition(j, p) ==
    /\ Called
    /\ target' = [target EXCEPT ![j] = p]
    /\ UNCHANGED <<position, velocity, motor, canCommand, history>>

SetJointAcceleration(j, a) ==
    /\ Called
    /\ Accepts(a)
    /\ motor' = [motor EXCEPT ![j] = a]
    /\ UNCHANGED <<position, velocity, target, canCommand, history>>

PublishCommand(p) ==
    /\ Called
    /\ canCommand' = p
    /\ UNCHANGED <<position, velocity, target, motor, history>>

Call ==
    \/ \E j \in Joints :
         \/ \E p \in Positions : InitializeJointPosition(j, p)
         \/ \E p \in Targets : SetJointTargetPosition(j, p)
         \/ \E a \in Accelerations : SetJointAcceleration(j, a)
    \/ \E p \in Commands : PublishCommand(p)

Next == Call \/ ControlCycle \/ \E dt \in TimeSteps : Update(dt)

Spec == Init /\ [][Next]_vars

-----------------------------------------------------------------------------
(* Properties *)

(* No sequence of targets, commands, manual accelerations and finite time steps      *)
(* takes a joint out of its position and velocity limits (README.md:687), not even a *)
(* NaN target or a NaN acceleration.  What can: a joint initialised at NaN stands    *)
(* there until it is initialised again, without an effect on other joints; and after *)
(* an update by NaN or Infinity positions and velocities may be NaN, against         *)
(* README.md:323 "The simulator enforces each joint's configured velocity and        *)
(* position limits".  A number beyond its limits is never reached.                   *)
JointsWithinLimits ==
    \A j \in Joints :
        /\ \/ position[j] \in MinPosition .. MaxPosition
           \/ position[j] = NaN /\ (j \in startedNaN \/ endless)
        /\ \/ velocity[j] \in -MaxVelocity .. MaxVelocity
           \/ velocity[j] = NaN /\ endless

(* After every update, by whatever time step, the motors hold a command that passed  *)
(* the safety layer, whatever was in them before; a joint at a limit stands still    *)
(* with its command cleared, also if its target lies beyond.                         *)
UpdatesAreSafe ==
    last \in {"update", "no_time", "endless"} =>
        \A j \in Joints :
            /\ motor[j] \in -MaxAcceleration .. MaxAcceleration
            /\ last # "no_time" /\ position[j] \in {MinPosition, MaxPosition} =>
                 velocity[j] = 0 /\ motor[j] = 0

(* The velocity k substeps after the start; a substep is 1/|a| ticks long. *)
VelocityAt(v, a, k) == Clamp(Clamp(v, MaxVelocity) + (IF a > 0 THEN k ELSE -k), MaxVelocity)

(* Twice the area under the limited velocity over n substeps, linear within each. *)
AreaAfter(v, a, n) ==
    LET area[k \in 0 .. n] ==
            IF k = 0 THEN 0 ELSE area[k - 1] + VelocityAt(v, a, k - 1) + VelocityAt(v, a, k)
    IN area[n]

Integral(v, a, dt) ==
    LET rate == IF a > 0 THEN a ELSE -a
    IN IF a = 0 THEN 2 * Clamp(v, MaxVelocity) * dt ELSE AreaAfter(v, a, dt * rate) \div rate

Within(p) == IF p < MinPosition THEN MinPosition ELSE IF p > MaxPosition THEN MaxPosition ELSE p

(* The simulator's case analysis computes the integral of the limited velocity, also *)
(* when the limit is reached within the step, the motion reverses or the joint       *)
(* already moves at the limit (README.md:323).  All joints move by the same step, and *)
(* a joint whose position or velocity is NaN never turns another one into NaN.        *)
MotionIsIntegral ==
    [][last' = "update" =>
         \E dt \in {d \in (TimeSteps \cap Int) \cup {ControlStep} : d > 0} :
           \A j \in Joints :
             position'[j] =
               IF NaN \in {position[j], velocity[j]} THEN NaN
               ELSE Within(position[j]
                           + Integral(velocity[j], Commanded(j, target'[j]), dt))]_vars

(* The inductive invariant behind the theorems (RobotOnCan_proofs). *)
RobotInv == TypeOK /\ JointsWithinLimits /\ UpdatesAreSafe
=============================================================================
