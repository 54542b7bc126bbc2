----------------------------- MODULE RobotOnCan -----------------------------
(***************************************************************************)
(* The robot as other stations see it over CAN: targets and states cross   *)
(* the bus as 32-bit counts of hundredths (JointCodec), on their way into  *)
(* CanCommandBuffer and out of CanStateBuffer.                             *)
(***************************************************************************)
EXTENDS Robot, JointCodec

CONSTANTS
    PositionHundredth,  \* half units in a hundredth of a degree
    VelocityHundredth   \* units per tick in a hundredth of a degree per second

ASSUME ResolutionAssumption ==
    PositionHundredth \in Nat \ {0} /\ VelocityHundredth \in Nat \ {0}

(* 18000 and 6000 hundredths: the limits are far from the end of 32 bits. *)
ASSUME RangeAssumption ==
    /\ Fits(MinPosition, PositionHundredth) /\ Fits(MaxPosition, PositionHundredth)
    /\ Fits(MaxVelocity, VelocityHundredth) /\ Fits(-MaxVelocity, VelocityHundredth)

VARIABLE canState  \* what CanStateBuffer holds: zeros until one is published

canVars == <<vars, canState>>

CanInit == Init /\ canState = [position |-> 0, velocity |-> 0]

(* What a receiver may make of x: casts that are undefined may give anything they give. *)
Received(x, hundredth) ==
    {hundredth * Decode(Encode(count)) : count \in Casts(x, hundredth)}

(* A station encodes target p, the communication thread decodes and publishes it. *)
SendCommand(p) ==
    /\ \E received \in Received(p, PositionHundredth) : PublishCommand(received)
    /\ UNCHANGED canState

(* Mutant: the velocity of the step before goes with the new position. *)
PublishEarlyVelocity ==
    canState' = [position |-> position'[CanJoint], velocity |-> velocity[CanJoint]]

(* can_state_.publish() of joint CanJoint's state, after Robot::update(). *)
PublishState == canState' = State'[CanJoint]

(* A control cycle publishes also if its read of the command failed. *)
CanCycle == ControlCycle /\ PublishState

OwnerCall ==
    /\ \E j \in Joints :
         \/ \E p \in Positions : InitializeJointPosition(j, p)
         \/ \E p \in Targets : SetJointTargetPosition(j, p)
         \/ \E a \in Accelerations : SetJointAcceleration(j, a)
    /\ UNCHANGED canState

(* A direct Robot::update() publishes nothing. *)
DirectUpdate == (\E dt \in TimeSteps : Update(dt)) /\ UNCHANGED canState

CanNext == (\E p \in Commands : SendCommand(p)) \/ CanCycle \/ OwnerCall \/ DirectUpdate

CanSpec == CanInit /\ [][CanNext]_canVars

-----------------------------------------------------------------------------
(* Properties *)

(* y is x with at most one hundredth cut off, never on the other side of zero. *)
IsNear(y, x, hundredth) ==
    /\ Abs(y) <= Abs(x) /\ Abs(x) - Abs(y) <= hundredth
    /\ y # 0 => Sign(y) = Sign(x)

(* y is a whole number of hundredths: the next one from x towards zero or, only if x *)
(* is whole itself, x.                                                               *)
IsTruncated(y, x, hundredth) == IsNear(y, x, hundredth) /\ Abs(y) % hundredth = 0

(* A target that fits 32 bits never arrives beyond what was meant, also a negative   *)
(* one whose bytes carry the sign: truncation is always towards zero.  One between   *)
(* two hundredths of a degree arrives as the one nearer to zero.  One on the grid    *)
(* may lose a whole hundredth, since 0.29 * 100.0 is less than 29 in doubles: the    *)
(* payload can hold the target and the code need not send it, so that this property  *)
(* claims less than README.md:611 "encoded with a resolution of 0.01".               *)
CommandIsTruncated ==
    [][\A p \in Commands :
         SendCommand(p) /\ Fits(p, PositionHundredth) =>
           IsTruncated(canCommand', p, PositionHundredth)]_canVars

(* Whatever commands arrive, undefined ones included, the state on the bus is the    *)
(* joint's to a hundredth and inside its limits, and no cast of it is undefined:     *)
(* the position limits keep it in range.  Only NaN can be lost in a cast: a position *)
(* of NaN takes an initialisation or an endless update, a velocity of NaN the latter. *)
(* Position and velocity belong to the same update: a joint at a limit stands still. *)
TransmittedStateIsNear ==
    /\ canState.position # NaN =>
         /\ Fits(canState.position, PositionHundredth)
         /\ \A p \in Received(canState.position, PositionHundredth) :
              /\ IsNear(p, canState.position, PositionHundredth)
              /\ p \in MinPosition .. MaxPosition
    /\ canState.velocity # NaN =>
         /\ Fits(canState.velocity, VelocityHundredth)
         /\ \A v \in Received(canState.velocity, VelocityHundredth) :
              /\ IsNear(v, canState.velocity, VelocityHundredth)
              /\ v \in -MaxVelocity .. MaxVelocity
    /\ canState.velocity = NaN => endless /\ canState.position = NaN
    /\ canState.position \in {MinPosition, MaxPosition} => canState.velocity = 0

(* The inductive invariant behind the theorems (RobotOnCan_proofs): what was *)
(* published is a state the robot was in after an update.                    *)
PublishedIsSafe ==
    /\ canState.position \in (MinPosition .. MaxPosition) \cup {NaN}
    /\ \/ canState.velocity \in -MaxVelocity .. MaxVelocity
       \/ canState.velocity = NaN /\ canState.position = NaN /\ endless
    /\ canState.position \in {MinPosition, MaxPosition} => canState.velocity = 0

RobotOnCanInv == RobotInv /\ PublishedIsSafe
=============================================================================
