---------------------------- MODULE MCRobotOnCan ----------------------------
(***************************************************************************)
(* Instances of RobotOnCan for TLC: two joints with limits of a few units, *)
(* so that a handful of updates reaches the velocity limits within a step, *)
(* reverses the motion and meets both ends of the range.                   *)
(***************************************************************************)
EXTENDS RobotOnCan

MCMinPosition == -12

(* Steps that are ignored, one of two ticks, and the endless ones; the control loop  *)
(* takes single ones.                                                                *)
MCTimeSteps == {-1, 0, 2, NaN, Infinity}

(* Rejected, accepted, and accepted although it is no position. *)
MCPositions == {-20, 4, NaN}
MCTargets == {-1000, 7, NaN}
MCAccelerations == {-3, 1, NaN}

(* Off the grid of hundredths, on it, and beyond 32 bits. *)
MCCommands == {-3, 8, 1000}
=============================================================================
