CONSTANTS
    Joints = {1, 2}
    CanJoint = 1
    MinPosition <- MCMinPosition
    MaxPosition = 14
    MaxVelocity = 3
    MaxAcceleration = 2
    ControllerMaximum = 3
    PositionGain = 2
    VelocityGain = 3
    GainScale = 4
    ControlStep = 1
    TimeSteps <- MCTimeSteps
    Positions <- MCPositions
    Targets <- MCTargets
    Accelerations <- MCAccelerations
    Commands <- MCCommands
    MaxCalls = 3
    NaN = NaN
    Infinity = Infinity
    Byte = 2
    PositionHundredth = 2
    VelocityHundredth = 1
SPECIFICATION CanSpec
INVARIANTS
    JointsWithinLimits
    UpdatesAreSafe
    TransmittedStateIsNear
PROPERTIES
    MotionIsIntegral
    CommandIsTruncated
