SPECIFICATION Spec
CONSTANTS
    Thread = {walker}
    Off = Off
INVARIANTS
    EndsInPose
