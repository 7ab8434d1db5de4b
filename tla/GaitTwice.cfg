SPECIFICATION Spec
CONSTANTS
    Thread = {walker, again}
    Off = Off
INVARIANTS
    TypeOK
PROPERTIES
    NoJump
