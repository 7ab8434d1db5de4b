SPECIFICATION Spec
CONSTANTS
    Thread = {walker}
    Off = Off
INVARIANTS
    TypeOK
    ComesHome
    StandsOnTwo
PROPERTIES
    NoJump
