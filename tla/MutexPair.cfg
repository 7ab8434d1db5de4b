SPECIFICATION Spec
CONSTANTS
    high = high
    middle = middle
    low = low
    None = None
    Threads = {high, middle, low}
    Mutexes = {m1, m2}
    Base <- MCBase
    Flag = "PRIO"
    MaxHold = 2
    Sleepers = {high, middle, low}
    Detachers = {low}
INVARIANTS
    HoldersAgree
    WaitersHaveOwner
PROPERTIES
    ServesCallers
CHECK_DEADLOCK FALSE
