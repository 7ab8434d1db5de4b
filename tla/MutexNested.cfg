SPECIFICATION Spec
CONSTANTS
    high = high
    middle = middle
    low = low
    None = None
    Threads = {high, middle, low}
    Mutexes = {m1, m2}
    Base <- MCBase
    Flag = "PRIO"
    MaxHold = 1
    Sleepers = {high, middle, low}
    Detachers = {}
INVARIANTS
    OwnerInherits
CHECK_DEADLOCK FALSE
