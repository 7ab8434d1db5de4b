SPECIFICATION Spec
CONSTANTS
    high = high
    middle = middle
    low = low
    None = None
    Threads = {high, middle, low}
    Mutexes = {m1}
    Base <- MCBase
    Flag = "PRIO"
    MaxHold = 2
    Sleepers = {high, middle, low}
    Detachers = {high, middle, low}
INVARIANTS
    NobodyLeftBehind
    NeverHalts
CHECK_DEADLOCK FALSE
