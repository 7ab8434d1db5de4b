SPECIFICATION Spec
CONSTANTS
    high = high
    middle = middle
    low = low
    None = None
    Threads = {high, middle, low}
    Mutexes = {m1}
    Base <- MCBase
    Flag = "FIFO"
    MaxHold = 1
    Sleepers = {high, middle, low}
    Detachers = {}
INVARIANTS
    OwnerInherits
