SPECIFICATION Spec
CONSTANTS
    high = high
    middle = middle
    equal = equal
    low = low
    None = None
    Threads = {high, middle, equal, low}
    Mutexes = {m1}
    Base <- MCBase
    Flag = "PRIO"
    MaxHold = 2
    Sleepers = {high, middle, low}
    Detachers = {}
INVARIANTS
    OwnerInherits
    InversionIsBounded
    PriorityGivenBack
