SPECIFICATION Spec
CONSTANTS
    urgent = urgent
    left = left
    right = right
    Idle = Idle
    Thread = {urgent, left, right}
    Static = {right}
    Prio <- MCPrio
    Slice <- MCSlice
    MaxSleep = 2
    MaxLock = 1
    Races = {}
PROPERTIES
    FreshTurn
