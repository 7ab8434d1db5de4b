SPECIFICATION FairSpec
CONSTANTS
    Reader = {shell}
    Char = {a, b}
    Nul = Nul
    Size = 4
    MaxCount = 2
INVARIANTS
    NobodySleepsOnInput
PROPERTIES
    InputIsRead
    ServesReaders
