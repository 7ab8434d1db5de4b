SPECIFICATION FairSpec
CONSTANTS
    Reader = {shell, other}
    Char = {a, b}
    Nul = Nul
    Size = 3
    MaxCount = 2
INVARIANTS
    TypeOK
    NobodySleepsOnInput
