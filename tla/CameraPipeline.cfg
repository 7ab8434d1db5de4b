SPECIFICATION FairSpec
CONSTANTS
    Window = 3
    LostAfter = 3
    Wrap = 5
    QueueSize = 2
    MaxSamples = 2
INVARIANTS
    TypeOK
    OneFramePerSample
    AveragesOverWindow
    CountsMisses
PROPERTIES
    NoTear
    FramesKeepFlowing
