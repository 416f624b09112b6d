\* Three frames of four bytes, headers of two: packets of three bytes and more, up to
\* two starts in a frame, and packets that span all three.
SPECIFICATION ReceiversSpec
CONSTANTS
    Frames = 3
    Zone = 4
    Header = 2
    Period = 6
    Firsts = {0, 5}
    MaxReads = 3
    MaxOdd = 1
    TapA = 6
    TapB = 8
    Ones = 2
    ByteBits = 2
    MinBytes = 1
    MaxBytes = 3
    Intact <- EvenParity
    High = 2
    Generators <- Outputs
    Degree = 3
    Reduction = {0, 1}
    FirstRoot = 2
    PrimitiveStep = 3
    Parity = 4
    Shortening = 1
    Lanes = 2
INVARIANTS
    PacketsAreWhole
    PacketsAreKept
    CleanReportIsComplete
    FramesAreFound
    DecodersAgree
    ErrorsAreCorrected
    PathIsMostLikely
CHECK_DEADLOCK FALSE
