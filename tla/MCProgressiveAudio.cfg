SPECIFICATION FairSpec
CONSTANTS
    Width = 3
    Stride = 2
    Shortest = 2
    Blocks <- MCBlocks
    MaxBlocks = 5
    Versions <- MCVersions
    IsOgg <- MCIsOgg
    Convert <- MCConvert
    Samples <- MCSamples
    Absent = Absent
    MaxChanges = 2
    MaxInterruptions = 1
    MaxPowerLosses = 1
INVARIANTS
    WindowsAreFrozen
    ManifestIsTrue
    StampsVouch
    SearchCoversRecording
PROPERTIES
    SearchEnds
\* The worker may be done.
CHECK_DEADLOCK FALSE
