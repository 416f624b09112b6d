\* Two invocations that overlap at will.
SPECIFICATION FairSpec
CONSTANTS
    Invocations = {i1, i2}
    Absent = Absent
INVARIANTS
    AtMostOneWorker
    ReceiptReadsQuietSession
PROPERTIES
    SessionBecomesFree
\* The invocations end; what a codec forked may stay.
CHECK_DEADLOCK FALSE
