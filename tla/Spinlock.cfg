\* Two processors and three ticket values: the counters wrap every third
\* acquisition, and the ring is as full as two processors can make it.
SPECIFICATION FairSpec
CONSTANTS
    CPU = {p1, p2}
    TicketMod = 3
INVARIANTS
    MutualExclusion
    HandlerNeverWaitsForItsThread
    IrqsRestored
PROPERTIES
    AcquireReturns
    FirstComeFirstServed
