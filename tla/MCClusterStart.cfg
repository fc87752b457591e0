CONSTANTS
    Worker = {w1, w2}
    NumResources = 3
    Faults = {"api", "operation", "setup", "preempt", "timeout", "kill"}
    NoWorker = NoWorker
SPECIFICATION FairSpec
INVARIANTS
    OneProber
    ReadyIsProvisioned
    NilMeansComplete
    NoWorkerOutlivesStart
    NetworkBeforeInstance
PROPERTIES
    NothingBegunAfterFailure
    StartReturns
