CONSTANTS
    Worker = {w1, w2}
    NumFirewalls = 2
    Faults = {"api", "operation", "preempt", "autodelete", "kill"}
SPECIFICATION FairSpec
INVARIANTS
    TerminatedIsStopped
    ForgottenHasNoInstance
    TeardownOrder
    NilMeansStopped
PROPERTIES
    KeptDiskSurvives
    StopReturns
