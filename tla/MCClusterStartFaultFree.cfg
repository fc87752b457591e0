CONSTANTS
    Worker = {w1}
    NumResources = 3
    Faults = {}
    NoWorker = NoWorker
SPECIFICATION Spec
INVARIANT
    FaultFreeStartSucceeds
