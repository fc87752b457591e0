CONSTANTS
    MaxInstances = 2
    Cluster = {c1}
SPECIFICATION StoreSpec
INVARIANTS
    DeletedIsMarked
    ReadyIsSettled
    TerminatedHasNoAddress
