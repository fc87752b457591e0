CONSTANTS
    MaxInstances = 2
    SshTargets = {0}
SPECIFICATION Spec
VIEW View
INVARIANTS
    NoOrphans
    DeletedIsGone
