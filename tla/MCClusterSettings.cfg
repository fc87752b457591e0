CONSTANTS
    Worker = {w0, w1}
    MaxHours = 2
    Space = 16
    MinBlock = 4
    Bases <- MCBases
    Hashes = {3}
    MaxEdits = 3
SPECIFICATION Spec
SYMMETRY Instances
INVARIANTS
    UpdateReachesAll
    SubnetWithinBase
    InternalTrafficAllowed
