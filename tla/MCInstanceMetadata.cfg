CONSTANTS
    Command = {c1, c2}
    Key = {k1, k2}
    Tag = {cluster, master, other}
    ClusterTags = {cluster, master}
SPECIFICATION MetadataSpec
SYMMETRY Symmetry
INVARIANTS
    DoneLetsIn
    StartedIsInFirewall
PROPERTIES
    KeysStay
