CONSTANTS
    Live = live
    Repo = repo
    Second = {s1, s2}
    MaxSaves = 2
SPECIFICATION Spec
SYMMETRY Backups
INVARIANTS
    NothingLost
    CommandUsesWholeFiles
    InstalledIsWhole
