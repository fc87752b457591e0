CONSTANTS
    Worker = {w1, w2}
    Main = Main
    Free = Free
    Torn = Torn
    Absent = Absent
    MaxReports = 2
    Faults = {"io", "kill"}
SPECIFICATION FairSpec
INVARIANTS
    FileComplete
    ReportsStand
PROPERTIES
    Refinement
    ReportEnds
