SPECIFICATION WalkSpec
CONSTANTS
    Comparisons <- MCComparisons
    Nodes = {n1, n2, n3, n4}
    n1 = n1
    n2 = n2
    n3 = n3
    n4 = n4
    Absent = Absent
    StackLimit = 20
    Depth = 3
INVARIANTS WalkIsSound KindChangeReportedOnce BreaksAreNotSafeUnlessSkipped
CHECK_DEADLOCK FALSE
