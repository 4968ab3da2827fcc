SPECIFICATION BTreeSpec
CONSTANTS
    TreeValues = {1, 2, 3, 4, 5, 6, 7, 8, 9}
    Degree = 2
INVARIANT
    DeleteReports
CHECK_DEADLOCK FALSE
