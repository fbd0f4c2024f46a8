\* Does the registry search every enabled group?
SPECIFICATION Spec
CONSTANTS
    None = None
    Absent = Absent
    Parts = {"tables"}
CHECK_DEADLOCK FALSE
INVARIANTS
    EveryGroupSearched
