SPECIFICATION FairSpec
CONSTANTS
    None = None
    Absent = Absent
    Parts = {"parser", "tables", "builds"}
CHECK_DEADLOCK FALSE
INVARIANTS
    ParseExact
    TablesExact
    BuildsFresh
PROPERTIES
    Ends
