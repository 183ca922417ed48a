SPECIFICATION Spec
CONSTANTS
    MaxHeight = 2
    DataHeights = {2}
    DataIDs = {2}
    Faults = {"crash"}
INVARIANTS
    EntryExists
