\* Three items, up to two changes before a flush; two new items make a bulk insert.
CONSTANTS
    Keys = {a, b, c}
    InitialItems <- NoItems
    BulkThreshold = 2
    MaxRenders = 2
    MaxChanges = 2
SYMMETRY Symmetry
SPECIFICATION Spec
INVARIANTS
    SameChildren
    TailEditsKeepOrder
    MovesAreMinimal
