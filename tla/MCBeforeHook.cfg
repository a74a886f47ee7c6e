\* Two values are enough: the wrapper tells values apart only by presence.
SPECIFICATION Spec
CONSTANTS
    amount = amount
    total = total
    note = note
    v1 = v1
    v2 = v2
    Attrs <- MCAttrs
    Values <- MCValues
    Handlers <- MCHandlers
    Absent = Absent
    Null = Null
    None = None
SYMMETRY Symmetry
INVARIANTS
    TypeOK
    PayloadIsOverlay
    UndeclaredIsTheCallers
PROPERTIES
    ImplementsContract
