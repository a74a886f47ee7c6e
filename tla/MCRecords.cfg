\* Two guests at once and batches of two.
SPECIFICATION Spec
CONSTANTS
    g1 = g1  g2 = g2  r1 = r1  r2 = r2  a = a  b = b
    big = big  near = near
    Nil = Nil  Absent = Absent  Refused = Refused  Failed = Failed
    Guests <- MCGuests
    Ids <- MCIds
    Attrs <- MCAttrs
    Values <- MCValues
    Float <- MCFloat
    Types <- MCTypes
    MaxItems = 2
    Inputs <- MCInputs
SYMMETRY MCSymmetry
CONSTRAINT OneBatch
INVARIANTS
    TypeOK
    WritesAreTheAuthors
PROPERTIES
    ImplementsRecordStore
CHECK_DEADLOCK FALSE
