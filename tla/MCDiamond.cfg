SPECIFICATION Spec
CONSTANTS
    R = R  A = A  B = B  C = C  D = D  Nil = Nil
    Root = R
    Types <- MCTypes
    Names <- MCNames
    Declarations <- DiamondDeclarations
INVARIANT MatchesEncodingJSON
CHECK_DEADLOCK FALSE
