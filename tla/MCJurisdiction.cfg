SPECIFICATION Spec
CONSTANTS
    R = R  A = A  B = B  C = C  D = D  Nil = Nil
    Root = R
    Types <- MCTypes
    Names <- MCNames
    Declarations <- MCDeclarations
INVARIANTS TypeOK WalkIsAcyclic DeclaredIsDominant DeclaredIsEmitted MatchesEncodingJSONOnTrees
CHECK_DEADLOCK FALSE
