SPECIFICATION Spec
CONSTANTS
    f1 = f1  f2 = f2  v = v  zero = zero  r1 = r1  r2 = r2
    Token = Token  token = token  Agent = Agent  secret = secret
    noon = noon  done = done  oops = oops
    Absent = Absent  Garbled = Garbled  Missing = Missing  Null = Null
    Nothing = Nothing  Unencodable = Unencodable  Own = Own  Nil = Nil
    Zero = zero
    Fields <- MCFields
    Values <- MCValues
    Ids <- MCIds
    Names <- MCNames
    Canonical <- MCCanonical
    Tokens <- MCTokens
    Times <- MCTimes
    Results <- MCResults
    Texts <- MCTexts
INVARIANT ResponseHeaderIsFound
CHECK_DEADLOCK FALSE
