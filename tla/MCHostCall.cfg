\* Three blocks: one more than a call uses, so that a leak shows as a block
\* in use and not only as a call that finds no room.
SPECIFICATION FairSpec
CONSTANTS
    b1 = b1  b2 = b2  b3 = b3
    get = get  put = put  row = row  junk = junk
    Nil = Nil
    Blocks <- MCBlocks
    Requests <- MCRequests
    Payloads <- MCPayloads
    Fitting <- MCFitting
    OtherCodes <- MCOtherCodes
INVARIANTS
    TypeOK
    NothingLeaks
    AnswerIsTheHosts
PROPERTIES
    EveryCallGetsThrough
CHECK_DEADLOCK FALSE
