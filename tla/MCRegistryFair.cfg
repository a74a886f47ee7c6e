SPECIFICATION FairSpec
CONSTANTS
    a = a  b = b  f1 = f1  f2 = f2  get = get  list = list  Nil = Nil
    Slugs <- MCSlugs
    HookEvents <- MCHookEvents
    Methods <- OneMethod
    Fns <- OneFn
    MaxCalls = 5
PROPERTIES ScopeReleased
CHECK_DEADLOCK FALSE
