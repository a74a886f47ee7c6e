SPECIFICATION Spec
CONSTANTS
    a = a  b = b  f1 = f1  f2 = f2  get = get  list = list  Nil = Nil
    Slugs <- MCSlugs
    HookEvents <- MCHookEvents
    Methods <- MCMethods
    Fns <- MCFns
    MaxCalls = 5
SYMMETRY Symmetry
INVARIANTS TypeOK ScopeMatchesExecution AcceptedIsReachable NeverRunsSibling
PROPERTIES WriteOnce ImplementsTable
CHECK_DEADLOCK FALSE
