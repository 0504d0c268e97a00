\* Only api.init() fails.
SPECIFICATION Spec
CONSTANTS
    c1 = c1
    c2 = c2
    s1 = s1
    s2 = s2
    b1 = b1
    b2 = b2
    Callers = {c1, c2}
    Sessions = {s1, s2}
    SessionOf <- OnePerSession
    Budgets = {b1, b2}
    NoBudget = NoBudget
    Imported = Imported
    DefaultBudget = b1
    ServerOf <- OneServer
    NoEntry = NoEntry
    MaxSessions = 2
    Stdio = FALSE
    Faults = {"init_fails"}
SYMMETRY Swap
INVARIANT OpHasBudget
