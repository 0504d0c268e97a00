\* Two servers, no load, init or timed shutdown failing: own budget.
SPECIFICATION Spec
CONSTANTS
    c1 = c1
    c2 = c2
    s1 = s1
    s2 = s2
    b1 = b1
    b2 = b2
    Callers = {c1, c2}
    Sessions = {s1, s2}
    SessionOf <- OnePerSession
    Budgets = {b1, b2}
    NoBudget = NoBudget
    Imported = Imported
    DefaultBudget = b1
    ServerOf <- TwoServers
    NoEntry = NoEntry
    MaxSessions = 2
    Stdio = FALSE
    Faults = {"op_fails", "op_stalls", "shutdown_fails"}
SYMMETRY Swap
INVARIANT OpHasBudget
