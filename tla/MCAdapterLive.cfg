\* Liveness when loads and operations stall, and operations fail.  The shutdowns are
\* answered.
SPECIFICATION FairSpec
CONSTANTS
    c1 = c1
    c2 = c2
    s1 = s1
    s2 = s2
    b1 = b1
    b2 = b2
    Callers = {c1, c2}
    Sessions = {s1}
    SessionOf <- OneSession
    Budgets = {b1}
    NoBudget = NoBudget
    Imported = Imported
    DefaultBudget = b1
    ServerOf <- OneServer
    NoEntry = NoEntry
    MaxSessions = 1
    Stdio = FALSE
    Faults = {"load_stalls", "op_fails", "op_stalls"}
PROPERTY EveryCallReturns
