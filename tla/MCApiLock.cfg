\* Enough callers for a waiter in the second place to be skipped by a third one.
SPECIFICATION FairSpec
CONSTANTS
    Callers = {c1, c2, c3, c4}
    Budgets = {b1, b2}
    NoBudget = NoBudget
    MaxSkips = 1
INVARIANT BoundedOvertaking
INVARIANT BarrierNeverOvertaken
PROPERTY SameBudgetInOrder
PROPERTY NoStarvation
PROPERTY ImplementsMutex
