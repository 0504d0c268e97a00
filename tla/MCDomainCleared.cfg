SPECIFICATION DomainSpec
CONSTANTS
  Watched = {"train", "drift"}
  MaxNews = 3
  Issues = {1, 2, 3}
  MaxTrains = 3
  MaxHands = 2
  Banked = {"a1", "a2"}
  Called <- MCCalled
  Syncs = {"y1", "y2"}
  Settle = 2
  OpBound = 3
  Latency = 1
  Files = {"f1", "f2"}
  LoginRetries = 2
  OpRetries = 1
  AfterUses = 1
  ProbeAttempts = 2
  Slots = 2
  MaxTalks = 5
  MaxTurns = 2
  Bills <- MCBills
  Lateness = {0, 2}
  Looks <- MCLooks
  LookBack = 18
  MinOccurrences = 3
  MaxPayments = 4
  LastDay = 900
  c1 = c1
  c2 = c2
  ghost = ghost
  p1 = p1
  n1 = n1
  k1 = k1
  s1 = s1
  s2 = s2
  t1 = t1
  w1 = w1
  w2 = w2
  nothing = nothing
  nil = nil
  Banks = {"cash", "card"}
  OffBudget = {"card"}
  ClosedBanks = {}
  Heads = {"food", "pay"}
  IncomeHeads = {"pay"}
  Shops = {"shop"}
  Days = {1, 2}
  Coins <- MCCoins
  MaxRecords = 2
  Nil = nil
  Months = {1, 2}
  Cells = {c1, c2}
  Ghost = ghost
  Sums = {1, 2}
  Funds <- MCFunds
  Batches <- MCBatches
  MaxAttempts = 2
  MaxCalls = 3
  Nothing = nothing
  RulePayees = {p1}
  OtherTests = {n1}
  Targets = {k1}
  ScheduleIds = {s1, s2}
  TagIds = {t1}
  TagWords = {w1, w2}
  MaxRules = 3
  MaxRuleOps = 2
  Retries = 2
  FirstRule <- MCFirstRule
  Unset = nothing
  Subjects = {"alice"}
  Names = {"anna", "mary"}
  Budgets = {"b0", "b1"}
  FirstBudget = "b0"
  AclSessions = {"c1", "c2"}
  OwnerOf <- MCOwner
  Flights = {"r1", "r2"}
  NoName = "noname"
  NoBudget = "nobudget"
  Nobody = "nobody"
  CacheTtl = 2
  MaxFetch = 1
  MaxRead = 1
  MaxEvents = 3
PROPERTY ClearedIsClear
CHECK_DEADLOCK FALSE
