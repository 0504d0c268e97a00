SPECIFICATION Spec
CONSTANTS
  None = None
  b1 = b1  b2 = b2
  a1 = a1  a2 = a2  a3 = a3
  p1 = p1  p2 = p2
  c1 = c1  c2 = c2
  g1 = g1  g2 = g2
  k1 = k1
  Budgets = {b1}
  Accounts = {a1, a2}
  Payees = {p1, p2}
  Categories = {c1, c2}
  Groups = {g1, g2}
  AccountGroups = {k1}
  GroupOf <- GroupOfAll
  Initially <- OneBudget
  Joined = k1
  Holder = a1
  MaxTxn = 3
  Amounts = {1, 2}
  MaxOps = 3
INVARIANTS TypeOK ListingFresh NoPhantom TransactionsSound
PROPERTIES SuccessIsReal RefusalIsReal
CHECK_DEADLOCK FALSE
