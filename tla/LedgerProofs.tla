---------------------------- MODULE LedgerProofs -----------------------------
(***************************************************************************)
(* The tables of a budget stay sound whatever operations a drain runs, for *)
(* any number of accounts, payees, categories, groups and transactions: a  *)
(* listing kept in the drain is never stale, no row appears that nobody    *)
(* created, no transaction is left without its account, and what an answer *)
(* says of the tables is so.  And the reports over a ledger add up,        *)
(* whatever it holds (Insight): the second half of this module.            *)
(***************************************************************************)
EXTENDS Ledger, Insight, SequenceFacts, FiniteSetTheorems, TLAPS

USE LedgerAssumption

-----------------------------------------------------------------------------
(* The invariant                                                           *)

\* What NoPhantom and TransactionsSound say of one budget.
Created(t) == \A i \in Entities : Live(t, i) => i \in t.made
TxnOK(t, r) ==
    r # None => /\ "account" \notin r.unchecked => Live(t, r.account)
                /\ "amount" \notin r.unchecked => r.kids \in {None, r.amount}
Sound(t) ==
    /\ t \in Tables /\ Created(t)
    /\ \A x \in Txns : TxnOK(t, t.txn[x])

LedgerInv ==
    /\ DOMAIN db = Budgets /\ \A b \in Budgets : Sound(db[b])
    /\ ListingFresh

-----------------------------------------------------------------------------
(* The operations of the library keep the tables sound                     *)

LEMMA EntitiesOf ==
    /\ Accounts \subseteq Entities /\ Payees \subseteq Entities
    /\ Categories \subseteq Entities /\ Groups \subseteq Entities
    /\ \A a \in Accounts : TransferPayee(a) \in Entities
    /\ Ids["accounts"] = Accounts /\ Ids["categories"] = Categories
    /\ Ids["categoryGroups"] = Groups
    /\ Ids["payees"] = Payees \cup {TransferPayee(a) : a \in Accounts}
    /\ \A k \in Kinds : Ids[k] \subseteq Entities
  BY DEF Entities, Kinds, Ids

(* A change of columns that no property reads.                             *)
LEMMA Elsewhere ==
    ASSUME NEW t, NEW u, Sound(t), u \in Tables,
           u.row = t.row, u.made = t.made, u.txn = t.txn
    PROVE  Sound(u)
<1>1. \A i : Live(u, i) <=> Live(t, i)
  BY DEF Live
<1>2. Sound(u)
  BY <1>1 DEF Sound, Created, TxnOK
<1> QED
  BY <1>2 DEF Sound

(* An insert makes the row it shows.                                       *)
LEMMA InsertSound ==
    ASSUME NEW t, Sound(t), NEW i \in Entities
    PROVE  /\ Sound(Insert(t, i))
           /\ \A k \in Kinds : i \notin Accounts /\ i \notin Ids[k]
                  => List(Insert(t, i), k) = List(t, k)
<1> DEFINE new == IF i \in Accounts THEN {i, TransferPayee(i)} ELSE {i}
           row == [j \in Entities |-> IF j \in new THEN "live" ELSE t.row[j]]
           u == [t EXCEPT !.row = row, !.made = @ \cup new]
<1>1. Sound(t)
  OBVIOUS
<1>2. Insert(t, i) = u
  BY DEF Insert
<1>3. new \subseteq Entities
  BY EntitiesOf
<1> HIDE DEF new
<1>4. t \in Tables
  BY <1>1 DEF Sound
<1>5. row \in [Entities -> {"absent", "live", "dead"}]
  BY <1>4 DEF Tables
<1> HIDE DEF row
<1>6. u \in Tables
  BY <1>3, <1>4, <1>5 DEF Tables
<1>7. /\ u.row = row /\ u.made = t.made \cup new /\ u.txn = t.txn
      /\ u.closed = t.closed /\ u.named = t.named /\ u.link = t.link /\ u.memberOf = t.memberOf
  BY <1>4 DEF Tables
<1> HIDE DEF u
<1>8. \A j \in Entities : Live(u, j) <=> (j \in new \/ Live(t, j))
  BY <1>7 DEF Live, row
<1>9. Created(u)
  BY <1>1, <1>7, <1>8 DEF Sound, Created
<1>10. \A x \in Txns : TxnOK(u, u.txn[x])
  <2>1. \A x \in Txns : t.txn[x] # None => t.txn[x].account \in Entities
    BY <1>4, EntitiesOf DEF Tables, Txn
  <2> QED
    BY <1>1, <1>7, <1>8, <2>1 DEF Sound, TxnOK
<1>11. Sound(u)
  BY <1>6, <1>9, <1>10 DEF Sound
<1>12. ASSUME NEW k \in Kinds, i \notin Accounts, i \notin Ids[k]
       PROVE  List(u, k) = List(t, k)
  <2>1. \A j \in Ids[k] : j \notin new /\ j \in Entities
    BY <1>12, EntitiesOf DEF new
  <2>2. \A j \in Ids[k] : Live(u, j) <=> Live(t, j)
    BY <1>8, <2>1
  <2> QED
    BY <1>7, <2>2 DEF List
<1> QED
  BY <1>2, <1>11, <1>12

(* An update of a row that is there names it and inserts nothing.          *)
LEMMA PutSound ==
    ASSUME NEW t, Sound(t), NEW i \in Entities, Live(t, i)
    PROVE  /\ Put(t, i) \in Tables
           /\ Put(t, i).row = t.row /\ Put(t, i).made = t.made /\ Put(t, i).txn = t.txn
<1> DEFINE row == [t.row EXCEPT ![i] = IF @ = "absent" THEN "live" ELSE @]
           named == t.named \cup (IF i \in Accounts THEN {i, TransferPayee(i)} ELSE {i})
           u == [t EXCEPT !.row = row, !.named = named]
<1>1. t \in Tables
  BY DEF Sound
<1>2. row = t.row
  BY <1>1 DEF Tables, Live
<1>3. named \subseteq Entities
  BY <1>1, EntitiesOf DEF Tables
<1>4. Put(t, i) = u
  BY <1>1 DEF Put, Tables
<1>5. row \in [Entities -> {"absent", "live", "dead"}]
  BY <1>1, <1>2 DEF Tables
<1> HIDE DEF row, named
<1>6. u \in Tables /\ u.row = row /\ u.made = t.made /\ u.txn = t.txn
  BY <1>1, <1>3, <1>5 DEF Tables
<1> QED
  BY <1>2, <1>4, <1>6

(* Rows that die leave no transaction behind if no account among them has  *)
(* one.                                                                    *)
LEMMA TombstoneSound ==
    ASSUME NEW t, Sound(t), NEW D, \A a \in D \cap Accounts : TxnsOf(t, a) = {}
    PROVE  Sound(Tombstone(t, D))
<1> DEFINE row == [j \in Entities |-> IF j \in D /\ Live(t, j) THEN "dead" ELSE t.row[j]]
           u == [t EXCEPT !.row = row]
<1>1. Sound(t)
  OBVIOUS
<1>2. t \in Tables /\ Tombstone(t, D) = u
  BY <1>1 DEF Sound, Tombstone
<1>3. row \in [Entities -> {"absent", "live", "dead"}]
  BY <1>2 DEF Tables
<1> HIDE DEF row
<1>4. u \in Tables /\ u.row = row /\ u.made = t.made /\ u.txn = t.txn
  BY <1>2, <1>3 DEF Tables
<1> HIDE DEF u
<1>5. \A j \in Entities : Live(u, j) <=> (Live(t, j) /\ j \notin D)
  BY <1>4 DEF Live, row
<1>6. \A x \in Txns : t.txn[x] # None => t.txn[x].account \in Accounts \ D
  <2>1. \A x \in Txns : t.txn[x] # None => t.txn[x].account \in Accounts
    BY <1>2 DEF Tables, Txn
  <2>2. \A x \in Txns : t.txn[x] # None => x \in TxnsOf(t, t.txn[x].account)
    BY DEF TxnsOf
  <2> QED
    BY <2>1, <2>2
<1>7. Sound(u)
  <2>1. Created(u)
    BY <1>1, <1>4, <1>5 DEF Sound, Created
  <2>2. \A x \in Txns : TxnOK(u, u.txn[x])
    BY <1>1, <1>4, <1>5, <1>6, EntitiesOf DEF Sound, TxnOK
  <2> QED
    BY <1>4, <2>1, <2>2 DEF Sound
<1> QED
  BY <1>2, <1>7 DEF Sound

(* Transactions: the rows of the other tables do not move.                 *)
LEMMA TxnsSound ==
    ASSUME NEW t, Sound(t), NEW D \in SUBSET Txns,
           NEW f \in [Txns -> Txn \cup {None}], \A x \in Txns : TxnOK(t, f[x])
    PROVE  Sound([t EXCEPT !.txn = f, !.dropped = D])
<1> DEFINE u == [t EXCEPT !.txn = f, !.dropped = D]
<1>1. t \in Tables
  BY DEF Sound
<1>2. u \in Tables /\ u.txn = f /\ u.row = t.row /\ u.made = t.made
  BY <1>1 DEF Tables
<1> HIDE DEF u
<1>3. \A i : Live(u, i) <=> Live(t, i)
  BY <1>2 DEF Live
<1>4. Sound(u)
  BY <1>2, <1>3 DEF Sound, Created, TxnOK
<1> QED
  BY <1>4 DEF Sound, u

(* A transaction that is added belongs to an account that exists, and its  *)
(* children sum to its amount.                                             *)
LEMMA AddTxnSound ==
    ASSUME NEW t, Sound(t), NEW r \in Txn, Live(t, r.account), r.kids \in {None, r.amount}
    PROVE  Sound(AddTxn(t, r))
<1> DEFINE f == [t.txn EXCEPT ![Min(Unused(t))] = r]
<1>1. t \in Tables /\ \A x \in Txns : TxnOK(t, t.txn[x])
  BY DEF Sound
<1>2. f \in [Txns -> Txn \cup {None}] /\ t.dropped \in SUBSET Txns
  BY <1>1 DEF Tables
<1>3. \A x \in Txns : f[x] = r \/ f[x] = t.txn[x]
  BY <1>1 DEF Tables
<1>4. TxnOK(t, r)
  BY DEF TxnOK
<1>5. \A x \in Txns : TxnOK(t, f[x])
  BY <1>1, <1>3, <1>4
<1>6. AddTxn(t, r) = [t EXCEPT !.txn = f, !.dropped = t.dropped]
  BY <1>1 DEF AddTxn, Tables
<1> HIDE DEF f
<1>7. Sound([t EXCEPT !.txn = f, !.dropped = t.dropped])
  BY <1>2, <1>5, TxnsSound
<1> QED
  BY <1>6, <1>7

LEMMA AmountsInt == \A n \in Amounts : n \in Int
  OBVIOUS

\* What transactions_create adds.
Added(a, n, k) == [Txn0(a, n) EXCEPT !.kids = k]

LEMMA NewTxn ==
    ASSUME NEW a \in Accounts, NEW n \in Int
    PROVE  Txn0(a, n) \in Txn /\ Txn0(a, n).account = a /\ Txn0(a, n).kids = None
<1>1. Txn0(a, n) = [account |-> a, amount |-> n, kids |-> None, peer |-> None, unchecked |-> {}]
  BY DEF Txn0
<1> QED
  BY <1>1 DEF Txn

LEMMA AddedTxn ==
    ASSUME NEW a \in Accounts, NEW n, NEW k, n \in Int, k \in Int \cup {None}
    PROVE  /\ Added(a, n, k).account = a /\ Added(a, n, k).amount = n
           /\ Added(a, n, k).kids = k
           /\ Added(a, n, k) \in Txn
<1>1. Txn0(a, n) = [account |-> a, amount |-> n, kids |-> None, peer |-> None, unchecked |-> {}]
  BY DEF Txn0
<1> QED
  BY <1>1 DEF Txn, Added

LEMMA TxnsFinite == IsFiniteSet(Txns)
<1>1. 1 \in Int /\ MaxTxn \in Int
  OBVIOUS
<1> QED
  BY <1>1, FS_Interval DEF Txns

(* There is room for the two sides of a transfer.                          *)
LEMMA TwoUnused ==
    ASSUME NEW t, t \in Tables, Cardinality(Unused(t)) >= 2
    PROVE  /\ Min(Unused(t)) \in Unused(t)
           /\ Min(Unused(t) \ {Min(Unused(t))}) \in Unused(t) \ {Min(Unused(t))}
<1> DEFINE U == Unused(t)
<1>1. U \subseteq Nat /\ U \in SUBSET Txns
  BY DEF Unused, Txns
<1>2. IsFiniteSet(U)
  BY <1>1, TxnsFinite, FS_Subset
<1> HIDE DEF U
<1>3. Cardinality(U) >= 2
  BY DEF U
<1>4. U # {}
  <2>1. Cardinality({}) = 0
    BY FS_EmptySet
  <2> QED
    BY <1>3, <2>1
<1>5. Min(U) \in U
  BY <1>1, <1>4, LeastIsOne
<1> DEFINE V == U \ {Min(U)}
<1>6. V # {}
  <2>1. Cardinality(V) = Cardinality(U) - 1
    BY <1>2, <1>5, FS_RemoveElement
  <2>2. Cardinality(U) \in Nat
    BY <1>2, FS_CardinalityType
  <2>3. Cardinality({}) = 0
    BY FS_EmptySet
  <2> HIDE DEF V
  <2>4. Cardinality(V) # 0
    BY <1>3, <2>1, <2>2
  <2> QED
    BY <2>3, <2>4
<1>7. V \subseteq Nat
  BY <1>1
<1> HIDE DEF V
<1>8. Min(V) \in V
  BY <1>6, <1>7, LeastIsOne
<1> QED
  BY <1>5, <1>8 DEF U, V

(* A balance is a sum.                                                     *)
LEMMA BalanceTyped ==
    ASSUME NEW t \in Tables, NEW a
    PROVE  Balance(t, a) \in Int
<1> DEFINE X == TxnsOf(t, a)
           f == [x \in X |-> t.txn[x].amount]
<1>1. X \in SUBSET Txns /\ \A x \in X : t.txn[x] \in Txn
  BY DEF TxnsOf, Tables
<1>2. IsFiniteSet(X)
  BY <1>1, TxnsFinite, FS_Subset
<1>5. \A x \in X : f[x] \in Int
  BY <1>1 DEF Txn
<1>3. DOMAIN f = X
  OBVIOUS
<1>4. Balance(t, a) = SumFunctionOnSet(f, X)
  BY <1>3 DEF Balance, SumFunction
<1> HIDE DEF f, X
<1> QED
  BY <1>2, <1>4, <1>5, SumFolds

(* Both sides of a transfer belong to accounts that exist.                 *)
LEMMA AddTransferSound ==
    ASSUME NEW t, Sound(t), NEW from \in Accounts, NEW to \in Accounts, Live(t, from), Live(t, to),
           NEW n \in Int, Cardinality(Unused(t)) >= 2
    PROVE  /\ Sound(AddTransfer(t, from, to, n))
           /\ AddTransfer(t, from, to, n).row = t.row
           /\ AddTransfer(t, from, to, n).closed = t.closed
<1> DEFINE x == Min(Unused(t))
           y == Min(Unused(t) \ {x})
           r1 == [Txn0(from, -n) EXCEPT !.peer = y]
           r2 == [Txn0(to, n) EXCEPT !.peer = x]
           f == [t.txn EXCEPT ![x] = r1, ![y] = r2]
<1>1. t \in Tables /\ \A z \in Txns : TxnOK(t, t.txn[z])
  BY DEF Sound
<1>2. x \in Txns /\ y \in Txns
  BY <1>1, TwoUnused DEF Unused
<1>3. AddTransfer(t, from, to, n) = [t EXCEPT !.txn = f, !.dropped = t.dropped]
  <2>1. AddTransfer(t, from, to, n) = [t EXCEPT !.txn[x] = r1, !.txn[y] = r2]
    BY DEF AddTransfer
  <2> HIDE DEF x, y, r1, r2
  <2>2. [t EXCEPT !.txn[x] = r1, !.txn[y] = r2] = [t EXCEPT !.txn = f]
    BY <1>1 DEF Tables
  <2> QED
    BY <1>1, <2>1, <2>2 DEF Tables
<1> HIDE DEF x, y
<1>4. /\ r1 \in Txn /\ r1.account = from /\ r1.kids = None /\ r1.unchecked = {}
      /\ r2 \in Txn /\ r2.account = to /\ r2.kids = None /\ r2.unchecked = {}
  <2>1. \A a, m : Txn0(a, m) = [account |-> a, amount |-> m, kids |-> None, peer |-> None,
                               unchecked |-> {}]
    BY DEF Txn0
  <2>2. -n \in Int
    OBVIOUS
  <2> QED
    BY <1>2, <2>1, <2>2 DEF Txn
<1> HIDE DEF r1, r2
<1>5. f \in [Txns -> Txn \cup {None}] /\ t.dropped \in SUBSET Txns
  BY <1>1, <1>4 DEF Tables
<1>6. \A z \in Txns : f[z] \in {r1, r2, t.txn[z]}
  BY <1>1 DEF Tables
<1>7. TxnOK(t, r1) /\ TxnOK(t, r2)
  BY <1>4 DEF TxnOK
<1>8. \A z \in Txns : TxnOK(t, f[z])
  BY <1>1, <1>6, <1>7
<1> HIDE DEF f
<1>9. Sound([t EXCEPT !.txn = f, !.dropped = t.dropped])
  BY <1>5, <1>8, TxnsSound
<1>10. AddTransfer(t, from, to, n).row = t.row /\ AddTransfer(t, from, to, n).closed = t.closed
  BY <1>1, <1>3 DEF Tables
<1> QED
  BY <1>3, <1>9, <1>10

(* What goes takes its links with it.                                      *)
LEMMA DropTxnsSound ==
    ASSUME NEW t, Sound(t), NEW D \in SUBSET Txns
    PROVE  Sound(DropTxns(t, D))
<1>1. Sound(t)
  OBVIOUS
<1> DEFINE drop(r) == [r EXCEPT !.peer = IF @ \in D THEN None ELSE @]
           f == [x \in Txns |-> IF x \in D \/ t.txn[x] = None THEN None ELSE drop(t.txn[x])]
<1>2. t \in Tables
  BY <1>1 DEF Sound
<1>3. \A r \in Txn : /\ drop(r) \in Txn /\ drop(r).account = r.account
                            /\ drop(r).amount = r.amount /\ drop(r).kids = r.kids
                            /\ drop(r).unchecked = r.unchecked
  BY DEF Txn
<1>4. DropTxns(t, D) = [t EXCEPT !.txn = f, !.dropped = t.dropped \cup D]
  BY DEF DropTxns
<1>5. \A x \in Txns : t.txn[x] \in Txn \cup {None}
  BY <1>2 DEF Tables
<1> HIDE DEF drop
<1>6. f \in [Txns -> Txn \cup {None}] /\ t.dropped \cup D \in SUBSET Txns
  BY <1>2, <1>3, <1>5 DEF Tables
<1>7. ASSUME NEW x \in Txns PROVE TxnOK(t, f[x])
  <2>1. CASE f[x] = None
    BY <2>1 DEF TxnOK
  <2>2. CASE f[x] # None
    <3>1. t.txn[x] \in Txn /\ t.txn[x] # None /\ f[x] = drop(t.txn[x])
      BY <1>5, <2>2
    <3>2. TxnOK(t, t.txn[x])
      BY <1>1 DEF Sound
    <3> HIDE DEF f
    <3> QED
      BY <1>3, <3>1, <3>2 DEF TxnOK
  <2> QED
    BY <2>1, <2>2
<1> HIDE DEF f
<1> DEFINE E == t.dropped \cup D
<1> HIDE DEF E
<1>8. E \in SUBSET Txns
  BY <1>6 DEF E
<1>9. Sound([t EXCEPT !.txn = f, !.dropped = E])
  BY <1>1, <1>6, <1>7, <1>8, TxnsSound
<1> QED
  BY <1>4, <1>9 DEF E

-----------------------------------------------------------------------------
(* What every operation does                                               *)

(* A listing that a guard reads shows the budget as it is.                 *)
LEMMA ReadFresh ==
    ASSUME LedgerInv, NEW b \in Budgets, NEW k \in Kinds
    PROVE  /\ Read(b, k) = List(db[b], k)
           /\ Read(b, k).live = {i \in Ids[k] : Live(db[b], i)}
           /\ k = "accounts" => Read(b, k).closed = db[b].closed
<1>1. Read(b, k) = List(db[b], k)
  BY DEF Read, LedgerInv, ListingFresh
<1> QED
  BY <1>1 DEF List

LEMMA WritesOnce ==
    ASSUME NEW b, NEW t, NEW o, Writes(b, t, o)
    PROVE  UNCHANGED db \/ Now(b, t)
  BY DEF Writes, Throws

LEMMA RefusesNothing == Refuses => UNCHANGED db
  BY DEF Refuses

LEMMA DbSound ==
    ASSUME LedgerInv, NEW b \in Budgets, NEW t, Sound(t), UNCHANGED db \/ Now(b, t)
    PROVE  DOMAIN db' = Budgets /\ \A c \in Budgets : Sound(db'[c])
<1>1. CASE UNCHANGED db
  BY <1>1 DEF LedgerInv
<1>2. CASE Now(b, t)
  BY <1>2 DEF Now, LedgerInv
<1> QED
  BY <1>1, <1>2

(* An operation that keeps no listing leaves none to be stale.             *)
LEMMA DropsAll ==
    ASSUME LedgerInv, NEW b \in Budgets, NEW tool, NEW in, NEW reads,
           Runs(tool, b, in, reads, {}),
           NEW t, Sound(t), UNCHANGED db \/ Now(b, t)
    PROVE  LedgerInv'
<1>1. \A k \in Kinds : cache'[k] = None
  BY DEF Runs, Drop
<1>2. ListingFresh'
  BY <1>1 DEF ListingFresh
<1> QED
  BY <1>2, DbSound DEF LedgerInv

(* One that keeps some has to leave them as they were.                     *)
LEMMA KeepsSome ==
    ASSUME LedgerInv, NEW b, Budgets = {b}, NEW tool, NEW in, NEW reads, NEW keeps,
           Runs(tool, b, in, reads, keeps),
           NEW t, Sound(t), UNCHANGED db \/ Now(b, t),
           \A k \in keeps : k \in Kinds => List(t, k) = List(db[b], k)
    PROVE  LedgerInv'
<1>1. \A k \in Kinds : k \in keeps => List(db'[b], k) = List(db[b], k)
  BY DEF Now, LedgerInv
<1>2. \A k \in Kinds : \/ cache'[k] = None
                       \/ k \in keeps /\ cache'[k] = Read(b, k)
                       \/ k \in keeps /\ cache'[k] = cache[k]
  BY DEF Runs, Drop
<1>3. ListingFresh'
  <2>1. \A k \in Kinds : cache'[k] # None => cache'[k] = List(db[b], k) /\ k \in keeps
    BY <1>2, ReadFresh DEF LedgerInv, ListingFresh
  <2>2. \A k \in Kinds : cache'[k] # None => cache'[k] = List(db'[b], k)
    BY <1>1, <2>1
  <2> QED
    BY <2>2 DEF ListingFresh
<1> QED
  BY <1>3, DbSound DEF LedgerInv

(* A column that no property reads may be set in any way.                  *)
LEMMA Named ==
    ASSUME NEW t, Sound(t), NEW i \in Entities, Live(t, i)
    PROVE  /\ Sound(Put(t, i))
           /\ Put(t, i) \in Tables
           /\ Put(t, i).row = t.row /\ Put(t, i).made = t.made /\ Put(t, i).txn = t.txn
<1>1. Sound(t)
  OBVIOUS
<1> QED
  BY <1>1, PutSound, Elsewhere

\* u and v differ in columns that no property reads.
Alike(u, v) == v \in Tables /\ v.row = u.row /\ v.made = u.made /\ v.txn = u.txn

LEMMA Columns ==
    ASSUME NEW u \in Tables
    PROVE  /\ \A c \in SUBSET Accounts : Alike(u, [u EXCEPT !.closed = c])
           /\ \A g \in SUBSET AccountGroups : Alike(u, [u EXCEPT !.agroups = g])
           /\ \A m \in [Accounts -> AccountGroups \cup {None}], g \in SUBSET AccountGroups :
                  Alike(u, [u EXCEPT !.memberOf = m, !.agroups = g])
           /\ \A l \in [Payees -> Accounts \cup {None}] : Alike(u, [u EXCEPT !.link = l])
           /\ \A h \in [Categories -> Groups] : Alike(u, [u EXCEPT !.home = h])
           /\ \A n \in SUBSET Entities : Alike(u, [u EXCEPT !.notes = n])
  BY DEF Tables, Alike

(* An update of a live row with some of its columns.                       *)
LEMMA PutAlike ==
    ASSUME NEW t, Sound(t), NEW i \in Entities, Live(t, i), NEW v,
           Put(t, i) \in Tables => Alike(Put(t, i), v)
    PROVE  Sound(v)
<1>1. Sound(t) /\ Put(t, i) \in Tables
  BY Named
<1>2. Put(t, i).row = t.row /\ Put(t, i).made = t.made /\ Put(t, i).txn = t.txn
  BY Named
<1>3. Alike(Put(t, i), v)
  BY <1>1
<1> QED
  BY <1>1, <1>2, <1>3, Elsewhere DEF Alike

-----------------------------------------------------------------------------
(* Accounts                                                                *)

LEMMA CreateAccountOK ==
    ASSUME LedgerInv, NEW b \in Budgets, CreateAccount(b)
    PROVE  LedgerInv'
<1>1. PICK a \in Accounts : /\ Runs("accounts_create", b, [id |-> a], {}, {})
                            /\ Writes(b, Insert(db[b], a), "done")
  BY DEF CreateAccount
<1>2. Sound(Insert(db[b], a))
  BY InsertSound, EntitiesOf DEF LedgerInv
<1> QED
  BY <1>1, <1>2, WritesOnce, DropsAll

LEMMA UpdateAccountOK ==
    ASSUME LedgerInv, NEW b \in Budgets, UpdateAccount(b)
    PROVE  LedgerInv'
<1> DEFINE after(in) == SetClosed(Put(db[b], in.id), in)
<1>1. PICK in \in AccountUpdates :
          /\ Runs("accounts_update", b, [id |-> in.id], {"accounts"}, {})
          /\ IF in.id \in Read(b, "accounts").live THEN Writes(b, after(in), "done") ELSE Refuses
  BY DEF UpdateAccount
<1>2. Sound(db[b])
  BY DEF LedgerInv
<1>3. CASE in.id \in Read(b, "accounts").live
  <2>1. in.id \in Accounts /\ in.id \in Entities /\ Live(db[b], in.id)
    BY <1>3, ReadFresh, EntitiesOf DEF Kinds
  <2> DEFINE u == Put(db[b], in.id)
             closed == IF in.closed = None THEN u.closed
                       ELSE IF in.closed THEN u.closed \cup {in.id} ELSE u.closed \ {in.id}
  <2>2. after(in) = [u EXCEPT !.closed = closed]
    BY DEF SetClosed
  <2> HIDE DEF u
  <2>3. ASSUME u \in Tables PROVE Alike(u, after(in))
    <3>1. closed \in SUBSET Accounts
      BY <2>1, <2>3 DEF Tables
    <3> HIDE DEF closed, after
    <3>2. Alike(u, [u EXCEPT !.closed = closed])
      BY <2>3, <3>1, Columns
    <3> QED
      BY <2>2, <3>2
  <2>4. Sound(after(in))
    BY <1>2, <2>1, <2>3, PutAlike DEF u
  <2> HIDE DEF after
  <2> QED
    BY <1>1, <1>3, <2>4, WritesOnce, DropsAll
<1>4. CASE in.id \notin Read(b, "accounts").live
  BY <1>1, <1>2, <1>4, RefusesNothing, DropsAll
<1> QED
  BY <1>3, <1>4

LEMMA RawDeleteSound ==
    ASSUME NEW t, Sound(t), NEW a \in Accounts
    PROVE  Sound(RawDelete(t, a))
<1>1. CASE ~Live(t, a) \/ a \in t.closed
  BY <1>1 DEF RawDelete
<1>2. CASE Live(t, a) /\ a \notin t.closed
  <2> DEFINE D == TxnsOf(t, a)
             u == DropTxns(t, D)
  <2>1. D \in SUBSET Txns
    BY DEF TxnsOf
  <2>2. Sound(u)
    BY <2>1, DropTxnsSound
  <2>3. TxnsOf(u, a) = {}
    <3> DEFINE unlinked(r) == [r EXCEPT !.peer = IF @ \in D THEN None ELSE @]
    <3>1. t \in Tables
      BY DEF Sound
    <3>2. u.txn = [x \in Txns |-> IF x \in D \/ t.txn[x] = None THEN None
                                  ELSE unlinked(t.txn[x])]
      BY <3>1 DEF DropTxns, Tables
    <3>3. \A r \in Txn : unlinked(r).account = r.account
      BY DEF Txn
    <3>4. \A x \in Txns : t.txn[x] \in Txn \cup {None}
      BY <3>1 DEF Tables
    <3>5. \A x \in Txns : x \notin D /\ t.txn[x] # None => t.txn[x].account # a
      BY DEF TxnsOf
    <3> HIDE DEF unlinked, D, u
    <3>6. \A x \in Txns : u.txn[x] # None => u.txn[x].account # a
      BY <3>2, <3>3, <3>4, <3>5
    <3> QED
      BY <3>6 DEF TxnsOf
  <2>4. {a, TransferPayee(a)} \cap Accounts = {a}
    OBVIOUS
  <2> HIDE DEF u
  <2>5. Sound(Tombstone(u, {a, TransferPayee(a)}))
    BY <2>2, <2>3, <2>4, TombstoneSound
  <2> QED
    BY <1>2, <2>5 DEF RawDelete, u, D
<1> QED
  BY <1>1, <1>2

LEMMA DeleteAccountOK ==
    ASSUME LedgerInv, NEW b \in Budgets, DeleteAccount(b)
    PROVE  LedgerInv'
<1>1. PICK a \in Accounts : /\ Runs("accounts_delete", b, [id |-> a], {}, {})
                            /\ UNCHANGED db \/ Now(b, RawDelete(db[b], a))
  BY DEF DeleteAccount, Throws
<1>2. Sound(RawDelete(db[b], a))
  BY RawDeleteSound DEF LedgerInv
<1> QED
  BY <1>1, <1>2, DropsAll

(* A close that is not refused has an account to move the balance to, or   *)
(* none to move.                                                           *)
LEMMA CloseAccountOK ==
    ASSUME LedgerInv, NEW b \in Budgets, CloseAccount(b)
    PROVE  LedgerInv'
<1> DEFINE t == db[b]
           after(in) == RawClose(t, in.id, in.dest)
<1>1. PICK in \in CloseInputs :
          /\ Cardinality(Unused(t)) >= 2
          /\ Runs("accounts_close", b, [id |-> in.id], {"accounts", "categories"}, {})
          /\ \/ UNCHANGED db
             \/ /\ ~CloseRefused(b, in) /\ in.id \notin Read(b, "accounts").closed
                /\ ~BalanceStuck(t, in) /\ Now(b, after(in))
  BY DEF CloseAccount, Refuses, Writes, Throws
<1>2. Sound(t)
  BY DEF LedgerInv
<1>3. CASE UNCHANGED db
  BY <1>1, <1>2, <1>3, DropsAll
<1>4. CASE ~CloseRefused(b, in) /\ in.id \notin Read(b, "accounts").closed
           /\ ~BalanceStuck(t, in) /\ Now(b, after(in))
  <2>1. in.id \in Accounts /\ in.dest \in Accounts \cup {None}
    BY DEF CloseInputs
  <2>2. Live(t, in.id) /\ (in.dest # None => Live(t, in.dest))
    BY <1>4, ReadFresh DEF CloseRefused, Kinds
  <2>3. Sound(after(in))
    <3>1. CASE in.id \in t.closed
      BY <1>2, <3>1 DEF RawClose
    <3>2. CASE in.id \notin t.closed /\ TxnsOf(t, in.id) = {}
      <4>1. {in.id, TransferPayee(in.id)} \cap Accounts = {in.id}
        BY <2>1
      <4>2. Sound(Tombstone(t, {in.id, TransferPayee(in.id)}))
        BY <1>2, <3>2, <4>1, TombstoneSound
      <4> QED
        BY <2>2, <3>2, <4>2 DEF RawClose
    <3>3. CASE in.id \notin t.closed /\ TxnsOf(t, in.id) # {}
      <4> DEFINE moved == IF Balance(t, in.id) = 0 THEN t
                          ELSE AddTransfer(t, in.id, in.dest, Balance(t, in.id))
      <4>1. Balance(t, in.id) # 0 => in.dest \in Accounts /\ Live(t, in.dest)
        BY <1>4, <2>1, <2>2, <3>3 DEF BalanceStuck
      <4>2. Sound(moved)
        <5>1. Balance(t, in.id) \in Int
          BY <1>2, BalanceTyped DEF Sound
        <5> QED
          BY <1>1, <1>2, <2>1, <2>2, <4>1, <5>1, AddTransferSound
      <4> HIDE DEF moved
      <4>3. Sound(moved)
        BY <4>2
      <4> DEFINE closed == moved.closed \cup {in.id}
                 v == [moved EXCEPT !.closed = closed]
      <4>4. moved \in Tables /\ closed \in SUBSET Accounts
        BY <2>1, <4>3 DEF Sound, Tables
      <4> HIDE DEF closed
      <4>5. Alike(moved, v)
        BY <4>4, Columns
      <4>6. Sound(v)
        BY <4>3, <4>5, Elsewhere DEF Alike
      <4>7. after(in) = v
        BY <2>2, <3>3 DEF RawClose, moved, closed
      <4> QED
        BY <4>6, <4>7
    <3> QED
      BY <3>1, <3>2, <3>3
  <2> HIDE DEF after
  <2> QED
    BY <1>1, <1>4, <2>3, DropsAll
<1> QED
  BY <1>1, <1>3, <1>4

LEMMA ReopenAccountOK ==
    ASSUME LedgerInv, NEW b \in Budgets, ReopenAccount(b)
    PROVE  LedgerInv'
<1> DEFINE u(a) == Put(db[b], a)
           after(a) == [u(a) EXCEPT !.closed = @ \ {a}]
<1>1. PICK a \in Accounts :
          /\ Runs("accounts_reopen", b, [id |-> a], {"accounts"}, {})
          /\ \/ UNCHANGED db
             \/ a \in Read(b, "accounts").live /\ Now(b, after(a))
  BY DEF ReopenAccount, Refuses, Writes, Throws
<1>2. Sound(db[b])
  BY DEF LedgerInv
<1>3. CASE UNCHANGED db
  BY <1>1, <1>2, <1>3, DropsAll
<1>4. CASE a \in Read(b, "accounts").live /\ Now(b, after(a))
  <2>1. a \in Entities /\ Live(db[b], a)
    BY <1>4, ReadFresh, EntitiesOf DEF Kinds
  <2>2. ASSUME u(a) \in Tables PROVE Alike(u(a), after(a))
    <3> DEFINE closed == u(a).closed \ {a}
    <3>1. closed \in SUBSET Accounts /\ after(a) = [u(a) EXCEPT !.closed = closed]
      BY <2>2 DEF Tables
    <3> HIDE DEF closed, after, u
    <3>2. Alike(u(a), [u(a) EXCEPT !.closed = closed])
      BY <2>2, <3>1, Columns
    <3> QED
      BY <3>1, <3>2
  <2> HIDE DEF after
  <2>3. Sound(after(a))
    BY <1>2, <2>1, <2>2, PutAlike
  <2> QED
    BY <1>1, <1>4, <2>3, DropsAll
<1> QED
  BY <1>1, <1>3, <1>4

(* The account groups: the accounts listing shows the membership.          *)
LEMMA CreateAccountGroupOK ==
    ASSUME LedgerInv, NEW b, Budgets = {b}, CreateAccountGroup(b)
    PROVE  LedgerInv'
<1>1. PICK g \in AccountGroups :
          /\ Runs("account_groups_create", b, [id |-> g], {}, Kinds)
          /\ Writes(b, [db[b] EXCEPT !.agroups = @ \cup {g}], "done")
  BY DEF CreateAccountGroup
<1> DEFINE groups == db[b].agroups \cup {g}
           v == [db[b] EXCEPT !.agroups = groups]
<1>2. Sound(db[b])
  BY DEF LedgerInv
<1>3. db[b] \in Tables /\ groups \in SUBSET AccountGroups
  BY <1>2 DEF Sound, Tables
<1>4. v = [db[b] EXCEPT !.agroups = @ \cup {g}]
  OBVIOUS
<1> HIDE DEF groups
<1>5. Alike(db[b], v)
  BY <1>3, Columns
<1>6. Sound(v)
  <2> HIDE DEF v
  <2> QED
    BY <1>2, <1>5, Elsewhere DEF Alike
<1>7. \A k \in Kinds : List(v, k) = List(db[b], k)
  BY <1>3 DEF List, Live, Tables
<1> HIDE DEF v
<1>8. UNCHANGED db \/ Now(b, v)
  BY <1>1, <1>4, WritesOnce
<1> QED
  BY <1>1, <1>6, <1>7, <1>8, KeepsSome

LEMMA UpdateAccountGroupOK ==
    ASSUME LedgerInv, NEW b, Budgets = {b}, UpdateAccountGroup(b)
    PROVE  LedgerInv'
<1>1. PICK g \in AccountGroups :
          /\ Runs("account_groups_update", b, [id |-> g], {}, Kinds)
          /\ Writes(b, db[b], "done") \/ Refuses
  BY DEF UpdateAccountGroup
<1>2. Sound(db[b])
  BY DEF LedgerInv
<1>3. UNCHANGED db \/ Now(b, db[b])
  BY <1>1, WritesOnce, RefusesNothing
<1> QED
  BY <1>1, <1>2, <1>3, KeepsSome

LEMMA DeleteAccountGroupOK ==
    ASSUME LedgerInv, NEW b \in Budgets, DeleteAccountGroup(b)
    PROVE  LedgerInv'
<1>1. PICK g \in AccountGroups :
          /\ Runs("account_groups_delete", b, [id |-> g], {}, {})
          /\ Writes(b, RawDeleteAccountGroup(db[b], g), "done") \/ Refuses
  BY DEF DeleteAccountGroup
<1> DEFINE members == [a \in Accounts |-> IF db[b].memberOf[a] = g THEN None
                                          ELSE db[b].memberOf[a]]
           groups == db[b].agroups \ {g}
           v == [db[b] EXCEPT !.memberOf = members, !.agroups = groups]
<1>2. Sound(db[b])
  BY DEF LedgerInv
<1>3. /\ db[b] \in Tables /\ groups \in SUBSET AccountGroups
      /\ members \in [Accounts -> AccountGroups \cup {None}]
  BY <1>2 DEF Sound, Tables
<1>4. v = RawDeleteAccountGroup(db[b], g)
  BY DEF RawDeleteAccountGroup
<1> HIDE DEF groups, members
<1>5. Alike(db[b], v)
  BY <1>3, Columns
<1>6. Sound(v)
  <2> HIDE DEF v
  <2> QED
    BY <1>2, <1>5, Elsewhere DEF Alike
<1> HIDE DEF v
<1>7. Sound(db[b])
  BY <1>2 DEF Sound
<1>8. UNCHANGED db \/ Now(b, v)
  BY <1>1, <1>4, WritesOnce, RefusesNothing
<1> QED
  BY <1>1, <1>6, <1>8, DropsAll

-----------------------------------------------------------------------------
(* Payees, categories and groups                                           *)

LEMMA CreatePayeeOK ==
    ASSUME LedgerInv, NEW b \in Budgets, CreatePayee(b)
    PROVE  LedgerInv'
<1>1. PICK p \in Payees : /\ Runs("payees_create", b, [id |-> p], {}, {})
                          /\ Writes(b, Insert(db[b], p), "done")
  BY DEF CreatePayee
<1>2. Sound(Insert(db[b], p))
  BY InsertSound, EntitiesOf DEF LedgerInv
<1> QED
  BY <1>1, <1>2, WritesOnce, DropsAll

LEMMA UpdatePayeeOK ==
    ASSUME LedgerInv, NEW b \in Budgets, UpdatePayee(b)
    PROVE  LedgerInv'
<1> DEFINE u(in) == Put(db[b], in.id)
           link(in) == [p \in Payees |-> IF p = in.id /\ in.transfer_acct # None
                                         THEN in.transfer_acct ELSE u(in).link[p]]
           after(in) == [u(in) EXCEPT !.link = link(in)]
<1>1. PICK in \in PayeeUpdates :
          /\ Runs("payees_update", b, [id |-> in.id], {"payees"}, {})
          /\ IF in.id \in Read(b, "payees").live THEN Writes(b, after(in), "done") ELSE Refuses
  BY DEF UpdatePayee
<1>2. Sound(db[b])
  BY DEF LedgerInv
<1>3. CASE in.id \in Read(b, "payees").live
  <2>1. in.id \in Entities /\ Live(db[b], in.id) /\ in.transfer_acct \in Accounts \cup {None}
    BY <1>3, ReadFresh, EntitiesOf DEF Kinds, PayeeUpdates
  <2>2. ASSUME u(in) \in Tables PROVE Alike(u(in), after(in))
    <3>1. link(in) \in [Payees -> Accounts \cup {None}]
      BY <2>1, <2>2 DEF Tables
    <3> HIDE DEF link, u
    <3>2. Alike(u(in), [u(in) EXCEPT !.link = link(in)])
      BY <2>2, <3>1, Columns
    <3> QED
      BY <3>2
  <2> HIDE DEF after
  <2>3. Sound(after(in))
    BY <1>2, <2>1, <2>2, PutAlike
  <2> QED
    BY <1>1, <1>3, <2>3, WritesOnce, DropsAll
<1>4. CASE in.id \notin Read(b, "payees").live
  BY <1>1, <1>2, <1>4, RefusesNothing, DropsAll
<1> QED
  BY <1>3, <1>4

LEMMA DeletePayeeOK ==
    ASSUME LedgerInv, NEW b \in Budgets, DeletePayee(b)
    PROVE  LedgerInv'
<1>1. PICK p \in Ids.payees :
          /\ Runs("payees_delete", b, [id |-> p], {"payees"}, {})
          /\ UNCHANGED db \/ Now(b, db[b]) \/ Now(b, Tombstone(db[b], {p}))
  BY DEF DeletePayee, Refuses, Writes, Throws
<1>2. {p} \cap Accounts = {}
  BY DEF Ids
<1>3. Sound(db[b]) /\ Sound(Tombstone(db[b], {p}))
  BY <1>2, TombstoneSound DEF LedgerInv
<1> QED
  BY <1>1, <1>3, DropsAll

LEMMA MergePayeesOK ==
    ASSUME LedgerInv, NEW b \in Budgets, MergePayees(b)
    PROVE  LedgerInv'
<1> DEFINE sources(in) == {p \in in.ids : ~IsTransfer(List(db[b], "payees"), p)}
<1>1. PICK in \in MergeInputs :
          /\ Runs("payees_merge", b, in, {"payees"}, {})
          /\ UNCHANGED db \/ Now(b, db[b]) \/ Now(b, Tombstone(db[b], sources(in)))
  BY DEF MergePayees, Refuses, Writes, Throws
<1>2. sources(in) \cap Accounts = {}
  BY DEF MergeInputs
<1> HIDE DEF sources
<1>3. Sound(db[b]) /\ Sound(Tombstone(db[b], sources(in)))
  BY <1>2, TombstoneSound DEF LedgerInv
<1> QED
  BY <1>1, <1>3, DropsAll

LEMMA CreateCategoryOK ==
    ASSUME LedgerInv, NEW b \in Budgets, CreateCategory(b)
    PROVE  LedgerInv'
<1>1. PICK c \in Categories, g \in Groups :
          /\ Runs("categories_create", b, [id |-> c], {}, {})
          /\ Writes(b, [Insert(db[b], c) EXCEPT !.home[c] = g], "done")
  BY DEF CreateCategory
<1> DEFINE u == Insert(db[b], c)
           home == [u.home EXCEPT ![c] = g]
           v == [u EXCEPT !.home = home]
<1>2. Sound(u)
  BY InsertSound, EntitiesOf DEF LedgerInv
<1> HIDE DEF u
<1>3. Sound(u)
  BY <1>2
<1>4. u \in Tables /\ home \in [Categories -> Groups]
  BY <1>3 DEF Sound, Tables
<1>5. v = [u EXCEPT !.home[c] = g]
  BY <1>4 DEF Tables
<1> HIDE DEF home
<1>6. Alike(u, v)
  BY <1>4, Columns
<1>7. Sound(v)
  BY <1>3, <1>6, Elsewhere DEF Alike
<1> QED
  BY <1>1, <1>5, <1>7, WritesOnce, DropsAll DEF u

LEMMA UpdateCategoryOK ==
    ASSUME LedgerInv, NEW b \in Budgets, UpdateCategory(b)
    PROVE  LedgerInv'
<1> DEFINE u(c) == Put(db[b], c)
           after(c, g) == [u(c) EXCEPT !.home[c] = IF g = None THEN @ ELSE g]
<1>1. PICK c \in Categories, g \in Groups \cup {None} :
          /\ Runs("categories_update", b, [id |-> c], {"categories"}, {})
          /\ IF c \in Read(b, "categories").live THEN Writes(b, after(c, g), "done") ELSE Refuses
  BY DEF UpdateCategory
<1>2. Sound(db[b])
  BY DEF LedgerInv
<1>3. CASE c \in Read(b, "categories").live
  <2>1. c \in Entities /\ Live(db[b], c)
    BY <1>3, ReadFresh, EntitiesOf DEF Kinds
  <2>2. ASSUME u(c) \in Tables PROVE Alike(u(c), after(c, g))
    <3> DEFINE home == [u(c).home EXCEPT ![c] = IF g = None THEN u(c).home[c] ELSE g]
    <3> HIDE DEF u
    <3>1. home \in [Categories -> Groups] /\ after(c, g) = [u(c) EXCEPT !.home = home]
      BY <2>2 DEF Tables
    <3> HIDE DEF home, after
    <3>2. Alike(u(c), [u(c) EXCEPT !.home = home])
      BY <2>2, <3>1, Columns
    <3> QED
      BY <3>1, <3>2
  <2> HIDE DEF after
  <2>3. Sound(after(c, g))
    BY <1>2, <2>1, <2>2, PutAlike
  <2> QED
    BY <1>1, <1>3, <2>3, WritesOnce, DropsAll
<1>4. CASE c \notin Read(b, "categories").live
  BY <1>1, <1>2, <1>4, RefusesNothing, DropsAll
<1> QED
  BY <1>3, <1>4

LEMMA DeleteCategoryOK ==
    ASSUME LedgerInv, NEW b \in Budgets, DeleteCategory(b)
    PROVE  LedgerInv'
<1>1. PICK c \in Categories :
          /\ Runs("categories_delete", b, [id |-> c], {"categories"}, {})
          /\ Writes(b, Tombstone(db[b], {c}), "removed") \/ Refuses
  BY DEF DeleteCategory
<1>2. {c} \cap Accounts = {}
  OBVIOUS
<1>3. Sound(Tombstone(db[b], {c}))
  BY <1>2, TombstoneSound DEF LedgerInv
<1> QED
  BY <1>1, <1>3, WritesOnce, RefusesNothing, DropsAll

LEMMA CreateCategoryGroupOK ==
    ASSUME LedgerInv, NEW b \in Budgets, CreateCategoryGroup(b)
    PROVE  LedgerInv'
<1>1. PICK g \in Groups : /\ Runs("category_groups_create", b, [id |-> g], {}, {})
                          /\ Writes(b, Insert(db[b], g), "done")
  BY DEF CreateCategoryGroup
<1>2. Sound(Insert(db[b], g))
  BY InsertSound, EntitiesOf DEF LedgerInv
<1> QED
  BY <1>1, <1>2, WritesOnce, DropsAll

LEMMA UpdateCategoryGroupOK ==
    ASSUME LedgerInv, NEW b \in Budgets, UpdateCategoryGroup(b)
    PROVE  LedgerInv'
<1>1. PICK g \in Groups :
          /\ Runs("category_groups_update", b, [id |-> g], {"categoryGroups"}, {})
          /\ IF g \in Read(b, "categoryGroups").live
             THEN Writes(b, Put(db[b], g), "done") ELSE Refuses
  BY DEF UpdateCategoryGroup
<1>2. Sound(db[b])
  BY DEF LedgerInv
<1>3. CASE g \in Read(b, "categoryGroups").live
  <2>1. g \in Entities /\ Live(db[b], g)
    BY <1>3, ReadFresh, EntitiesOf DEF Kinds
  <2> QED
    BY <1>1, <1>2, <1>3, <2>1, Named, WritesOnce, DropsAll
<1>4. CASE g \notin Read(b, "categoryGroups").live
  BY <1>1, <1>2, <1>4, RefusesNothing, DropsAll
<1> QED
  BY <1>3, <1>4

LEMMA DeleteCategoryGroupOK ==
    ASSUME LedgerInv, NEW b \in Budgets, DeleteCategoryGroup(b)
    PROVE  LedgerInv'
<1>1. PICK g \in Groups :
          /\ Runs("category_groups_delete", b, [id |-> g], {"categoryGroups"}, {})
          /\ Writes(b, RawDeleteGroup(db[b], g), "removed") \/ Refuses
  BY DEF DeleteCategoryGroup
<1> DEFINE D == {g} \cup {c \in Categories : db[b].home[c] = g}
<1>2. D \cap Accounts = {}
  OBVIOUS
<1> HIDE DEF D
<1>3. Sound(Tombstone(db[b], D))
  BY <1>2, TombstoneSound DEF LedgerInv
<1>4. RawDeleteGroup(db[b], g) = Tombstone(db[b], D)
  BY DEF RawDeleteGroup, D
<1> QED
  BY <1>1, <1>3, <1>4, WritesOnce, RefusesNothing, DropsAll

LEMMA UpdateNoteOK ==
    ASSUME LedgerInv, NEW b, Budgets = {b}, UpdateNote(b)
    PROVE  LedgerInv'
<1> DEFINE after(i) == [db[b] EXCEPT !.notes = @ \cup {i}]
<1>1. Sound(db[b])
  BY DEF LedgerInv
<1>2. db[b] \in Tables /\ Sound(db[b])
  BY <1>1 DEF Sound
<1>3. ASSUME NEW i \in Entities, Runs("notes_update", b, [id |-> i], Kinds, Kinds),
             UNCHANGED db \/ Now(b, after(i))
      PROVE  LedgerInv'
  <2> DEFINE notes == db[b].notes \cup {i}
             v == [db[b] EXCEPT !.notes = notes]
  <2>1. notes \in SUBSET Entities
    BY <1>2 DEF Tables
  <2>2. after(i) = v
    OBVIOUS
  <2> HIDE DEF notes, after
  <2>3. Alike(db[b], v)
    BY <1>2, <2>1, Columns
  <2>4. Sound(v)
    <3> HIDE DEF v
    <3> QED
      BY <1>1, <2>3, Elsewhere DEF Alike
  <2>5. \A k \in Kinds : List(v, k) = List(db[b], k)
    BY <1>2 DEF List, Live, Tables
  <2> HIDE DEF v
  <2> QED
    BY <1>3, <2>2, <2>4, <2>5, KeepsSome, SMTT(30)
<1>4. ASSUME Runs("notes_update", b, [id |-> None], {}, Kinds), UNCHANGED db \/ Now(b, db[b])
      PROVE  LedgerInv'
  BY <1>2, <1>4, KeepsSome
<1>5. \/ /\ Runs("notes_update", b, [id |-> None], {}, Kinds)
         /\ UNCHANGED db \/ Now(b, db[b])
      \/ \E i \in Entities : /\ Runs("notes_update", b, [id |-> i], Kinds, Kinds)
                             /\ UNCHANGED db \/ Now(b, after(i))
  BY DEF UpdateNote, Refuses, Writes, Throws
<1> HIDE DEF after
<1> QED
  BY <1>3, <1>4, <1>5

LEMMA BudgetWriteOK ==
    ASSUME LedgerInv, NEW b, Budgets = {b}, BudgetWrite(b)
    PROVE  LedgerInv'
<1>1. PICK c \in Categories :
          /\ Runs("budgets_setAmount", b, [id |-> c], {"categories"}, Kinds)
          /\ Writes(b, db[b], "done") \/ Refuses
  BY DEF BudgetWrite
<1>2. Sound(db[b])
  BY DEF LedgerInv
<1>3. UNCHANGED db \/ Now(b, db[b])
  BY <1>1, WritesOnce, RefusesNothing
<1> QED
  BY <1>1, <1>2, <1>3, KeepsSome

-----------------------------------------------------------------------------
(* Transactions                                                            *)

(* A minted payee shows in the listing of payees only.                     *)
LEMMA MintedSound ==
    ASSUME NEW t, Sound(t), NEW u \in Minted(t)
    PROVE  Sound(u) /\ \A k \in Kinds \ {"payees"} : List(u, k) = List(t, k)
<1>1. CASE u = t
  BY <1>1
<1>2. CASE \E p \in Payees : u = Insert(t, p)
  <2>1. PICK p \in Payees : u = Insert(t, p)
    BY <1>2
  <2>2. \A k \in Kinds \ {"payees"} : p \notin Ids[k]
    BY DEF Kinds, Ids
  <2> QED
    BY <2>1, <2>2, InsertSound, EntitiesOf
<1> QED
  BY <1>1, <1>2 DEF Minted

LEMMA AddTxnLists ==
    ASSUME NEW t, Sound(t), NEW r, NEW k \in Kinds
    PROVE  List(AddTxn(t, r), k) = List(t, k)
<1>1. t \in Tables
  BY DEF Sound
<1> QED
  BY <1>1 DEF Tables, AddTxn, List, Live

LEMMA AddTransactionsOK ==
    ASSUME LedgerInv, NEW b, Budgets = {b}, AddTransactions(b)
    PROVE  LedgerInv'
<1> DEFINE r(in) == Added(in.id, in.amount, in.kids)
           keeps == Kinds \ {"payees"}
<1>1. PICK in \in NewTxns :
          /\ Runs("transactions_create", b, [id |-> in.id], {"accounts"}, keeps)
          /\ IF in.id \in Read(b, "accounts").live
             THEN \E t \in Minted(AddTxn(db[b], r(in))) : Writes(b, t, "done")
             ELSE Refuses
  BY DEF AddTransactions, Added
<1>2. Sound(db[b])
  BY DEF LedgerInv
<1>3. CASE in.id \in Read(b, "accounts").live
  <2>1. /\ in.id \in Accounts /\ Live(db[b], in.id) /\ in.kids \in {None, in.amount}
        /\ in.amount \in Int /\ in.kids \in Int \cup {None}
    BY <1>3, ReadFresh, EntitiesOf, AmountsInt DEF Kinds, NewTxns
  <2>2. /\ r(in) \in Txn /\ r(in).account = in.id
        /\ r(in).kids = in.kids /\ r(in).amount = in.amount
    BY <2>1, AddedTxn
  <2>3. Sound(AddTxn(db[b], r(in)))
    <3> HIDE DEF r
    <3> QED
      BY <1>2, <2>1, <2>2, AddTxnSound
  <2>4. PICK t \in Minted(AddTxn(db[b], r(in))) : Writes(b, t, "done")
    BY <1>1, <1>3
  <2> HIDE DEF r
  <2>5. Sound(t) /\ \A k \in keeps : List(t, k) = List(AddTxn(db[b], r(in)), k)
    BY <2>3, MintedSound
  <2>6. \A k \in keeps : List(t, k) = List(db[b], k)
    BY <1>2, <2>5, AddTxnLists
  <2>7. UNCHANGED db \/ Now(b, t)
    BY <2>4, WritesOnce
  <2> QED
    BY <1>1, <2>5, <2>6, <2>7, KeepsSome
<1>4. CASE in.id \notin Read(b, "accounts").live
  <2>1. UNCHANGED db
    BY <1>1, <1>4, RefusesNothing
  <2> QED
    BY <1>1, <1>2, <2>1, KeepsSome
<1> QED
  BY <1>3, <1>4

LEMMA ImportTransactionsOK ==
    ASSUME LedgerInv, NEW b \in Budgets, ImportTransactions(b)
    PROVE  LedgerInv'
<1> DEFINE after(a, n) == Minted(AddTxn(db[b], Txn0(a, n))) \cup {db[b]}
<1>1. PICK a \in Accounts, n \in Amounts :
          /\ Live(db[b], a) /\ Runs("transactions_import", b, [id |-> a], {}, {})
          /\ \E t \in after(a, n) : Writes(b, t, "done")
  BY DEF ImportTransactions
<1>2. PICK t \in after(a, n) : Writes(b, t, "done")
  BY <1>1
<1>3. Sound(db[b])
  BY DEF LedgerInv
<1>4. /\ Txn0(a, n) \in Txn /\ Txn0(a, n).account = a
      /\ Txn0(a, n).kids = None
  <2>1. n \in Int
    OBVIOUS
  <2> QED
    BY <1>1, <2>1, NewTxn
<1>5. Sound(AddTxn(db[b], Txn0(a, n)))
  BY <1>1, <1>3, <1>4, AddTxnSound
<1>6. Sound(t)
  BY <1>3, <1>5, MintedSound
<1>7. UNCHANGED db \/ Now(b, t)
  BY <1>2, WritesOnce
<1> QED
  BY <1>1, <1>6, <1>7, DropsAll

LEMMA CreateTransferOK ==
    ASSUME LedgerInv, NEW b \in Budgets, CreateTransfer(b)
    PROVE  LedgerInv'
<1> DEFINE after(in) == AddTransfer(db[b], in.id, in.to, in.amount)
<1>1. PICK in \in TransferInputs :
          /\ Cardinality(Unused(db[b])) >= 2
          /\ Runs("transfers_create", b, in, {"accounts", "payees"}, {})
          /\ UNCHANGED db \/ (Transferable(b, in) /\ Now(b, after(in)))
  BY DEF CreateTransfer, Refuses, Throws
<1>2. Sound(db[b])
  BY DEF LedgerInv
<1>3. CASE UNCHANGED db
  BY <1>1, <1>2, <1>3, DropsAll
<1>4. CASE Transferable(b, in) /\ Now(b, after(in))
  <2>1. in.id \in Accounts /\ in.to \in Accounts /\ in.amount \in Int
    BY AmountsInt DEF TransferInputs
  <2>2. Live(db[b], in.id) /\ Live(db[b], in.to)
    BY <1>4, ReadFresh DEF Transferable, Kinds
  <2>3. Sound(after(in))
    BY <1>1, <1>2, <2>1, <2>2, AddTransferSound
  <2> HIDE DEF after
  <2> QED
    BY <1>1, <1>4, <2>3, DropsAll
<1> QED
  BY <1>1, <1>3, <1>4

(* An update keeps a split's children in step, or says that it has not.    *)
LEMMA UpdatedSound ==
    ASSUME NEW t, Sound(t), NEW in \in TxnUpdates, t.txn[in.id] # None,
           SplitAllowed(t.txn[in.id], in)
    PROVE  /\ Sound(Updated(t, in))
           /\ Updated(t, in).txn \in [Txns -> Txn \cup {None}]
           /\ \A x \in Txns : TxnOK(t, Updated(t, in).txn[x])
<1> DEFINE r == t.txn[in.id]
           q == [r EXCEPT !.account   = IF in.account = None THEN @ ELSE in.account,
                          !.amount    = IF in.amount = None THEN @ ELSE in.amount,
                          !.kids      = IF in.kids = None THEN @ ELSE in.kids,
                          !.unchecked =
                              (IF in.kids # None THEN @ \ {"amount"}
                               ELSE IF in.amount # None THEN @ \cup {"amount"} ELSE @)
                              \cup (IF in.account # None THEN {"account"} ELSE {})]
           f == [t.txn EXCEPT ![in.id] = q]
<1>1. in.id \in Txns /\ in.account \in Accounts \cup {None} /\ in.amount \in Amounts \cup {None}
      /\ in.kids \in Amounts \cup {None}
  BY DEF TxnUpdates
<1>2. Updated(t, in) = [t EXCEPT !.txn[in.id] = q]
  BY DEF Updated
<1>3. /\ f \in [Txns -> Txn \cup {None}]
      /\ \A x \in Txns : TxnOK(t, f[x])
      /\ Updated(t, in) = [t EXCEPT !.txn = f, !.dropped = t.dropped]
      /\ Updated(t, in).txn = f /\ t.dropped \in SUBSET Txns
  <2>1. t \in Tables /\ \A x \in Txns : TxnOK(t, t.txn[x])
    BY DEF Sound
  <2>2. r \in Txn /\ TxnOK(t, r)
    BY <1>1, <2>1 DEF Tables
  <2>3. q \in Txn
    <3> DEFINE account == IF in.account = None THEN r.account ELSE in.account
               amount == IF in.amount = None THEN r.amount ELSE in.amount
               kids == IF in.kids = None THEN r.kids ELSE in.kids
               unchecked == (IF in.kids # None THEN r.unchecked \ {"amount"}
                             ELSE IF in.amount # None THEN r.unchecked \cup {"amount"}
                             ELSE r.unchecked)
                            \cup (IF in.account # None THEN {"account"} ELSE {})
    <3>1. account \in Accounts /\ amount \in Int /\ kids \in Int \cup {None}
      BY <1>1, <2>2, AmountsInt DEF Txn
    <3>2. unchecked \in SUBSET {"account", "amount"}
      BY <2>2 DEF Txn
    <3>3. q = [r EXCEPT !.account = account, !.amount = amount, !.kids = kids,
                        !.unchecked = unchecked]
      BY <2>2 DEF Txn
    <3> HIDE DEF account, amount, kids, unchecked, q
    <3> QED
      BY <2>2, <3>1, <3>2, <3>3 DEF Txn
  <2>4. /\ q.account = IF in.account = None THEN r.account ELSE in.account
        /\ q.amount = IF in.amount = None THEN r.amount ELSE in.amount
        /\ q.kids = IF in.kids = None THEN r.kids ELSE in.kids
        /\ q.unchecked = (IF in.kids # None THEN r.unchecked \ {"amount"}
                          ELSE IF in.amount # None THEN r.unchecked \cup {"amount"}
                          ELSE r.unchecked)
                         \cup (IF in.account # None THEN {"account"} ELSE {})
    BY <2>2 DEF Txn
  <2> HIDE DEF q
  <2>5. "account" \notin q.unchecked => Live(t, q.account)
    BY <2>2, <2>4 DEF TxnOK
  <2>6. "amount" \notin q.unchecked => q.kids \in {None, q.amount}
    <3>1. CASE in.kids # None
      BY <2>4, <3>1 DEF SplitAllowed
    <3>2. CASE in.kids = None /\ in.amount # None
      BY <2>4, <3>2
    <3>3. CASE in.kids = None /\ in.amount = None
      BY <2>2, <2>4, <3>3 DEF TxnOK
    <3> QED
      BY <3>1, <3>2, <3>3
  <2>7. TxnOK(t, q)
    BY <2>5, <2>6 DEF TxnOK
  <2>8. f \in [Txns -> Txn \cup {None}]
    BY <2>1, <2>3 DEF Tables
  <2>9. \A x \in Txns : TxnOK(t, f[x])
    BY <2>1, <2>7 DEF Tables
  <2>10. Updated(t, in) = [t EXCEPT !.txn = f, !.dropped = t.dropped]
    BY <1>2, <2>1 DEF Tables
  <2>11. Updated(t, in).txn = f /\ t.dropped \in SUBSET Txns
    BY <2>1, <2>10 DEF Tables
  <2> QED
    BY <2>1, <2>8, <2>9, <2>10, <2>11
<1> HIDE DEF f
<1>4. Sound([t EXCEPT !.txn = f, !.dropped = t.dropped])
  BY <1>3, TxnsSound
<1> QED
  BY <1>3, <1>4

LEMMA UpdateTransactionOK ==
    ASSUME LedgerInv, NEW b \in Budgets, UpdateTransaction(b)
    PROVE  LedgerInv'
<1>1. Sound(db[b])
  BY DEF LedgerInv
<1>2. CASE \E x \in Txns : /\ Runs("transactions_update", b, [id |-> x], {}, {})
                           /\ Refuses
  BY <1>1, <1>2, RefusesNothing, DropsAll
<1>3. CASE \E in \in TxnUpdates :
              /\ db[b].txn[in.id] # None
              /\ Runs("transactions_update", b, [id |-> in.id], {}, {})
              /\ IF SplitAllowed(db[b].txn[in.id], in)
                 THEN Writes(b, Updated(db[b], in), "done") ELSE Refuses
  <2>1. PICK in \in TxnUpdates :
            /\ db[b].txn[in.id] # None
            /\ Runs("transactions_update", b, [id |-> in.id], {}, {})
            /\ IF SplitAllowed(db[b].txn[in.id], in)
               THEN Writes(b, Updated(db[b], in), "done") ELSE Refuses
    BY <1>3
  <2>2. CASE SplitAllowed(db[b].txn[in.id], in)
    <3>1. Sound(Updated(db[b], in))
      BY <1>1, <2>1, <2>2, UpdatedSound
    <3> QED
      BY <2>1, <2>2, <3>1, WritesOnce, DropsAll
  <2>3. CASE ~SplitAllowed(db[b].txn[in.id], in)
    BY <1>1, <2>1, <2>3, RefusesNothing, DropsAll
  <2> QED
    BY <2>2, <2>3
<1> QED
  BY <1>2, <1>3 DEF UpdateTransaction

(* Any part of a batch.                                                    *)
LEMMA UpdateTransactionBatchOK ==
    ASSUME LedgerInv, NEW b \in Budgets, UpdateTransactionBatch(b)
    PROVE  LedgerInv'
<1> DEFINE set(i, n) == [id |-> i, account |-> None, amount |-> n, kids |-> None]
           f(D, n) == [i \in Txns |-> IF i \in D THEN Updated(db[b], set(i, n)).txn[i]
                                      ELSE db[b].txn[i]]
<1>1. PICK x \in Txns, y \in Txns, n \in Amounts :
          /\ Runs("transactions_update_batch", b, [ids |-> {x, y}], {}, {})
          /\ \E D \in SUBSET {i \in {x, y} : db[b].txn[i] # None} :
                 Now(b, [db[b] EXCEPT !.txn = f(D, n)])
  <2>1. PICK x \in Txns, y \in Txns, n \in Amounts :
            /\ Runs("transactions_update_batch", b, [ids |-> {x, y}], {}, {})
            /\ \E D \in SUBSET {i \in {x, y} : db[b].txn[i] # None} :
                   /\ Now(b, [db[b] EXCEPT !.txn = f(D, n)])
                   /\ Ends(IF D = {x, y} THEN "done" ELSE "failed")
    BY Zenon DEF UpdateTransactionBatch
  <2> HIDE DEF f
  <2> QED
    BY <2>1
<1>2. PICK D \in SUBSET {i \in {x, y} : db[b].txn[i] # None} :
          Now(b, [db[b] EXCEPT !.txn = f(D, n)])
  BY <1>1
<1>3. Sound(db[b])
  BY DEF LedgerInv
<1>4. db[b] \in Tables /\ Sound(db[b])
  BY <1>3 DEF Sound
<1>5. \A i \in Txns : TxnOK(db[b], db[b].txn[i])
  BY <1>3 DEF Sound
<1>6. ASSUME NEW i \in D
      PROVE  /\ Updated(db[b], set(i, n)).txn[i] \in Txn \cup {None}
             /\ TxnOK(db[b], Updated(db[b], set(i, n)).txn[i])
  <2> DEFINE in == set(i, n)
  <2>1. i \in Txns /\ db[b].txn[i] # None
    OBVIOUS
  <2>2. in \in TxnUpdates /\ in.id = i /\ in.kids = None
    BY <2>1 DEF TxnUpdates
  <2> HIDE DEF in
  <2>3. SplitAllowed(db[b].txn[in.id], in)
    BY <2>2 DEF SplitAllowed
  <2>4. db[b].txn[in.id] # None
    BY <2>1, <2>2
  <2>5. /\ Updated(db[b], in).txn \in [Txns -> Txn \cup {None}]
        /\ \A z \in Txns : TxnOK(db[b], Updated(db[b], in).txn[z])
    BY <1>3, <2>2, <2>3, <2>4, UpdatedSound
  <2> QED
    BY <2>1, <2>5 DEF in
<1> HIDE DEF set
<1>7. f(D, n) \in [Txns -> Txn \cup {None}]
  <2>1. \A i \in Txns : db[b].txn[i] \in Txn \cup {None}
    BY <1>4 DEF Tables
  <2> QED
    BY <1>6, <2>1
<1>8. \A i \in Txns : TxnOK(db[b], f(D, n)[i])
  BY <1>5, <1>6
<1> DEFINE g == f(D, n)
<1> HIDE DEF f
<1>9. [db[b] EXCEPT !.txn = g] = [db[b] EXCEPT !.txn = g, !.dropped = db[b].dropped]
  BY <1>4 DEF Tables
<1>10. db[b].dropped \in SUBSET Txns
  BY <1>4 DEF Tables
<1>11. g \in [Txns -> Txn \cup {None}] /\ \A i \in Txns : TxnOK(db[b], g[i])
  BY <1>7, <1>8
<1>12. Now(b, [db[b] EXCEPT !.txn = g, !.dropped = db[b].dropped])
  BY <1>2, <1>9
<1> HIDE DEF g
<1>13. Sound([db[b] EXCEPT !.txn = g, !.dropped = db[b].dropped])
  BY <1>3, <1>10, <1>11, TxnsSound
<1> QED
  BY <1>1, <1>12, <1>13, DropsAll

LEMMA DeleteTransactionOK ==
    ASSUME LedgerInv, NEW b \in Budgets, DeleteTransaction(b)
    PROVE  LedgerInv'
<1>1. PICK x \in Txns : /\ Runs("transactions_delete", b, [id |-> x], {}, {})
                        /\ Writes(b, DropTxns(db[b], {x}), "removed") \/ Refuses
  BY DEF DeleteTransaction
<1>2. {x} \in SUBSET Txns /\ Sound(db[b])
  BY DEF LedgerInv
<1>3. Sound(DropTxns(db[b], {x}))
  BY <1>2, DropTxnsSound
<1> QED
  BY <1>1, <1>3, WritesOnce, RefusesNothing, DropsAll

-----------------------------------------------------------------------------
(* The theorems                                                            *)

LEMMA LedgerInit == Init => LedgerInv
<1> SUFFICES ASSUME Init PROVE LedgerInv
  OBVIOUS
<1>1. ListingFresh /\ DOMAIN db = Budgets
  BY DEF Init, ListingFresh
<1>2. ASSUME NEW b \in Budgets PROVE Sound(db[b])
  <2> DEFINE live == Initially[b] \cup {TransferPayee(a) : a \in Initially[b] \cap Accounts}
             n == Min(Amounts)
             first == [Txn0(Holder, n) EXCEPT !.kids = n]
             row == [i \in Entities |-> IF i \in live THEN "live" ELSE "absent"]
             memberOf == [a \in Accounts |-> IF a \in live THEN Joined ELSE None]
             txn == [x \in Txns |-> IF x = 1 /\ Holder \in live THEN first ELSE None]
             t == [row |-> row, made |-> live, closed |-> {}, named |-> {}, notes |-> {},
                   home |-> GroupOf, link |-> [p \in Payees |-> None],
                   memberOf |-> memberOf, agroups |-> {Joined}, dropped |-> {}, txn |-> txn]
  <2>1. db[b] = t
    BY DEF Init
  <2>12. n \in Int
    <3>1. Amounts \subseteq Nat /\ Amounts # {}
      OBVIOUS
    <3>2. n \in Amounts
      BY <3>1, LeastIsOne
    <3> QED
      BY <3>2, AmountsInt
  <2> HIDE DEF n
  <2>2. live \subseteq Entities
    BY EntitiesOf
  <2> HIDE DEF live
  <2>3. first \in Txn /\ first.account = Holder /\ first.amount = n /\ first.kids = n
    <3>1. Txn0(Holder, n) = [account |-> Holder, amount |-> n, kids |-> None, peer |-> None,
                             unchecked |-> {}]
      BY DEF Txn0
    <3> QED
      BY <2>12, <3>1 DEF Txn
  <2> HIDE DEF first
  <2>4. row \in [Entities -> {"absent", "live", "dead"}]
        /\ txn \in [Txns -> Txn \cup {None}]
        /\ memberOf \in [Accounts -> AccountGroups \cup {None}]
    BY <2>3
  <2>5. \A i \in Entities : row[i] = "live" <=> i \in live
    OBVIOUS
  <2>6. \A x \in Txns : txn[x] # None => txn[x] = first /\ Holder \in live
    OBVIOUS
  <2> HIDE DEF row, txn, memberOf
  <2>7. t \in Tables /\ t.row = row /\ t.made = live /\ t.txn = txn
    BY <2>2, <2>4 DEF Tables
  <2> HIDE DEF t
  <2>8. \A i \in Entities : Live(t, i) <=> i \in live
    BY <2>5, <2>7 DEF Live
  <2>9. Holder \in Entities
    BY EntitiesOf
  <2>10. \A x \in Txns : TxnOK(t, t.txn[x])
    BY <2>3, <2>6, <2>7, <2>8, <2>9 DEF TxnOK
  <2>11. Sound(t)
    BY <2>7, <2>8, <2>10 DEF Sound, Created
  <2> QED
    BY <2>1, <2>11 DEF Sound
<1> QED
  BY <1>1, <1>2 DEF LedgerInv

LEMMA AccountOpsOK ==
    ASSUME LedgerInv, NEW b, Budgets = {b}, AccountOps(b)
    PROVE  LedgerInv'
<1>1. b \in Budgets
  OBVIOUS
<1> QED
  BY <1>1, CreateAccountOK, UpdateAccountOK, DeleteAccountOK, CloseAccountOK, ReopenAccountOK,
     CreateAccountGroupOK, UpdateAccountGroupOK, DeleteAccountGroupOK DEF AccountOps

LEMMA PayeeOpsOK ==
    ASSUME LedgerInv, NEW b, Budgets = {b}, PayeeOps(b)
    PROVE  LedgerInv'
<1>1. b \in Budgets
  OBVIOUS
<1> QED
  BY <1>1, CreatePayeeOK, UpdatePayeeOK, DeletePayeeOK, MergePayeesOK, CreateCategoryOK,
     UpdateCategoryOK, DeleteCategoryOK, CreateCategoryGroupOK, UpdateCategoryGroupOK,
     DeleteCategoryGroupOK, UpdateNoteOK, BudgetWriteOK DEF PayeeOps

LEMMA TxnOpsOK ==
    ASSUME LedgerInv, NEW b, Budgets = {b}, TxnOps(b)
    PROVE  LedgerInv'
<1>1. b \in Budgets
  OBVIOUS
<1> QED
  BY <1>1, AddTransactionsOK, ImportTransactionsOK, CreateTransferOK, UpdateTransactionOK,
     UpdateTransactionBatchOK, DeleteTransactionOK DEF TxnOps

(* The drain itself, the reads outside it, and steps that change nothing.  *)
LEMMA ElseOK ==
    ASSUME LedgerInv,
           BeginDrain \/ EndDrain \/ UNCHANGED vars
               \/ (\E f \in followups : VerifyDeletion(f) \/ ReadBackTransfer(f))
    PROVE  LedgerInv'
<1>1. /\ UNCHANGED db
      /\ UNCHANGED cache \/ cache' = [k \in Kinds |-> None]
  BY DEF BeginDrain, EndDrain, VerifyDeletion, ReadBackTransfer, vars
<1>2. CASE UNCHANGED cache
  BY <1>1, <1>2 DEF LedgerInv, ListingFresh
<1>3. CASE cache' = [k \in Kinds |-> None]
  BY <1>1, <1>3 DEF LedgerInv, ListingFresh
<1> QED
  BY <1>1, <1>2, <1>3

LEMMA LedgerStep ==
    ASSUME NEW b, Budgets = {b}, LedgerInv, [Next]_vars
    PROVE  LedgerInv'
  BY AccountOpsOK, PayeeOpsOK, TxnOpsOK, ElseOK DEF Next

\* One server serves one budget in a drain.  With two the listings of one are
\* read for the other, and the theorems are false.
OneBudget == \E b : Budgets = {b}

(* The whole invariant.                                                    *)
THEOREM LedgerInvariant == OneBudget => (Spec => []LedgerInv)
<1> SUFFICES ASSUME OneBudget PROVE Spec => []LedgerInv
  OBVIOUS
<1>1. LedgerInv /\ [Next]_vars => LedgerInv'
  BY LedgerStep DEF OneBudget
<1> QED
  BY <1>1, LedgerInit, PTL DEF Spec

(* In one budget, what a guard would read from the drain's listings is     *)
(* what the budget holds: readDrainListing never answers stale.            *)
THEOREM LedgerListingFresh == OneBudget => (Spec => []ListingFresh)
<1>1. LedgerInv => ListingFresh
  BY DEF LedgerInv
<1> QED
  BY <1>1, LedgerInvariant, PTL

(* ... no operation makes a row visible that no create made.               *)
THEOREM LedgerNoPhantom == OneBudget => (Spec => []NoPhantom)
<1>1. LedgerInv => NoPhantom
  BY DEF LedgerInv, Sound, Sound, Created, NoPhantom
<1> QED
  BY <1>1, LedgerInvariant, PTL

(* ... and each transaction keeps its account and its split's sum, unless  *)
(* an update that nothing checks has moved them.                           *)
THEOREM LedgerTransactionsSound == OneBudget => (Spec => []TransactionsSound)
<1>1. ASSUME LedgerInv PROVE TransactionsSound
  <2>1. ASSUME NEW b \in Budgets, NEW x \in Txns PROVE TxnOK(db[b], db[b].txn[x])
    BY <1>1 DEF LedgerInv, Sound, Sound
  <2>2. NoDangling
    BY <2>1 DEF NoDangling, TxnOK
  <2>3. SplitsAddUp
    BY <2>1 DEF SplitsAddUp, TxnOK
  <2> QED
    BY <2>2, <2>3 DEF TransactionsSound
<1> QED
  BY <1>1, LedgerInvariant, PTL

-----------------------------------------------------------------------------
(* The types                                                               *)

Followups == [tool: {"accounts_delete", "transfers_create"}, budget: Budgets, id: Accounts]

\* What every operation of a drain has in common, whatever it writes.
Ran(b) ==
    /\ \E tool, in, reads, keeps : Runs(tool, b, in, reads, keeps)
    /\ UNCHANGED db \/ \E t : Now(b, t)
    /\ outcome' \in Outcomes
    /\ followups' = followups \/ \E f \in Followups : followups' = followups \cup {f}

LEMMA EndsRan ==
    ASSUME NEW b, NEW tool, NEW in, NEW reads, NEW keeps, Runs(tool, b, in, reads, keeps),
           \/ Refuses
           \/ \E t, o : o \in Outcomes /\ Writes(b, t, o)
           \/ \E o : o \in Outcomes /\ UNCHANGED db /\ Ends(o)
           \/ \E t, o : o \in Outcomes /\ Now(b, t) /\ Ends(o)
    PROVE  Ran(b)
<1>1. UNCHANGED db \/ \E t : Now(b, t)
  BY DEF Refuses, Writes, Throws
<1>2. outcome' \in Outcomes /\ followups' = followups
  BY DEF Refuses, Writes, Throws, Ends, Outcomes
<1> QED
  BY <1>1, <1>2 DEF Ran

LEMMA AccountOpsRan ==
    ASSUME NEW b \in Budgets, AccountOps(b)
    PROVE  Ran(b)
<1>1. {"done", "unchanged", "removed", "failed", "written"} \subseteq Outcomes
  BY DEF Outcomes
<1>2. CASE CreateAccount(b)
  BY <1>1, <1>2, EndsRan DEF CreateAccount
<1>3. CASE UpdateAccount(b)
  BY <1>1, <1>3, EndsRan DEF UpdateAccount
<1>4. CASE DeleteAccount(b)
  <2>1. PICK a \in Accounts :
            /\ Runs("accounts_delete", b, [id |-> a], {}, {})
            /\ \/ /\ Now(b, RawDelete(db[b], a)) /\ outcome' = "written"
                  /\ followups' = followups \cup
                         {[tool |-> "accounts_delete", budget |-> b, id |-> a]}
               \/ Throws(b, RawDelete(db[b], a))
    BY <1>4 DEF DeleteAccount
  <2>2. [tool |-> "accounts_delete", budget |-> b, id |-> a] \in Followups
    BY DEF Followups
  <2> QED
    BY <1>1, <2>1, <2>2 DEF Ran, Throws, Ends
<1>5. CASE CloseAccount(b)
  BY <1>1, <1>5, EndsRan DEF CloseAccount
<1>6. CASE ReopenAccount(b)
  BY <1>1, <1>6, EndsRan DEF ReopenAccount
<1>7. CASE CreateAccountGroup(b)
  BY <1>1, <1>7, EndsRan DEF CreateAccountGroup
<1>8. CASE UpdateAccountGroup(b)
  BY <1>1, <1>8, EndsRan DEF UpdateAccountGroup
<1>9. CASE DeleteAccountGroup(b)
  BY <1>1, <1>9, EndsRan DEF DeleteAccountGroup
<1> QED
  BY <1>2, <1>3, <1>4, <1>5, <1>6, <1>7, <1>8, <1>9 DEF AccountOps

LEMMA PayeeOpsRan ==
    ASSUME NEW b \in Budgets, PayeeOps(b)
    PROVE  Ran(b)
<1>1. {"done", "removed"} \subseteq Outcomes
  BY DEF Outcomes
<1>2. CASE CreatePayee(b)
  BY <1>1, <1>2, EndsRan DEF CreatePayee
<1>3. CASE UpdatePayee(b)
  BY <1>1, <1>3, EndsRan DEF UpdatePayee
<1>4. CASE DeletePayee(b)
  BY <1>1, <1>4, EndsRan DEF DeletePayee
<1>5. CASE MergePayees(b)
  BY <1>1, <1>5, EndsRan DEF MergePayees
<1>6. CASE CreateCategory(b)
  BY <1>1, <1>6, EndsRan DEF CreateCategory
<1>7. CASE UpdateCategory(b)
  BY <1>1, <1>7, EndsRan DEF UpdateCategory
<1>8. CASE DeleteCategory(b)
  BY <1>1, <1>8, EndsRan DEF DeleteCategory
<1>9. CASE CreateCategoryGroup(b)
  BY <1>1, <1>9, EndsRan DEF CreateCategoryGroup
<1>10. CASE UpdateCategoryGroup(b)
  BY <1>1, <1>10, EndsRan DEF UpdateCategoryGroup
<1>11. CASE DeleteCategoryGroup(b)
  BY <1>1, <1>11, EndsRan DEF DeleteCategoryGroup
<1>12. CASE UpdateNote(b)
  BY <1>1, <1>12, EndsRan DEF UpdateNote
<1>13. CASE BudgetWrite(b)
  BY <1>1, <1>13, EndsRan DEF BudgetWrite
<1> QED
  BY <1>2, <1>3, <1>4, <1>5, <1>6, <1>7, <1>8, <1>9, <1>10, <1>11, <1>12, <1>13 DEF PayeeOps

LEMMA TxnOpsRan ==
    ASSUME NEW b \in Budgets, TxnOps(b)
    PROVE  Ran(b)
<1>1. {"done", "removed", "failed", "written", "refused"} \subseteq Outcomes
  BY DEF Outcomes
<1>2. CASE AddTransactions(b)
  BY <1>1, <1>2, EndsRan DEF AddTransactions
<1>3. CASE ImportTransactions(b)
  BY <1>1, <1>3, EndsRan DEF ImportTransactions
<1>4. CASE CreateTransfer(b)
  <2> DEFINE t(in) == AddTransfer(db[b], in.id, in.to, in.amount)
  <2>1. PICK in \in TransferInputs :
            /\ Runs("transfers_create", b, in, {"accounts", "payees"}, {})
            /\ \/ Refuses
               \/ /\ Now(b, t(in)) /\ outcome' = "written"
                  /\ followups' = followups \cup
                         {[tool |-> "transfers_create", budget |-> b, id |-> in.id]}
               \/ Throws(b, t(in))
    BY <1>4 DEF CreateTransfer
  <2>2. [tool |-> "transfers_create", budget |-> b, id |-> in.id] \in Followups
    BY DEF Followups, TransferInputs
  <2> HIDE DEF t
  <2> QED
    BY <1>1, <2>1, <2>2 DEF Ran, Refuses, Throws, Ends
<1>5. CASE UpdateTransaction(b)
  BY <1>1, <1>5, EndsRan DEF UpdateTransaction
<1>6. CASE UpdateTransactionBatch(b)
  BY <1>1, <1>6, EndsRan DEF UpdateTransactionBatch
<1>7. CASE DeleteTransaction(b)
  BY <1>1, <1>7, EndsRan DEF DeleteTransaction
<1> QED
  BY <1>2, <1>3, <1>4, <1>5, <1>6, <1>7 DEF TxnOps

(* A listing of sound tables is one.                                       *)
LEMMA ListTyped ==
    ASSUME NEW t \in Tables, NEW k \in Kinds
    PROVE  List(t, k) \in Listing
<1>1. /\ {i \in Ids[k] : Live(t, i)} \subseteq Entities
      /\ {i \in Ids[k] : i \in t.named} \subseteq Entities
  BY EntitiesOf
<1>2. /\ t.closed \subseteq Accounts /\ t.link \in [Payees -> Accounts \cup {None}]
      /\ t.memberOf \in [Accounts -> AccountGroups \cup {None}]
  BY DEF Tables
<1> QED
  BY <1>1, <1>2 DEF List, Listing

LEMMA RanTyped ==
    ASSUME TypeOK, LedgerInv', NEW b \in Budgets, Ran(b)
    PROVE  TypeOK'
<1>1. db' \in [Budgets -> Tables]
  <2>1. db' = [c \in Budgets |-> db'[c]]
    BY DEF TypeOK, Ran, Now
  <2>2. \A c \in Budgets : db'[c] \in Tables
    BY DEF LedgerInv, Sound
  <2> QED
    BY <2>1, <2>2
<1>2. PICK tool, in, reads, keeps : Runs(tool, b, in, reads, keeps)
  BY DEF Ran
<1>3. cache' \in [Kinds -> Listing \cup {None}]
  <2>1. \A k \in Kinds : List(db[b], k) \in Listing /\ cache[k] \in Listing \cup {None}
    BY ListTyped DEF TypeOK
  <2>2. \A k \in Kinds : Read(b, k) \in Listing
    BY <2>1 DEF Read
  <2> QED
    BY <1>2, <2>1, <2>2 DEF Runs, Drop
<1>4. draining' \in BOOLEAN /\ steps' \in 0..MaxOps
  <2>1. MaxOps \in Nat
    OBVIOUS
  <2> QED
    BY <1>2, <2>1 DEF TypeOK, Runs
<1>5. outcome' \in Outcomes /\ followups' \subseteq Followups
  BY DEF TypeOK, Ran, Followups
<1> QED
  BY <1>1, <1>3, <1>4, <1>5 DEF TypeOK, Followups

LEMMA InitTyped == Init => TypeOK
<1> SUFFICES ASSUME Init PROVE TypeOK
  OBVIOUS
<1>1. db \in [Budgets -> Tables]
  <2>1. db = [b \in Budgets |-> db[b]]
    BY DEF Init
  <2> QED
    BY <2>1, LedgerInit DEF LedgerInv, Sound
<1>2. cache \in [Kinds -> Listing \cup {None}] /\ draining \in BOOLEAN /\ followups = {}
  BY DEF Init
<1>3. steps \in 0..MaxOps
  <2>1. MaxOps \in Nat /\ steps = 0
    BY DEF Init
  <2> QED
    BY <2>1
<1>4. outcome \in Outcomes
  BY DEF Init, Outcomes
<1> QED
  BY <1>1, <1>2, <1>3, <1>4 DEF TypeOK

LEMMA TypesStep ==
    ASSUME TypeOK, LedgerInv', [Next]_vars
    PROVE  TypeOK'
<1>1. CASE \E b \in Budgets : AccountOps(b) \/ PayeeOps(b) \/ TxnOps(b)
  BY <1>1, AccountOpsRan, PayeeOpsRan, TxnOpsRan, RanTyped
<1>2. CASE BeginDrain
  BY <1>2 DEF BeginDrain, TypeOK
<1>3. CASE EndDrain
  BY <1>3 DEF EndDrain, TypeOK, Outcomes
<1>4. CASE \E f \in followups : VerifyDeletion(f) \/ ReadBackTransfer(f)
  BY <1>4 DEF VerifyDeletion, ReadBackTransfer, TypeOK, Outcomes
<1>5. CASE UNCHANGED vars
  BY <1>5 DEF vars, TypeOK
<1> QED
  BY <1>1, <1>2, <1>3, <1>4, <1>5 DEF Next

(* In one budget, the tables keep their types, the sums among them.        *)
THEOREM LedgerTyped == OneBudget => (Spec => []TypeOK)
<1>1. TypeOK /\ LedgerInv' /\ [Next]_vars => TypeOK'
  BY TypesStep
<1> QED
  BY <1>1, InitTyped, LedgerInvariant, PTL DEF Spec

-----------------------------------------------------------------------------
(* Answers                                                                 *)

\* What the two action properties ask of a step that answers a call.
Honest ==
    /\ Promised(call', outcome', db[call'.budget], db'[call'.budget])
    /\ outcome' = "refused" /\ call'.tool \in Updates
           => ~Live(db[call'.budget], call'.in.id)

Promising == Updates \cup {"accounts_close", "accounts_reopen", "payees_merge", "notes_update"}

LEMMA Updating ==
    /\ "accounts_update" \in Updates /\ "payees_update" \in Updates
    /\ "categories_update" \in Updates /\ "category_groups_update" \in Updates
    /\ \A tool \in {"accounts_close", "accounts_reopen", "payees_merge", "notes_update",
                    "transfers_create", "payees_delete", "categories_delete",
                    "category_groups_delete", "transactions_delete"} : tool \notin Updates
  BY DEF Updates

(* What each answer promises of each tool.                                 *)
LEMMA PromisesNothing ==
    ASSUME NEW c, NEW o, NEW t, NEW u, o \notin {"removed", "unchanged"},
           o = "done" => c.tool \notin Promising, o = "written" => c.tool # "transfers_create"
    PROVE  Promised(c, o, t, u)
  BY DEF Promised, Promising

LEMMA PromisesUpdate ==
    ASSUME NEW c, NEW t, NEW u, c.tool \in Updates,
           Live(t, c.in.id), Live(u, c.in.id), c.in.id \in u.named
    PROVE  Promised(c, "done", t, u)
  BY Updating DEF Promised

LEMMA PromisesRemoval ==
    ASSUME NEW c, NEW t, NEW u, c.tool # "transactions_delete", ~Live(u, c.in.id)
    PROVE  Promised(c, "removed", t, u)
  BY DEF Promised

LEMMA PromisesTheRest ==
    ASSUME NEW c, NEW t, NEW u
    PROVE  /\ Live(u, c.in.id) /\ u = t => Promised(c, "unchanged", t, u)
           /\ c.tool = "transactions_delete" /\ u.txn[c.in.id] = None
                  => Promised(c, "removed", t, u)
           /\ c.tool = "accounts_close" /\ Live(u, c.in.id) /\ c.in.id \in u.closed
                  => Promised(c, "done", t, u)
           /\ c.tool = "accounts_reopen" /\ Live(u, c.in.id) /\ c.in.id \notin u.closed
                  => Promised(c, "done", t, u)
           /\ c.tool = "payees_merge" /\ Live(u, c.in.id)
                  /\ (\A p \in c.in.ids : Live(t, p) /\ ~Live(u, p))
                  => Promised(c, "done", t, u)
           /\ c.tool = "notes_update" /\ (c.in.id = None \/ Live(u, c.in.id))
                  => Promised(c, "done", t, u)
           /\ /\ c.tool = "transfers_create"
              /\ \A a \in {c.in.id, c.in.to} : Live(u, a) /\ a \notin u.closed
              /\ Balance(u, c.in.id) + Balance(u, c.in.to)
                     = Balance(t, c.in.id) + Balance(t, c.in.to)
              => Promised(c, "written", t, u)
<1>1. Live(u, c.in.id) /\ u = t => Promised(c, "unchanged", t, u)
  BY DEF Promised
<1>2. c.tool = "transactions_delete" /\ u.txn[c.in.id] = None => Promised(c, "removed", t, u)
  BY DEF Promised
<1>3. /\ c.tool = "accounts_close" /\ Live(u, c.in.id) /\ c.in.id \in u.closed
             => Promised(c, "done", t, u)
      /\ c.tool = "accounts_reopen" /\ Live(u, c.in.id) /\ c.in.id \notin u.closed
             => Promised(c, "done", t, u)
  BY Updating DEF Promised
<1>4. /\ c.tool = "payees_merge" /\ Live(u, c.in.id)
             /\ (\A p \in c.in.ids : Live(t, p) /\ ~Live(u, p))
             => Promised(c, "done", t, u)
      /\ c.tool = "notes_update" /\ (c.in.id = None \/ Live(u, c.in.id))
             => Promised(c, "done", t, u)
  BY Updating DEF Promised
<1>5. /\ c.tool = "transfers_create"
      /\ \A a \in {c.in.id, c.in.to} : Live(u, a) /\ a \notin u.closed
      /\ Balance(u, c.in.id) + Balance(u, c.in.to) = Balance(t, c.in.id) + Balance(t, c.in.to)
      => Promised(c, "written", t, u)
  BY Updating DEF Promised
<1> QED
  BY <1>1, <1>2, <1>3, <1>4, <1>5

\* The call that a step answers.
Calls(tool, b, in) == [tool |-> tool, budget |-> b, in |-> in]

LEMMA Answered ==
    ASSUME NEW tool, NEW b, NEW in, NEW reads, NEW keeps, Runs(tool, b, in, reads, keeps),
           Promised(Calls(tool, b, in), outcome', db[b], db'[b]),
           outcome' = "refused" /\ tool \in Updates => ~Live(db[b], in.id)
    PROVE  Honest
<1>1. call' = Calls(tool, b, in)
  BY DEF Runs, Calls
<1>2. Calls(tool, b, in).tool = tool /\ Calls(tool, b, in).budget = b /\ Calls(tool, b, in).in = in
  BY DEF Calls
<1> HIDE DEF Calls
<1> QED
  BY <1>1, <1>2 DEF Honest

(* A refusal, or a call that throws, promises nothing, and nor do the      *)
(* tools whose answer says only that the raw call returned.                *)
LEMMA AnsweredPlainly ==
    ASSUME NEW tool, NEW b, NEW in, NEW reads, NEW keeps, Runs(tool, b, in, reads, keeps),
           \/ outcome' \in {"refused", "failed"}
           \/ outcome' = "done" /\ tool \notin Promising
           \/ outcome' = "written" /\ tool # "transfers_create",
           outcome' = "refused" /\ tool \in Updates => ~Live(db[b], in.id)
    PROVE  Honest
<1>1. Calls(tool, b, in).tool = tool
  BY DEF Calls
<1>2. Promised(Calls(tool, b, in), outcome', db[b], db'[b])
  BY <1>1, PromisesNothing
<1> QED
  BY <1>2, Answered

LEMMA WritesEnd ==
    ASSUME LedgerInv, NEW b \in Budgets, NEW t, NEW o, Writes(b, t, o)
    PROVE  (outcome' = o /\ db'[b] = t) \/ outcome' = "failed"
  BY DEF Writes, Throws, Now, Ends, LedgerInv

LEMMA RefusesEnd == Refuses => outcome' = "refused" /\ db' = db
  BY DEF Refuses, Ends

LEMMA TombstoneLive ==
    ASSUME NEW t \in Tables, NEW D
    PROVE  \A j \in Entities : Live(Tombstone(t, D), j) <=> Live(t, j) /\ j \notin D
<1> DEFINE row == [j \in Entities |-> IF j \in D /\ Live(t, j) THEN "dead" ELSE t.row[j]]
<1>1. Tombstone(t, D) = [t EXCEPT !.row = row]
  BY DEF Tombstone
<1> HIDE DEF row
<1>2. Tombstone(t, D).row = row
  BY <1>1 DEF Tables
<1> QED
  BY <1>2 DEF row, Live

(* The balance of an account that gets a transaction.                      *)
LEMMA BalanceGrows ==
    ASSUME NEW t \in Tables, NEW u \in Tables, NEW a, NEW x \in Txns,
           t.txn[x] = None, u.txn[x] # None, u.txn[x].account = a,
           \A z \in Txns \ {x} : /\ z \in TxnsOf(u, a) <=> z \in TxnsOf(t, a)
                                 /\ z \in TxnsOf(t, a) => u.txn[z] = t.txn[z]
    PROVE  Balance(u, a) = u.txn[x].amount + Balance(t, a)
<1> DEFINE X == TxnsOf(t, a)
           Y == TxnsOf(u, a)
           f == [z \in X |-> t.txn[z].amount]
           g == [z \in Y |-> u.txn[z].amount]
<1>1. X \in SUBSET Txns /\ Y \in SUBSET Txns
  BY DEF TxnsOf
<1>2. Y = X \cup {x} /\ x \notin X
  BY DEF TxnsOf
<1>3. IsFiniteSet(X) /\ IsFiniteSet(Y)
  BY <1>1, TxnsFinite, FS_Subset
<1>4. /\ \A z \in X : t.txn[z] \in Txn /\ u.txn[z] = t.txn[z]
      /\ \A z \in Y : u.txn[z] \in Txn
  BY <1>2 DEF TxnsOf, Tables
<1>5. (\A z \in X : f[z] \in Int /\ g[z] = f[z]) /\ \A z \in Y : g[z] \in Int
  BY <1>2, <1>4 DEF Txn
<1>6. Balance(t, a) = SumFunctionOnSet(f, X) /\ Balance(u, a) = SumFunctionOnSet(g, Y)
  <2>1. DOMAIN f = X /\ DOMAIN g = Y
    OBVIOUS
  <2> QED
    BY <2>1 DEF Balance, SumFunction
<1>7. g[x] = u.txn[x].amount
  BY <1>2
<1>8. Y \ {x} = X
  BY <1>2
<1> HIDE DEF f, g, X, Y
<1>9. SumFunctionOnSet(g, Y) = g[x] + SumFunctionOnSet(g, Y \ {x})
  BY <1>2, <1>3, <1>5, SumTakesOut
<1>10. SumFunctionOnSet(g, X) = SumFunctionOnSet(f, X)
  BY <1>3, <1>5, SumSame
<1> QED
  BY <1>6, <1>7, <1>8, <1>9, <1>10

(* A transfer moves its amount and no more.                                *)
LEMMA TransferBalances ==
    ASSUME NEW t, Sound(t), NEW from \in Accounts, NEW to \in Accounts, from # to,
           Live(t, from), Live(t, to), NEW n \in Int, Cardinality(Unused(t)) >= 2
    PROVE  Balance(AddTransfer(t, from, to, n), from) + Balance(AddTransfer(t, from, to, n), to)
               = Balance(t, from) + Balance(t, to)
<1> DEFINE x == Min(Unused(t))
           y == Min(Unused(t) \ {x})
           u == AddTransfer(t, from, to, n)
           r1 == [Txn0(from, -n) EXCEPT !.peer = y]
           r2 == [Txn0(to, n) EXCEPT !.peer = x]
<1>1. t \in Tables /\ u \in Tables
  BY AddTransferSound DEF Sound
<1>2. x \in Txns /\ y \in Txns /\ x # y /\ t.txn[x] = None /\ t.txn[y] = None
  BY <1>1, TwoUnused DEF Unused
<1>3. u = [t EXCEPT !.txn[x] = r1, !.txn[y] = r2]
  BY DEF AddTransfer
<1> HIDE DEF x, y
<1>4. /\ r1.account = from /\ r1.amount = -n /\ r2.account = to /\ r2.amount = n
      /\ r1 \in Txn /\ r2 \in Txn
  <2>1. \A a, m : Txn0(a, m) = [account |-> a, amount |-> m, kids |-> None, peer |-> None,
                               unchecked |-> {}]
    BY DEF Txn0
  <2>2. -n \in Int
    OBVIOUS
  <2> QED
    BY <1>2, <2>1, <2>2 DEF Txn
<1> HIDE DEF r1, r2, u
<1>5. \A z \in Txns : u.txn[z] = IF z = y THEN r2 ELSE IF z = x THEN r1 ELSE t.txn[z]
  BY <1>1, <1>2, <1>3 DEF Tables
<1>6. r1 # None /\ r2 # None
  BY <1>4, TxnAssumption
<1>7. Balance(u, from) = r1.amount + Balance(t, from)
  <2>1. \A z \in Txns \ {x} : /\ z \in TxnsOf(u, from) <=> z \in TxnsOf(t, from)
                              /\ z \in TxnsOf(t, from) => u.txn[z] = t.txn[z]
    BY <1>2, <1>4, <1>5 DEF TxnsOf
  <2>2. u.txn[x] = r1
    BY <1>2, <1>5
  <2> QED
    BY <1>1, <1>2, <1>4, <1>6, <2>1, <2>2, BalanceGrows
<1>8. Balance(u, to) = r2.amount + Balance(t, to)
  <2>1. \A z \in Txns \ {y} : /\ z \in TxnsOf(u, to) <=> z \in TxnsOf(t, to)
                              /\ z \in TxnsOf(t, to) => u.txn[z] = t.txn[z]
    BY <1>2, <1>4, <1>5 DEF TxnsOf
  <2>2. u.txn[y] = r2
    BY <1>2, <1>5
  <2> QED
    BY <1>1, <1>2, <1>4, <1>6, <2>1, <2>2, BalanceGrows
<1>9. Balance(t, from) \in Int /\ Balance(t, to) \in Int
  BY <1>1, BalanceTyped
<1>10. Balance(u, from) + Balance(u, to) = Balance(t, from) + Balance(t, to)
  BY <1>4, <1>7, <1>8, <1>9
<1> QED
  BY <1>10 DEF u

(* The operations whose answer promises nothing more.                      *)
LEMMA PlainOpsHonest ==
    ASSUME LedgerInv, NEW b \in Budgets,
           \/ CreateAccount(b) \/ DeleteAccount(b) \/ CreateAccountGroup(b)
           \/ UpdateAccountGroup(b) \/ DeleteAccountGroup(b) \/ CreatePayee(b)
           \/ CreateCategory(b) \/ CreateCategoryGroup(b) \/ BudgetWrite(b)
           \/ AddTransactions(b) \/ ImportTransactions(b) \/ UpdateTransaction(b)
           \/ UpdateTransactionBatch(b)
    PROVE  Honest
<1> DEFINE Plain == {"accounts_create", "accounts_delete", "account_groups_create",
                     "account_groups_update", "account_groups_delete", "payees_create",
                     "categories_create", "category_groups_create", "budgets_setAmount",
                     "transactions_create", "transactions_import", "transactions_update",
                     "transactions_update_batch"}
           Ending(tool) == /\ \E in, reads, keeps : Runs(tool, b, in, reads, keeps)
                           /\ \/ outcome' \in {"done", "refused", "failed"}
                              \/ outcome' = "written"
<1>1. \A tool \in Plain : tool \notin Promising /\ tool \notin Updates /\ tool # "transfers_create"
  BY DEF Promising, Updates
<1>2. ASSUME NEW tool \in Plain, Ending(tool) PROVE Honest
  BY <1>1, <1>2, AnsweredPlainly
<1>3. CASE CreateAccount(b)
  BY <1>2, <1>3 DEF CreateAccount, Writes, Throws, Ends
<1>4. CASE DeleteAccount(b)
  <2>1. Ending("accounts_delete")
    BY <1>4 DEF DeleteAccount, Throws, Ends
  <2> QED
    BY <1>2, <2>1
<1>5. CASE CreateAccountGroup(b)
  BY <1>2, <1>5 DEF CreateAccountGroup, Writes, Throws, Ends
<1>6. CASE UpdateAccountGroup(b)
  BY <1>2, <1>6 DEF UpdateAccountGroup, Writes, Throws, Ends, Refuses
<1>7. CASE DeleteAccountGroup(b)
  BY <1>2, <1>7 DEF DeleteAccountGroup, Writes, Throws, Ends, Refuses
<1>8. CASE CreatePayee(b)
  BY <1>2, <1>8 DEF CreatePayee, Writes, Throws, Ends
<1>9. CASE CreateCategory(b)
  BY <1>2, <1>9 DEF CreateCategory, Writes, Throws, Ends
<1>10. CASE CreateCategoryGroup(b)
  BY <1>2, <1>10 DEF CreateCategoryGroup, Writes, Throws, Ends
<1>11. CASE BudgetWrite(b)
  BY <1>2, <1>11 DEF BudgetWrite, Writes, Throws, Ends, Refuses
<1>12. CASE AddTransactions(b)
  BY <1>2, <1>12 DEF AddTransactions, Writes, Throws, Ends, Refuses
<1>13. CASE ImportTransactions(b)
  BY <1>2, <1>13 DEF ImportTransactions, Writes, Throws, Ends
<1>14. CASE UpdateTransaction(b)
  BY <1>2, <1>14 DEF UpdateTransaction, Writes, Throws, Ends, Refuses
<1>15. CASE UpdateTransactionBatch(b)
  BY <1>2, <1>15 DEF UpdateTransactionBatch, Ends
<1> QED
  BY <1>3, <1>4, <1>5, <1>6, <1>7, <1>8, <1>9, <1>10, <1>11, <1>12, <1>13, <1>14, <1>15

(* An update of a row that the listing shows names a row that is there;    *)
(* one that it does not show is refused, and it is not there.              *)
LEMMA UpdateHonest ==
    ASSUME LedgerInv, NEW b \in Budgets, NEW tool \in Updates, NEW in, NEW k \in Kinds,
           in.id \in Ids[k], NEW reads, NEW keeps, Runs(tool, b, in, reads, keeps),
           NEW v, v.row = Put(db[b], in.id).row, v.named = Put(db[b], in.id).named,
           IF in.id \in Read(b, k).live THEN Writes(b, v, "done") ELSE Refuses
    PROVE  Honest
<1> DEFINE t == db[b]
           i == in.id
<1>1. i \in Entities /\ Sound(t) /\ t \in Tables
  BY EntitiesOf DEF LedgerInv, Sound
<1>2. i \in Read(b, k).live <=> Live(t, i)
  BY ReadFresh
<1>3. CASE ~Live(t, i)
  BY <1>2, <1>3, RefusesEnd, AnsweredPlainly
<1>4. CASE Live(t, i)
  <2>1. v.row = t.row
    BY <1>1, <1>4, PutSound
  <2>2. i \in v.named
    BY <1>1 DEF Put, Tables
  <2>3. Live(v, i)
    BY <1>4, <2>1 DEF Live
  <2>4. (outcome' = "done" /\ db'[b] = v) \/ outcome' = "failed"
    BY <1>2, <1>4, WritesEnd
  <2>5. CASE outcome' = "failed"
    BY <2>5, AnsweredPlainly
  <2>6. CASE outcome' = "done" /\ db'[b] = v
    <3> DEFINE c == Calls(tool, b, in)
    <3>1. c.tool = tool /\ c.in = in
      BY DEF Calls
    <3> HIDE DEF c
    <3>2. Promised(c, "done", t, v)
      BY <1>4, <2>2, <2>3, <3>1, PromisesUpdate
    <3> QED
      BY <2>6, <3>2, Answered DEF c
  <2> QED
    BY <2>4, <2>5, <2>6
<1> QED
  BY <1>3, <1>4

LEMMA UpdateAccountHonest ==
    ASSUME LedgerInv, NEW b \in Budgets, UpdateAccount(b)
    PROVE  Honest
<1> DEFINE u(in) == Put(db[b], in.id)
           v(in) == SetClosed(u(in), in)
<1>1. PICK in \in AccountUpdates :
          /\ Runs("accounts_update", b, [id |-> in.id], {"accounts"}, {})
          /\ IF in.id \in Read(b, "accounts").live THEN Writes(b, v(in), "done") ELSE Refuses
  BY DEF UpdateAccount
<1> DEFINE arg == [id |-> in.id]
<1>2. arg.id = in.id /\ in.id \in Ids["accounts"] /\ "accounts" \in Kinds
      /\ "accounts_update" \in Updates
  BY EntitiesOf, Updating DEF AccountUpdates, Kinds
<1>3. u(in) = [u(in) EXCEPT !.closed = u(in).closed] /\ v(in).row = u(in).row
      /\ v(in).named = u(in).named
  <2>1. db[b] \in Tables
    BY DEF LedgerInv, Sound
  <2>2. u(in) = [db[b] EXCEPT !.row = u(in).row, !.named = u(in).named]
    BY <2>1 DEF Put, Tables
  <2> HIDE DEF u
  <2> QED
    BY <2>1, <2>2 DEF SetClosed, Tables
<1> HIDE DEF v, arg
<1> QED
  BY <1>1, <1>2, <1>3, UpdateHonest DEF arg

LEMMA UpdatePayeeHonest ==
    ASSUME LedgerInv, NEW b \in Budgets, UpdatePayee(b)
    PROVE  Honest
<1> DEFINE u(in) == Put(db[b], in.id)
           v(in) == [u(in) EXCEPT !.link =
                       [p \in Payees |-> IF p = in.id /\ in.transfer_acct # None
                                         THEN in.transfer_acct ELSE @[p]]]
<1>1. PICK in \in PayeeUpdates :
          /\ Runs("payees_update", b, [id |-> in.id], {"payees"}, {})
          /\ IF in.id \in Read(b, "payees").live THEN Writes(b, v(in), "done") ELSE Refuses
  BY DEF UpdatePayee
<1> DEFINE arg == [id |-> in.id]
<1>2. arg.id = in.id /\ in.id \in Ids["payees"] /\ "payees" \in Kinds
      /\ "payees_update" \in Updates
  BY Updating DEF PayeeUpdates, Kinds
<1>3. v(in).row = u(in).row /\ v(in).named = u(in).named
  <2>1. u(in) = [db[b] EXCEPT !.row = u(in).row, !.named = u(in).named] /\ db[b] \in Tables
    BY DEF Put, Tables, LedgerInv, Sound
  <2> HIDE DEF u
  <2> QED
    BY <2>1 DEF Tables
<1> HIDE DEF v, arg
<1> QED
  BY <1>1, <1>2, <1>3, UpdateHonest DEF arg

LEMMA UpdateCategoryHonest ==
    ASSUME LedgerInv, NEW b \in Budgets, UpdateCategory(b)
    PROVE  Honest
<1> DEFINE u(c) == Put(db[b], c)
           v(c, g) == [u(c) EXCEPT !.home[c] = IF g = None THEN @ ELSE g]
<1>1. PICK c \in Categories, g \in Groups \cup {None} :
          /\ Runs("categories_update", b, [id |-> c], {"categories"}, {})
          /\ IF c \in Read(b, "categories").live THEN Writes(b, v(c, g), "done") ELSE Refuses
  BY DEF UpdateCategory
<1> DEFINE arg == [id |-> c]
<1>2. arg.id = c /\ c \in Ids["categories"] /\ "categories" \in Kinds
      /\ "categories_update" \in Updates
  BY EntitiesOf, Updating DEF Kinds
<1>3. v(c, g).row = u(c).row /\ v(c, g).named = u(c).named
  <2>1. u(c) = [db[b] EXCEPT !.row = u(c).row, !.named = u(c).named] /\ db[b] \in Tables
    BY DEF Put, Tables, LedgerInv, Sound
  <2> HIDE DEF u
  <2> QED
    BY <2>1 DEF Tables
<1> HIDE DEF v, arg
<1> QED
  BY <1>1, <1>2, <1>3, UpdateHonest DEF arg

LEMMA UpdateCategoryGroupHonest ==
    ASSUME LedgerInv, NEW b \in Budgets, UpdateCategoryGroup(b)
    PROVE  Honest
<1>1. PICK g \in Groups :
          /\ Runs("category_groups_update", b, [id |-> g], {"categoryGroups"}, {})
          /\ IF g \in Read(b, "categoryGroups").live
             THEN Writes(b, Put(db[b], g), "done") ELSE Refuses
  BY DEF UpdateCategoryGroup
<1> DEFINE arg == [id |-> g]
<1>2. arg.id = g /\ g \in Ids["categoryGroups"] /\ "categoryGroups" \in Kinds
      /\ "category_groups_update" \in Updates
  BY EntitiesOf, Updating DEF Kinds
<1> HIDE DEF arg
<1> QED
  BY <1>1, <1>2, UpdateHonest DEF arg

(* A deletion that writes leaves the row dead.                             *)
LEMMA DeletionHonest ==
    ASSUME LedgerInv, NEW b \in Budgets,
           NEW tool \in {"payees_delete", "categories_delete", "category_groups_delete"},
           NEW in, in.id \in Entities, NEW reads, NEW keeps, Runs(tool, b, in, reads, keeps),
           NEW v, ~Live(v, in.id), Writes(b, v, "removed") \/ Refuses
    PROVE  Honest
<1>1. tool \notin Updates /\ tool # "transactions_delete"
  BY Updating
<1>2. CASE outcome' \in {"refused", "failed"}
  BY <1>1, <1>2, AnsweredPlainly
<1>3. CASE outcome' = "removed" /\ db'[b] = v
  <2> DEFINE c == Calls(tool, b, in)
  <2>1. c.tool = tool /\ c.in = in
    BY DEF Calls
  <2> HIDE DEF c
  <2>2. Promised(c, "removed", db[b], v)
    BY <1>1, <2>1, PromisesRemoval
  <2> QED
    BY <1>3, <2>2, Answered DEF c
<1> QED
  BY <1>2, <1>3, WritesEnd, RefusesEnd

LEMMA DeletePayeeHonest ==
    ASSUME LedgerInv, NEW b \in Budgets, DeletePayee(b)
    PROVE  Honest
<1>1. PICK p \in Ids.payees :
          /\ Runs("payees_delete", b, [id |-> p], {"payees"}, {})
          /\ IF p \in Read(b, "payees").live /\ ~IsTransfer(Read(b, "payees"), p)
             THEN Writes(b, IF IsTransfer(List(db[b], "payees"), p) THEN db[b]
                            ELSE Tombstone(db[b], {p}), "removed")
             ELSE Refuses
  BY DEF DeletePayee
<1> DEFINE arg == [id |-> p]
           v == Tombstone(db[b], {p})
<1>2. Read(b, "payees") = List(db[b], "payees")
  BY ReadFresh DEF Kinds
<1>3. Writes(b, v, "removed") \/ Refuses
  BY <1>1, <1>2
<1>4. p \in Entities /\ arg.id = p
  BY EntitiesOf DEF Kinds
<1>5. ~Live(v, p)
  BY <1>4, TombstoneLive DEF LedgerInv, Sound
<1> HIDE DEF v, arg
<1> QED
  BY <1>1, <1>3, <1>4, <1>5, DeletionHonest DEF arg

LEMMA DeleteCategoryHonest ==
    ASSUME LedgerInv, NEW b \in Budgets, DeleteCategory(b)
    PROVE  Honest
<1>1. PICK c \in Categories :
          /\ Runs("categories_delete", b, [id |-> c], {"categories"}, {})
          /\ Writes(b, Tombstone(db[b], {c}), "removed") \/ Refuses
  BY DEF DeleteCategory
<1> DEFINE arg == [id |-> c]
           v == Tombstone(db[b], {c})
<1>2. c \in Entities /\ arg.id = c
  BY EntitiesOf
<1>3. ~Live(v, c)
  BY <1>2, TombstoneLive DEF LedgerInv, Sound
<1> HIDE DEF v, arg
<1> QED
  BY <1>1, <1>2, <1>3, DeletionHonest DEF arg, v

LEMMA DeleteCategoryGroupHonest ==
    ASSUME LedgerInv, NEW b \in Budgets, DeleteCategoryGroup(b)
    PROVE  Honest
<1>1. PICK g \in Groups :
          /\ Runs("category_groups_delete", b, [id |-> g], {"categoryGroups"}, {})
          /\ Writes(b, RawDeleteGroup(db[b], g), "removed") \/ Refuses
  BY DEF DeleteCategoryGroup
<1> DEFINE arg == [id |-> g]
           v == RawDeleteGroup(db[b], g)
<1>2. g \in Entities /\ arg.id = g
  BY EntitiesOf
<1>3. ~Live(v, g)
  <2> DEFINE D == {g} \cup {c \in Categories : db[b].home[c] = g}
  <2>1. g \in D /\ v = Tombstone(db[b], D)
    BY DEF RawDeleteGroup
  <2> HIDE DEF D, v
  <2> QED
    BY <1>2, <2>1, TombstoneLive DEF LedgerInv, Sound
<1> HIDE DEF v, arg
<1> QED
  BY <1>1, <1>2, <1>3, DeletionHonest DEF arg, v

LEMMA DeleteTransactionHonest ==
    ASSUME LedgerInv, NEW b \in Budgets, DeleteTransaction(b)
    PROVE  Honest
<1>1. PICK x \in Txns : /\ Runs("transactions_delete", b, [id |-> x], {}, {})
                        /\ Writes(b, DropTxns(db[b], {x}), "removed") \/ Refuses
  BY DEF DeleteTransaction
<1> DEFINE arg == [id |-> x]
           v == DropTxns(db[b], {x})
           tool == "transactions_delete"
<1>2. arg.id = x /\ tool \notin Updates
  BY Updating
<1>3. v.txn[x] = None
  BY DEF DropTxns, LedgerInv, Sound, Tables
<1> HIDE DEF v
<1>4. \/ outcome' = "removed" /\ db'[b] = v
      \/ outcome' \in {"refused", "failed"}
  BY <1>1, WritesEnd, RefusesEnd DEF v
<1>5. CASE outcome' \in {"refused", "failed"}
  BY <1>1, <1>2, <1>5, AnsweredPlainly
<1>6. CASE outcome' = "removed" /\ db'[b] = v
  <2> DEFINE c == Calls(tool, b, arg)
  <2>1. c.tool = tool /\ c.in.id = x
    BY DEF Calls
  <2> HIDE DEF c
  <2>2. Promised(c, "removed", db[b], v)
    BY <1>3, <2>1, PromisesTheRest
  <2> QED
    BY <1>1, <1>2, <1>6, <2>2, Answered DEF c
<1> QED
  BY <1>4, <1>5, <1>6

(* What a close, a reopen, a merge or a note says is there.                *)
LEMMA CloseAccountHonest ==
    ASSUME LedgerInv, NEW b \in Budgets, CloseAccount(b)
    PROVE  Honest
<1> DEFINE v(in) == RawClose(db[b], in.id, in.dest)
           told(in) == IF ~Live(v(in), in.id) THEN "removed"
                       ELSE IF in.id \in v(in).closed THEN "done" ELSE "failed"
           tool == "accounts_close"
<1>1. PICK in \in CloseInputs :
          /\ Runs("accounts_close", b, [id |-> in.id], {"accounts", "categories"}, {})
          /\ \/ Refuses
             \/ ~CloseRefused(b, in) /\ UNCHANGED db /\ Ends("unchanged")
             \/ UNCHANGED db /\ Ends("failed")
             \/ Writes(b, v(in), told(in))
  BY DEF CloseAccount
<1> DEFINE arg == [id |-> in.id]
           c == Calls(tool, b, arg)
<1>2. arg.id = in.id /\ tool \notin Updates /\ c.tool = tool /\ c.in = arg
  BY Updating DEF Calls
<1> HIDE DEF v
<1>3. \/ outcome' = "unchanged" /\ db'[b] = db[b] /\ ~CloseRefused(b, in)
      \/ outcome' = told(in) /\ db'[b] = v(in)
      \/ outcome' \in {"refused", "failed"}
  BY <1>1, WritesEnd, RefusesEnd DEF Ends
<1>4. CASE outcome' \in {"refused", "failed"}
  BY <1>1, <1>2, <1>4, AnsweredPlainly
<1> HIDE DEF c
<1>5. CASE outcome' = "unchanged" /\ db'[b] = db[b] /\ ~CloseRefused(b, in)
  <2>1. Live(db[b], in.id)
    BY <1>5, ReadFresh DEF CloseRefused, Kinds
  <2>2. Promised(c, "unchanged", db[b], db'[b])
    BY <1>2, <1>5, <2>1, PromisesTheRest
  <2> QED
    BY <1>1, <1>2, <1>5, <2>2, Answered DEF c
<1>6. CASE outcome' = told(in) /\ db'[b] = v(in) /\ told(in) # "failed"
  <2>1. CASE ~Live(v(in), in.id)
    <3>1. Promised(c, "removed", db[b], v(in))
      BY <1>2, <2>1, PromisesRemoval
    <3> QED
      BY <1>1, <1>2, <1>6, <2>1, <3>1, Answered DEF c
  <2>2. CASE Live(v(in), in.id) /\ in.id \in v(in).closed
    <3>1. Promised(c, "done", db[b], v(in))
      BY <1>2, <2>2, PromisesTheRest
    <3> QED
      BY <1>1, <1>2, <1>6, <2>2, <3>1, Answered DEF c
  <2> QED
    BY <1>6, <2>1, <2>2
<1> QED
  BY <1>3, <1>4, <1>5, <1>6

LEMMA ReopenAccountHonest ==
    ASSUME LedgerInv, NEW b \in Budgets, ReopenAccount(b)
    PROVE  Honest
<1> DEFINE u(a) == Put(db[b], a)
           v(a) == [u(a) EXCEPT !.closed = @ \ {a}]
           told(a) == IF Live(v(a), a) THEN "done" ELSE "failed"
           tool == "accounts_reopen"
<1>1. PICK a \in Accounts :
          /\ Runs("accounts_reopen", b, [id |-> a], {"accounts"}, {})
          /\ \/ Refuses
             \/ a \in Read(b, "accounts").live /\ UNCHANGED db /\ Ends("unchanged")
             \/ Writes(b, v(a), told(a))
  BY DEF ReopenAccount
<1> DEFINE arg == [id |-> a]
           c == Calls(tool, b, arg)
<1>2. arg.id = a /\ tool \notin Updates /\ c.tool = tool /\ c.in = arg
  BY Updating DEF Calls
<1>3. a \notin v(a).closed
  <2>1. u(a) = [db[b] EXCEPT !.row = u(a).row, !.named = u(a).named] /\ db[b] \in Tables
    BY DEF Put, Tables, LedgerInv, Sound
  <2> HIDE DEF u
  <2> QED
    BY <2>1 DEF Tables
<1> HIDE DEF v
<1>4. \/ outcome' = "unchanged" /\ db'[b] = db[b] /\ a \in Read(b, "accounts").live
      \/ outcome' = told(a) /\ db'[b] = v(a)
      \/ outcome' \in {"refused", "failed"}
  BY <1>1, WritesEnd, RefusesEnd DEF Ends
<1>5. CASE outcome' \in {"refused", "failed"}
  BY <1>1, <1>2, <1>5, AnsweredPlainly
<1> HIDE DEF c
<1>6. CASE outcome' = "unchanged" /\ db'[b] = db[b] /\ a \in Read(b, "accounts").live
  <2>1. Live(db[b], a)
    BY <1>6, ReadFresh DEF Kinds
  <2>2. Promised(c, "unchanged", db[b], db'[b])
    BY <1>2, <1>6, <2>1, PromisesTheRest
  <2> QED
    BY <1>1, <1>2, <1>6, <2>2, Answered DEF c
<1>7. CASE outcome' = told(a) /\ db'[b] = v(a) /\ told(a) # "failed"
  <2>1. Promised(c, "done", db[b], v(a))
    BY <1>2, <1>3, <1>7, PromisesTheRest
  <2> QED
    BY <1>1, <1>2, <1>7, <2>1, Answered DEF c
<1> QED
  BY <1>4, <1>5, <1>6, <1>7

LEMMA MergePayeesHonest ==
    ASSUME LedgerInv, NEW b \in Budgets, MergePayees(b)
    PROVE  Honest
<1> DEFINE l == Read(b, "payees")
           now == List(db[b], "payees")
           sources(in) == {p \in in.ids : ~IsTransfer(now, p)}
           v(in) == Tombstone(db[b], in.ids)
           tool == "payees_merge"
           Merges(in) == /\ {in.id} \cup in.ids \subseteq l.live
                         /\ \A p \in {in.id} \cup in.ids : ~IsTransfer(l, p)
                         /\ in.id \notin in.ids
<1>1. l = now
  BY ReadFresh DEF Kinds
<1>2. PICK in \in MergeInputs :
          /\ Runs("payees_merge", b, in, {"payees"}, {})
          /\ IF Merges(in)
             THEN Writes(b, IF IsTransfer(now, in.id) THEN db[b]
                            ELSE Tombstone(db[b], sources(in)), "done")
             ELSE Refuses
  BY DEF MergePayees
<1> DEFINE c == Calls(tool, b, in)
<1>3. tool \notin Updates /\ c.tool = tool /\ c.in = in
  BY Updating DEF Calls
<1>4. \/ Merges(in) /\ outcome' = "done" /\ db'[b] = v(in)
      \/ outcome' \in {"refused", "failed"}
  <2>1. CASE Merges(in)
    <3>1. sources(in) = in.ids /\ ~IsTransfer(now, in.id)
      BY <1>1, <2>1
    <3>2. Writes(b, v(in), "done")
      BY <1>2, <2>1, <3>1
    <3> HIDE DEF v
    <3> QED
      BY <2>1, <3>2, WritesEnd
  <2>2. CASE ~Merges(in)
    BY <1>2, <2>2, RefusesEnd
  <2> QED
    BY <2>1, <2>2
<1>5. CASE outcome' \in {"refused", "failed"}
  BY <1>2, <1>3, <1>5, AnsweredPlainly
<1> HIDE DEF c
<1>6. CASE Merges(in) /\ outcome' = "done" /\ db'[b] = v(in)
  <2>1. \A p \in {in.id} \cup in.ids : p \in Entities /\ Live(db[b], p)
    BY <1>1, <1>6, EntitiesOf DEF List, Kinds
  <2>2. Live(v(in), in.id) /\ \A p \in in.ids : Live(db[b], p) /\ ~Live(v(in), p)
    BY <1>6, <2>1, TombstoneLive DEF LedgerInv, Sound
  <2> HIDE DEF v
  <2>3. Promised(c, "done", db[b], v(in))
    BY <1>3, <2>2, PromisesTheRest
  <2> QED
    BY <1>2, <1>3, <1>6, <2>3, Answered DEF c
<1> QED
  BY <1>4, <1>5, <1>6

LEMMA UpdateNoteHonest ==
    ASSUME LedgerInv, NEW b \in Budgets, UpdateNote(b)
    PROVE  Honest
<1> DEFINE v(i) == [db[b] EXCEPT !.notes = @ \cup {i}]
           tool == "notes_update"
           arg(i) == [id |-> i]
           Noted(i, reads, u) == /\ Runs("notes_update", b, [id |-> i], reads, Kinds)
                                 /\ \/ Refuses
                                    \/ /\ i = None \/ Live(u, i)
                                       /\ Writes(b, u, "done")
<1>1. ASSUME NEW i, NEW reads, NEW u, Noted(i, reads, u) PROVE Honest
  <2> DEFINE c == Calls(tool, b, arg(i))
  <2>1. tool \notin Updates /\ c.tool = tool /\ c.in.id = i
    BY Updating DEF Calls
  <2>2. CASE outcome' \in {"refused", "failed"}
    BY <1>1, <2>1, <2>2, AnsweredPlainly
  <2> HIDE DEF c
  <2>3. CASE outcome' = "done" /\ db'[b] = u /\ (i = None \/ Live(u, i))
    <3>1. Promised(c, "done", db[b], u)
      BY <2>1, <2>3, PromisesTheRest
    <3> QED
      BY <1>1, <2>1, <2>3, <3>1, Answered DEF c
  <2> QED
    BY <1>1, <2>2, <2>3, WritesEnd, RefusesEnd
<1>2. \/ \E i \in Entities : /\ Runs("notes_update", b, [id |-> i], Kinds, Kinds)
                             /\ IF \E k \in Kinds : i \in Read(b, k).live
                                THEN Writes(b, v(i), "done") ELSE Refuses
      \/ Runs("notes_update", b, [id |-> None], {}, Kinds) /\ Writes(b, db[b], "done")
  BY DEF UpdateNote
<1>3. ASSUME NEW i \in Entities, NEW k \in Kinds, i \in Read(b, k).live PROVE Live(v(i), i)
  <2>1. Live(db[b], i)
    BY <1>3, ReadFresh
  <2> QED
    BY <2>1 DEF Live, LedgerInv, Sound, Tables
<1> HIDE DEF v
<1>4. \/ \E i \in Entities : Noted(i, Kinds, v(i))
      \/ Noted(None, {}, db[b])
  <2>1. CASE Runs("notes_update", b, [id |-> None], {}, Kinds) /\ Writes(b, db[b], "done")
    BY <2>1
  <2>2. ASSUME NEW i \in Entities, Runs("notes_update", b, [id |-> i], Kinds, Kinds),
               IF \E k \in Kinds : i \in Read(b, k).live THEN Writes(b, v(i), "done") ELSE Refuses
        PROVE  Noted(i, Kinds, v(i))
    <3>1. CASE \E k \in Kinds : i \in Read(b, k).live
      <4>1. Live(v(i), i)
        BY <1>3, <3>1
      <4> QED
        BY <2>2, <3>1, <4>1
    <3>2. CASE Refuses
      BY <2>2, <3>2
    <3> QED
      BY <2>2, <3>1, <3>2
  <2> HIDE DEF Noted
  <2>3. CASE \E i \in Entities : /\ Runs("notes_update", b, [id |-> i], Kinds, Kinds)
                                 /\ IF \E k \in Kinds : i \in Read(b, k).live
                                    THEN Writes(b, v(i), "done") ELSE Refuses
    BY <2>2, <2>3
  <2> QED
    BY <1>2, <2>1, <2>3 DEF Noted
<1> HIDE DEF Noted
<1> QED
  BY <1>1, <1>4

LEMMA CreateTransferHonest ==
    ASSUME LedgerInv, NEW b \in Budgets, CreateTransfer(b)
    PROVE  Honest
<1> DEFINE v(in) == AddTransfer(db[b], in.id, in.to, in.amount)
           tool == "transfers_create"
<1>1. PICK in \in TransferInputs :
          /\ Cardinality(Unused(db[b])) >= 2
          /\ Runs("transfers_create", b, in, {"accounts", "payees"}, {})
          /\ \/ Refuses
             \/ Transferable(b, in) /\ Now(b, v(in)) /\ outcome' = "written"
             \/ Throws(b, v(in))
  BY DEF CreateTransfer
<1> HIDE DEF v
<1> DEFINE c == Calls(tool, b, in)
<1>2. tool \notin Updates /\ c.tool = tool /\ c.in = in
  BY Updating DEF Calls
<1>3. CASE Refuses \/ Throws(b, v(in))
  <2>1. outcome' \in {"refused", "failed"}
    BY <1>3, RefusesEnd DEF Throws, Ends
  <2> QED
    BY <1>1, <1>2, <2>1, AnsweredPlainly
<1> HIDE DEF c
<1>4. CASE Transferable(b, in) /\ Now(b, v(in)) /\ outcome' = "written"
  <2>1. in.id \in Accounts /\ in.to \in Accounts /\ in.amount \in Int
    BY AmountsInt DEF TransferInputs
  <2>2. /\ Live(db[b], in.id) /\ Live(db[b], in.to) /\ in.id # in.to
        /\ in.id \notin db[b].closed /\ in.to \notin db[b].closed
    BY <1>4, ReadFresh DEF Transferable, Kinds
  <2>3. Sound(db[b])
    BY DEF LedgerInv
  <2>4. v(in).row = db[b].row /\ v(in).closed = db[b].closed
    BY <1>1, <2>1, <2>2, <2>3, AddTransferSound DEF v
  <2>5. Balance(v(in), in.id) + Balance(v(in), in.to)
            = Balance(db[b], in.id) + Balance(db[b], in.to)
    BY <1>1, <2>1, <2>2, <2>3, TransferBalances DEF v
  <2>6. \A a \in {in.id, in.to} : Live(v(in), a) /\ a \notin v(in).closed
    BY <2>2, <2>4 DEF Live
  <2>7. db'[b] = v(in)
    BY <1>4 DEF Now, LedgerInv
  <2>8. Promised(c, "written", db[b], v(in))
    BY <1>2, <2>5, <2>6, PromisesTheRest
  <2> QED
    BY <1>1, <1>2, <1>4, <2>7, <2>8, Answered DEF c
<1> QED
  BY <1>1, <1>3, <1>4

(* The reads after the drain.                                              *)
LEMMA FollowupsHonest ==
    ASSUME LedgerInv, TypeOK, NEW f \in followups, VerifyDeletion(f) \/ ReadBackTransfer(f)
    PROVE  Honest
<1> DEFINE c == Calls(f.tool, f.budget, [id |-> f.id])
<1>1. call' = c /\ db' = db /\ f.budget \in Budgets /\ f.id \in Accounts
  BY DEF VerifyDeletion, ReadBackTransfer, Calls, TypeOK
<1>2. c.tool = f.tool /\ c.budget = f.budget /\ c.in.id = f.id
  BY DEF Calls
<1> HIDE DEF c
<1>3. CASE VerifyDeletion(f)
  <2>1. f.tool = "accounts_delete"
        /\ outcome' = IF f.id \in List(db[f.budget], "accounts").live THEN "survives" ELSE "removed"
    BY <1>3 DEF VerifyDeletion
  <2>2. f.id \notin List(db[f.budget], "accounts").live => ~Live(db[f.budget], f.id)
    BY <1>1, EntitiesOf DEF List
  <2>3. Promised(c, outcome', db[f.budget], db'[f.budget])
    <3>1. CASE outcome' = "survives"
      BY <1>2, <2>1, <3>1, PromisesNothing
    <3>2. CASE outcome' = "removed"
      BY <1>1, <1>2, <2>1, <2>2, <3>2, PromisesRemoval
    <3> QED
      BY <2>1, <3>1, <3>2
  <2> QED
    BY <1>1, <1>2, <2>1, <2>3 DEF Honest
<1>4. CASE ReadBackTransfer(f)
  <2>1. f.tool = "transfers_create" /\ outcome' = "done" /\ "transfers_create" \notin Promising
    BY <1>4 DEF ReadBackTransfer, Promising, Updates
  <2>2. Promised(c, outcome', db[f.budget], db'[f.budget])
    BY <1>2, <2>1, PromisesNothing
  <2> QED
    BY <1>1, <1>2, <2>1, <2>2 DEF Honest
<1> QED
  BY <1>3, <1>4

LEMMA StepHonest ==
    ASSUME LedgerInv, TypeOK, [Next]_vars, steps' # steps \/ followups' # followups
    PROVE  Honest
<1>1. CASE \E b \in Budgets : AccountOps(b) \/ PayeeOps(b) \/ TxnOps(b)
  <2>1. PICK b \in Budgets : AccountOps(b) \/ PayeeOps(b) \/ TxnOps(b)
    BY <1>1
  <2>2. CASE AccountOps(b)
    BY <2>2, PlainOpsHonest, UpdateAccountHonest, CloseAccountHonest, ReopenAccountHonest
       DEF AccountOps
  <2>3. CASE PayeeOps(b)
    BY <2>3, PlainOpsHonest, UpdatePayeeHonest, DeletePayeeHonest, MergePayeesHonest,
       UpdateCategoryHonest, DeleteCategoryHonest, UpdateCategoryGroupHonest,
       DeleteCategoryGroupHonest, UpdateNoteHonest DEF PayeeOps
  <2>4. CASE TxnOps(b)
    BY <2>4, PlainOpsHonest, CreateTransferHonest, DeleteTransactionHonest DEF TxnOps
  <2> QED
    BY <2>1, <2>2, <2>3, <2>4
<1>2. CASE \E f \in followups : VerifyDeletion(f) \/ ReadBackTransfer(f)
  BY <1>2, FollowupsHonest
<1>3. CASE BeginDrain \/ EndDrain \/ UNCHANGED vars
  BY <1>3 DEF BeginDrain, EndDrain, vars
<1> QED
  BY <1>1, <1>2, <1>3 DEF Next

(* In one budget, an answer of success tells the truth, although the raw   *)
(* calls ignore some requests: what it says is written, removed, closed,   *)
(* merged or moved is so in the tables after the operation, and the two    *)
(* sides of a transfer keep their sum.                                     *)
THEOREM LedgerSuccessIsReal == OneBudget => (Spec => SuccessIsReal)
<1> DEFINE Step == steps' # steps \/ followups' # followups =>
                       Promised(call', outcome', db[call'.budget], db'[call'.budget])
<1>1. LedgerInv /\ TypeOK /\ [Next]_vars => [Step]_vars
  BY StepHonest DEF Honest
<1> QED
  BY <1>1, LedgerInvariant, LedgerTyped, PTL DEF Spec, SuccessIsReal

(* ... and an update that is refused for a missing target is refused       *)
(* rightly: the target is not there.                                       *)
THEOREM LedgerRefusalIsReal == OneBudget => (Spec => RefusalIsReal)
<1> DEFINE Step == steps' # steps /\ outcome' = "refused" /\ call'.tool \in Updates
                       => ~Live(db[call'.budget], call'.in.id)
<1>1. LedgerInv /\ TypeOK /\ [Next]_vars => [Step]_vars
  BY StepHonest DEF Honest
<1> QED
  BY <1>1, LedgerInvariant, LedgerTyped, PTL DEF Spec, RefusalIsReal

-----------------------------------------------------------------------------
HIDE LedgerAssumption

(***************************************************************************)
(* Insight.  The amounts of some rows, and their total: of nothing, of one *)
(* row, of two parts, of the groups of any grouping.                       *)
(***************************************************************************)
AmountsOf(U) == [r \in U |-> r.amount]
Summable(U) == IsFiniteSet(U) /\ \A r \in U : r.amount \in Int

LEMMA TotalIs ==
    ASSUME NEW U, Summable(U), NEW S \in SUBSET U
    PROVE  /\ Summable(S)
           /\ Total(S) \in Int
           /\ Total(S) = SumFunctionOnSet(AmountsOf(U), S)
<1>1. IsFiniteSet(S) /\ \A x \in S : AmountsOf(U)[x] \in Int
  BY FS_Subset DEF Summable, AmountsOf
<1>2. \A x \in S : AmountsOf(S)[x] = AmountsOf(U)[x]
  BY DEF AmountsOf
<1>3. Summable(S)
  BY <1>1 DEF Summable, AmountsOf
<1>4. SumFunctionOnSet(AmountsOf(U), S) \in Int
  BY <1>1, SumFolds
<1>5. SumFunctionOnSet(AmountsOf(S), S) = SumFunctionOnSet(AmountsOf(U), S)
  BY <1>1, <1>2, SumSame
<1>6. Total(S) = SumFunctionOnSet(AmountsOf(S), S)
  BY DEF Total, SumFunction, AmountsOf
<1> QED
  BY <1>3, <1>4, <1>5, <1>6

LEMMA TotalNone == Total({}) = 0
<1>1. Total({}) = SumFunctionOnSet(AmountsOf({}), {})
  BY DEF Total, SumFunction, AmountsOf
<1> QED
  BY <1>1, SumNone

LEMMA TotalOne ==
    ASSUME NEW r, r.amount \in Int
    PROVE  Total({r}) = r.amount
<1>1. Summable({r})
  BY FS_Singleton DEF Summable
<1>2. IsFiniteSet({r}) /\ (\A x \in {r} : AmountsOf({r})[x] \in Int) /\ r \in {r}
  BY <1>1 DEF Summable, AmountsOf
<1>3. SumFunctionOnSet(AmountsOf({r}), {r})
          = AmountsOf({r})[r] + SumFunctionOnSet(AmountsOf({r}), {r} \ {r})
  BY <1>2, SumTakesOut
<1>4. {r} \ {r} = {} /\ AmountsOf({r})[r] = r.amount
  BY DEF AmountsOf
<1>5. SumFunctionOnSet(AmountsOf({r}), {r}) = r.amount
  BY <1>3, <1>4, SumNone
<1>6. Total({r}) = SumFunctionOnSet(AmountsOf({r}), {r})
  BY <1>1, TotalIs
<1> QED
  BY <1>5, <1>6

LEMMA TotalParts ==
    ASSUME NEW U, Summable(U), NEW A, NEW B, U = A \cup B, A \cap B = {}
    PROVE  Total(U) = Total(A) + Total(B)
<1>1. IsFiniteSet(U) /\ \A x \in U : AmountsOf(U)[x] \in Int
  BY DEF Summable, AmountsOf
<1>2. SumFunctionOnSet(AmountsOf(U), U)
          = SumFunctionOnSet(AmountsOf(U), A) + SumFunctionOnSet(AmountsOf(U), B)
  <2> DEFINE f == AmountsOf(U)
  <2>1. \A x \in U : f[x] \in Int
    BY <1>1
  <2> HIDE DEF f
  <2>2. SumFunctionOnSet(f, U) = SumFunctionOnSet(f, A) + SumFunctionOnSet(f, B)
    BY <1>1, <2>1, SumParts
  <2> QED
    BY <2>2 DEF f
<1>3. U \in SUBSET U /\ A \in SUBSET U /\ B \in SUBSET U
  OBVIOUS
<1>4. /\ Total(U) = SumFunctionOnSet(AmountsOf(U), U)
      /\ Total(A) = SumFunctionOnSet(AmountsOf(U), A)
      /\ Total(B) = SumFunctionOnSet(AmountsOf(U), B)
  BY <1>3, TotalIs
<1> QED
  BY <1>2, <1>4

LEMMA TotalGroups ==
    ASSUME NEW U, Summable(U), NEW K, IsFiniteSet(K), NEW g, NEW h,
           \A k \in K : h[k] = Total(Group(U, g, k))
    PROVE  SumFunctionOnSet(h, K) = Total({x \in U : g[x] \in K})
<1>1. IsFiniteSet(U) /\ \A x \in U : AmountsOf(U)[x] \in Int
  BY DEF Summable, AmountsOf
<1>2. \A k \in K : h[k] = SumFunctionOnSet(AmountsOf(U), Group(U, g, k))
  <2> TAKE k \in K
  <2>1. Group(U, g, k) \in SUBSET U
    BY DEF Group
  <2> QED
    BY <2>1, TotalIs
<1>3. SumFunctionOnSet(h, K) = SumFunctionOnSet(AmountsOf(U), {x \in U : g[x] \in K})
  BY <1>1, <1>2, SumGroups
<1>4. {x \in U : g[x] \in K} \in SUBSET U
  OBVIOUS
<1> QED
  BY <1>3, <1>4, TotalIs

\* The values of a grouping are finitely many, and every row has one of them.
LEMMA TotalAllGroups ==
    ASSUME NEW U, Summable(U), NEW g, NEW h,
           DOMAIN h = {g[x] : x \in U},
           \A k \in DOMAIN h : h[k] = Total(Group(U, g, k))
    PROVE  SumFunction(h) = Total(U)
<1> DEFINE K == DOMAIN h
           m == [x \in U |-> g[x]]
<1>1. IsFiniteSet(K)
  <2>1. m \in Surjection(U, K)
    BY DEF Surjection
  <2> QED
    BY <2>1, FS_Surjection DEF Summable
<1>2. {x \in U : g[x] \in K} = U
  OBVIOUS
<1>3. SumFunction(h) = SumFunctionOnSet(h, K)
  BY DEF SumFunction
<1> HIDE DEF K
<1>4. \A k \in K : h[k] = Total(Group(U, g, k))
  BY DEF K
<1>5. SumFunctionOnSet(h, K) = Total({x \in U : g[x] \in K})
  BY <1>1, <1>4, TotalGroups
<1> QED
  BY <1>2, <1>3, <1>5

-----------------------------------------------------------------------------
(***************************************************************************)
(* What the recorded rows are: ids that no other row has, splits that are  *)
(* the sum of their children, and legs that name each other where both are *)
(* still there.  The ids lie in a range of their own, so that what is      *)
(* recorded next cannot be confused with what was recorded before.         *)
(***************************************************************************)
AllRows(B) == B \cup UNION {t.kids : t \in B}

FitRow(x, lo, hi) ==
    /\ x.id \in lo..hi /\ x.date \in Days /\ x.account \in Banks /\ x.amount \in Int
    /\ x.category \in Heads \cup {Nil} /\ x.payee \in Shops \cup Banks \cup {Nil}
    /\ x.transfer # Nil =>
          x.transfer \in lo..hi /\ x.payee \in Banks /\ x.payee # x.account /\ x.amount # 0

WellSplit(t) ==
    /\ t.parent = Nil
    /\ \A k \in t.kids :
          k.kids = {} /\ k.parent = t.id /\ k.date = t.date /\ k.account = t.account
    /\ t.kids # {} => t.amount = Total(t.kids) /\ t.transfer = Nil

Agree(x, y) ==
    /\ x.id = y.id => x = y
    /\ x.transfer # Nil /\ y.id = x.transfer =>
          y.transfer = x.id /\ y.account = x.payee /\ y.payee = x.account /\ y.amount = -x.amount

Entered(B, lo, hi) ==
    /\ \A t \in B : WellSplit(t)
    /\ \A x \in AllRows(B) : FitRow(x, lo, hi)
    /\ \A x, y \in AllRows(B) : Agree(x, y)

BookInv == records \in 0..MaxRecords /\ Entered(book, 10, NextId - 1)

\* The ids are a range of numbers and no two rows share one: there are finitely many rows.
LEMMA AllRowsFinite ==
    ASSUME NEW B, NEW lo \in Int, NEW hi \in Int, Entered(B, lo, hi)
    PROVE  IsFiniteSet(AllRows(B)) /\ Summable(AllRows(B))
<1> DEFINE A == AllRows(B)
           num == [x \in A |-> x.id]
<1>1. num \in Injection(A, lo..hi)
  <2>1. \A x \in A : x.id \in lo..hi
    BY DEF Entered, FitRow
  <2>2. \A x, y \in A : x.id = y.id => x = y
    BY DEF Entered, Agree
  <2> HIDE DEF A
  <2> QED
    BY <2>1, <2>2 DEF Injection, IsInjective
<1>2. IsFiniteSet(A)
  BY <1>1, FS_Injection, FS_Interval
<1> QED
  BY <1>2 DEF Summable, Entered, FitRow

\* What is recorded in ids of its own joins what was recorded before.
LEMMA EnteredApart ==
    ASSUME NEW B, NEW C, NEW lo \in Int, NEW mid \in Int, NEW hi \in Int, lo <= mid, mid < hi,
           Entered(B, lo, mid), Entered(C, mid + 1, hi)
    PROVE  Entered(B \cup C, lo, hi)
<1> DEFINE D == AllRows(B \cup C)
<1>1. D = AllRows(B) \cup AllRows(C)
  BY DEF AllRows
<1>2. \A x \in AllRows(B) : FitRow(x, lo, mid)
  BY DEF Entered
<1>3. \A x \in AllRows(C) : FitRow(x, mid + 1, hi)
  BY DEF Entered
<1>4. ASSUME NEW x \in D PROVE FitRow(x, lo, hi)
  <2>1. x \in AllRows(B) \/ x \in AllRows(C)
    BY <1>1
  <2>2. FitRow(x, lo, mid) \/ FitRow(x, mid + 1, hi)
    BY <1>2, <1>3, <2>1
  <2>3. lo..mid \subseteq lo..hi /\ (mid + 1)..hi \subseteq lo..hi
    OBVIOUS
  <2> QED
    BY <2>2, <2>3 DEF FitRow
<1>5. ASSUME NEW x \in D, NEW y \in D PROVE Agree(x, y)
  <2>1. CASE x \in AllRows(B) /\ y \in AllRows(B)
    BY <2>1 DEF Entered
  <2>2. CASE x \in AllRows(C) /\ y \in AllRows(C)
    BY <2>2 DEF Entered
  <2>3. CASE x \in AllRows(B) /\ y \in AllRows(C)
    <3>1. FitRow(x, lo, mid) /\ FitRow(y, mid + 1, hi)
      BY <1>2, <1>3, <2>3
    <3>2. x.id # y.id /\ (x.transfer # Nil => x.transfer # y.id)
      BY <3>1 DEF FitRow
    <3> QED
      BY <3>2 DEF Agree
  <2>4. CASE x \in AllRows(C) /\ y \in AllRows(B)
    <3>1. FitRow(y, lo, mid) /\ FitRow(x, mid + 1, hi)
      BY <1>2, <1>3, <2>4
    <3>2. x.id # y.id /\ (x.transfer # Nil => x.transfer # y.id)
      BY <3>1 DEF FitRow
    <3> QED
      BY <3>2 DEF Agree
  <2> QED
    BY <1>1, <1>5, <2>1, <2>2, <2>3, <2>4
<1>6. \A t \in B \cup C : WellSplit(t)
  BY DEF Entered
<1> QED
  BY <1>4, <1>5, <1>6 DEF Entered

\* Losing rows disturbs nothing that is known of the others.
LEMMA EnteredLess ==
    ASSUME NEW B, NEW lo, NEW hi, Entered(B, lo, hi), NEW C \in SUBSET B
    PROVE  Entered(C, lo, hi)
<1>1. AllRows(C) \subseteq AllRows(B)
  BY DEF AllRows
<1> QED
  BY <1>1 DEF Entered

\* What the actions make rows of.
LEMMA RowIs ==
    ASSUME NEW id, NEW day, NEW bank, NEW head, NEW payee, NEW amount
    PROVE  LET r == Row(id, day, bank, head, payee, amount)
           IN  /\ r.id = id /\ r.date = day /\ r.account = bank /\ r.category = head
               /\ r.payee = payee /\ r.amount = amount /\ r.transfer = Nil
               /\ r.parent = Nil /\ r.kids = {}
BY DEF Row

\* A row that is no leg and no split; a transfer.
LEMMA PostEnters ==
    ASSUME NEW id \in Int, NEW day \in Days, NEW bank \in Banks, NEW head \in Heads \cup {Nil},
           NEW payee \in Shops \cup {Nil}, NEW n \in Int,
           NEW r, r.id = id /\ r.date = day /\ r.account = bank /\ r.category = head
               /\ r.payee = payee /\ r.amount = n /\ r.transfer = Nil
               /\ r.parent = Nil /\ r.kids = {}
    PROVE  Entered({r}, id, id + 9)
<1>1. AllRows({r}) = {r}
  BY DEF AllRows
<1>2. FitRow(r, id, id + 9)
  BY DEF FitRow
<1>3. Agree(r, r)
  BY DEF Agree
<1>4. WellSplit(r)
  BY DEF WellSplit
<1> QED
  BY <1>1, <1>2, <1>3, <1>4 DEF Entered

\* A row, as far as the invariant cares.
IsRow(r, id, transfer, account, payee, date, category, amount, kids, parent) ==
    /\ r.id = id /\ r.transfer = transfer /\ r.account = account /\ r.payee = payee
    /\ r.date = date /\ r.category = category /\ r.amount = amount
    /\ r.kids = kids /\ r.parent = parent

LEMMA LegsAre ==
    ASSUME NEW id, NEW other, NEW from, NEW to, NEW day, NEW later, NEW head, NEW n
    PROVE  \E p, q : /\ Legs(id, other, from, to, day, later, head, n) = {p, q}
                     /\ IsRow(p, id, other, from, to, day, head, -n, {}, Nil)
                     /\ IsRow(q, other, id, to, from, later, Nil, n, {}, Nil)
<1> DEFINE p == [Row(id, day, from, head, to, -n) EXCEPT !.transfer = other]
           q == [Row(other, later, to, Nil, from, n) EXCEPT !.transfer = id]
<1>1. Legs(id, other, from, to, day, later, head, n) = {p, q}
  BY DEF Legs
<1>2. IsRow(p, id, other, from, to, day, head, -n, {}, Nil)
  BY DEF Row, IsRow
<1>3. IsRow(q, other, id, to, from, later, Nil, n, {}, Nil)
  BY DEF Row, IsRow
<1> HIDE DEF p, q
<1> QED
  BY <1>1, <1>2, <1>3

LEMMA TransferEnters ==
    ASSUME InsightAssumption,
           NEW id \in Int, NEW from \in Banks, NEW to \in Banks, from # to,
           NEW day \in Days, NEW later \in Days, NEW head \in Heads \cup {Nil},
           NEW n \in Int, n # 0
    PROVE  Entered(Legs(id, id + 1, from, to, day, later, head, n), id, id + 9)
<1>1. PICK p, q : /\ Legs(id, id + 1, from, to, day, later, head, n) = {p, q}
                  /\ IsRow(p, id, id + 1, from, to, day, head, -n, {}, Nil)
                  /\ IsRow(q, id + 1, id, to, from, later, Nil, n, {}, Nil)
  BY LegsAre
<1>2. AllRows({p, q}) = {p, q}
  BY <1>1 DEF AllRows, IsRow
<1>3. id # Nil /\ id + 1 # Nil
  BY DEF InsightAssumption
<1>4. FitRow(p, id, id + 9)
  BY <1>1, <1>3 DEF FitRow, IsRow
<1>5. FitRow(q, id, id + 9)
  BY <1>1, <1>3 DEF FitRow, IsRow
<1>6. Agree(p, q) /\ Agree(q, p) /\ Agree(p, p) /\ Agree(q, q)
  BY <1>1 DEF Agree, IsRow
<1>7. WellSplit(p) /\ WellSplit(q)
  BY <1>1 DEF WellSplit, IsRow
<1> QED
  BY <1>1, <1>2, <1>4, <1>5, <1>6, <1>7 DEF Entered

\* The rows of a split: the whole, a child, the leg that is a child, the other leg.
LEMMA SplitRows ==
    ASSUME InsightAssumption,
           NEW id \in Int, NEW bank \in Banks, NEW to \in Banks, bank # to,
           NEW day \in Days, NEW head \in Heads, NEW n \in Int, NEW m \in Int, m # 0,
           NEW w, NEW kid, NEW s, NEW q,
           IsRow(w, id, Nil, bank, Nil, day, Nil, n - m, {kid, s}, Nil),
           IsRow(kid, id + 3, Nil, bank, Nil, day, head, n, {}, id),
           IsRow(s, id + 1, id + 2, bank, to, day, Nil, -m, {}, id),
           IsRow(q, id + 2, id + 1, to, bank, day, Nil, m, {}, Nil)
    PROVE  Entered({w, q}, id, id + 9)
<1> DEFINE S == {w, q, kid, s}
<1>1. AllRows({w, q}) = S
  BY DEF AllRows, IsRow
<1>2. id # Nil /\ id + 1 # Nil /\ id + 2 # Nil /\ Nil \notin Banks
  BY DEF InsightAssumption
<1>3. \A x \in S : FitRow(x, id, id + 9)
  <2>1. FitRow(w, id, id + 9)
    BY <1>2 DEF FitRow, IsRow
  <2>2. FitRow(q, id, id + 9)
    BY <1>2 DEF FitRow, IsRow
  <2>3. FitRow(kid, id, id + 9)
    BY <1>2 DEF FitRow, IsRow
  <2>4. FitRow(s, id, id + 9)
    BY <1>2 DEF FitRow, IsRow
  <2> QED
    BY <2>1, <2>2, <2>3, <2>4
<1>4. WellSplit(q)
  BY DEF WellSplit, IsRow
<1>5. WellSplit(w)
  <2>1. Total({kid, s}) = n - m
    <3>1. kid # s
      BY DEF IsRow
    <3>2. IsFiniteSet({kid, s})
      <4>1. IsFiniteSet({kid} \cup {s})
        BY FS_Singleton, FS_AddElement
      <4>2. {kid} \cup {s} = {kid, s}
        OBVIOUS
      <4> QED
        BY <4>1, <4>2
    <3>3. Summable({kid, s})
      BY <3>2 DEF Summable, IsRow
    <3>4. {kid, s} = {kid} \cup {s} /\ {kid} \cap {s} = {}
      BY <3>1
    <3>5. Total({kid, s}) = Total({kid}) + Total({s})
      <4> DEFINE U == {kid, s}
                 A == {kid}
                 B == {s}
      <4>1. Summable(U) /\ U = A \cup B /\ A \cap B = {}
        BY <3>3, <3>4
      <4> HIDE DEF U, A, B
      <4>2. Total(U) = Total(A) + Total(B)
        BY <4>1, TotalParts
      <4> QED
        BY <4>2 DEF U, A, B
    <3>6. Total({kid}) = n
      BY TotalOne DEF IsRow
    <3>7. Total({s}) = -m
      BY TotalOne DEF IsRow
    <3> QED
      BY <3>5, <3>6, <3>7
  <2> QED
    BY <2>1 DEF WellSplit, IsRow
<1>6. ASSUME NEW x \in S, NEW y \in S
      PROVE  Agree(x, y)
  <2>1. /\ w.id = id /\ q.id = id + 2 /\ kid.id = id + 3 /\ s.id = id + 1
        /\ w.transfer = Nil /\ q.transfer = id + 1 /\ kid.transfer = Nil /\ s.transfer = id + 2
    BY DEF IsRow
  <2>2. x.id = y.id => x = y
    BY <2>1
  <2>3. x.transfer # Nil /\ y.id = x.transfer => (x = q /\ y = s) \/ (x = s /\ y = q)
    <3>1. CASE x = q
      <4>1. y.id = id + 1 => y = s
        BY <2>1
      <4>2. x.transfer = id + 1
        BY <2>1, <3>1
      <4> QED
        BY <3>1, <4>1, <4>2
    <3>2. CASE x = s
      <4>1. y.id = id + 2 => y = q
        BY <2>1
      <4>2. x.transfer = id + 2
        BY <2>1, <3>2
      <4>3. y.id = x.transfer => y = q
        BY <4>1, <4>2
      <4> QED
        BY <3>2, <4>3
    <3>3. CASE x = w \/ x = kid
      BY <2>1, <3>3
    <3> QED
      BY <3>1, <3>2, <3>3
  <2>4. /\ s.account = q.payee /\ s.payee = q.account
        /\ s.amount = -q.amount /\ q.amount = -s.amount
    BY DEF IsRow
  <2> QED
    BY <2>1, <2>2, <2>3, <2>4 DEF Agree
<1> HIDE DEF S
<1> QED
  BY <1>1, <1>3, <1>4, <1>5, <1>6 DEF Entered

LEMMA SplitEnters ==
    ASSUME InsightAssumption,
           NEW id \in Int, NEW bank \in Banks, NEW to \in Banks, bank # to,
           NEW day \in Days, NEW head \in Heads, NEW n \in Int, NEW m \in Int, m # 0,
           NEW legs, legs = Legs(id + 1, id + 2, bank, to, day, day, Nil, m),
           NEW kid, kid = [Row(id + 3, day, bank, head, Nil, n) EXCEPT !.parent = id],
           NEW sent, sent = {[l EXCEPT !.parent = id] : l \in {x \in legs : x.account = bank}},
           NEW w, w = [Row(id, day, bank, Nil, Nil, n - m) EXCEPT !.kids = {kid} \cup sent]
    PROVE  Entered({w} \cup {l \in legs : l.account = to}, id, id + 9)
<1> DEFINE p == [Row(id + 1, day, bank, Nil, to, -m) EXCEPT !.transfer = id + 2]
           q == [Row(id + 2, day, to, Nil, bank, m) EXCEPT !.transfer = id + 1]
           s == [p EXCEPT !.parent = id]
<1>1. legs = {p, q}
  BY DEF Legs
<1>2. p.account = bank /\ q.account = to
  BY DEF Row
<1>3. IsRow(q, id + 2, id + 1, to, bank, day, Nil, m, {}, Nil)
  BY DEF Row, IsRow
<1>4. IsRow(s, id + 1, id + 2, bank, to, day, Nil, -m, {}, id)
  BY DEF Row, IsRow
<1>5. IsRow(kid, id + 3, Nil, bank, Nil, day, head, n, {}, id)
  BY DEF Row, IsRow
<1> HIDE DEF p, q
<1>6. {l \in legs : l.account = to} = {q}
  BY <1>1, <1>2
<1>7. sent = {s}
  <2>1. {x \in legs : x.account = bank} = {p}
    BY <1>1, <1>2
  <2> QED
    BY <2>1
<1>8. {kid} \cup sent = {kid, s}
  BY <1>7
<1> HIDE DEF s
<1>9. IsRow(w, id, Nil, bank, Nil, day, Nil, n - m, {kid, s}, Nil)
  BY <1>8 DEF Row, IsRow
<1>10. Entered({w, q}, id, id + 9)
  BY <1>3, <1>4, <1>5, <1>9, SplitRows
<1>11. {w} \cup {q} = {w, q}
  OBVIOUS
<1> QED
  BY <1>6, <1>10, <1>11

\* An event that is entered in the ids after the last keeps the invariant.
LEMMA RecordKeeps ==
    ASSUME InsightAssumption, BookInv, NEW rows, Record(rows),
           Entered(rows, NextId, NextId + 9)
    PROVE  BookInv'
<1>1. /\ records \in 0..MaxRecords /\ records < MaxRecords /\ records' = records + 1
      /\ book' = book \cup rows
  BY DEF BookInv, Record
<1>2. MaxRecords \in Nat
  BY DEF InsightAssumption
<1>3. NextId \in Int /\ NextId' = NextId + 10 /\ NextId >= 10
  BY <1>1, <1>2 DEF NextId
<1>4. NextId - 1 \in Int /\ NextId + 9 \in Int /\ 10 \in Int /\ NextId = (NextId - 1) + 1
  BY <1>3
<1>5. CASE NextId - 1 >= 10
  <2>1. Entered(book \cup rows, 10, NextId + 9)
    <3>1. Entered(book, 10, NextId - 1) /\ Entered(rows, (NextId - 1) + 1, NextId + 9)
      BY <1>4 DEF BookInv
    <3> QED
      BY <1>3, <1>4, <1>5, <3>1, EnteredApart
  <2>2. NextId' - 1 = NextId + 9
    BY <1>3
  <2> QED
    BY <1>1, <1>2, <2>1, <2>2 DEF BookInv
<1>6. CASE NextId - 1 < 10
  <2>1. NextId = 10
    BY <1>3, <1>6
  <2>2. book = {}
    <3>1. book \subseteq AllRows(book)
      BY DEF AllRows
    <3>2. \A x \in AllRows(book) : x.id \in 10..9
      BY <2>1 DEF BookInv, Entered, FitRow
    <3> QED
      BY <3>1, <3>2
  <2>3. NextId' - 1 = NextId + 9 /\ book' = rows
    BY <1>1, <1>3, <2>2
  <2>4. Entered(book', 10, NextId' - 1)
    BY <2>1, <2>3
  <2> QED
    BY <1>1, <1>2, <2>4 DEF BookInv
<1> QED
  BY <1>3, <1>5, <1>6

LEMMA BookKeeps == InsightAssumption /\ BookInv /\ [BookNext]_bookVars => BookInv'
<1> SUFFICES ASSUME InsightAssumption, BookInv, [BookNext]_bookVars
             PROVE  BookInv'
  OBVIOUS
<1>1. NextId \in Int
  BY DEF BookInv, NextId, InsightAssumption
<1>2. Coins \subseteq Int /\ 0 \notin Coins /\ IncomeHeads \subseteq Heads
  BY DEF InsightAssumption
<1>3. ASSUME NEW day \in Days, NEW b \in Banks, NEW n \in Coins, NEW h \in Heads \cup {Nil},
             NEW shop \in Shops, Post(day, b, h, shop, n)
      PROVE  BookInv'
  <2> DEFINE r == Row(NextId, day, b, h, shop, n)
  <2>1. /\ r.id = NextId /\ r.date = day /\ r.account = b /\ r.category = h
        /\ r.payee = shop /\ r.amount = n /\ r.transfer = Nil /\ r.parent = Nil /\ r.kids = {}
    BY DEF Row
  <2>2. Record({r})
    BY <1>3 DEF Post
  <2> HIDE DEF r
  <2>3. Entered({r}, NextId, NextId + 9)
    BY <1>1, <1>2, <2>1, PostEnters
  <2> QED
    BY <2>2, <2>3, RecordKeeps
<1>4. ASSUME NEW day \in Days, NEW b \in Banks, NEW n \in Coins, NEW h \in IncomeHeads,
             Open(day, b, h, n)
      PROVE  BookInv'
  <2> DEFINE r == [Row(NextId, day, b, h, Nil, n) EXCEPT !.start = TRUE]
  <2>1. /\ r.id = NextId /\ r.date = day /\ r.account = b /\ r.category = h
        /\ r.payee = Nil /\ r.amount = n /\ r.transfer = Nil /\ r.parent = Nil /\ r.kids = {}
    BY DEF Row
  <2>2. Record({r})
    BY <1>4 DEF Open
  <2> HIDE DEF r
  <2>3. Entered({r}, NextId, NextId + 9)
    BY <1>1, <1>2, <2>1, PostEnters
  <2> QED
    BY <2>2, <2>3, RecordKeeps
<1>5. ASSUME NEW day \in Days, NEW later \in Days, NEW b \in Banks, NEW c \in Banks, b # c,
             NEW n \in Coins, n > 0, NEW h \in Heads \cup {Nil},
             Transfer(b, c, day, later, h, n)
      PROVE  BookInv'
  <2>1. Entered(Legs(NextId, NextId + 1, b, c, day, later, h, n), NextId, NextId + 9)
    BY <1>1, <1>2, <1>5, TransferEnters
  <2> QED
    BY <1>5, <2>1, RecordKeeps DEF Transfer
<1>6. ASSUME NEW day \in Days, NEW b \in Banks, NEW c \in Banks, b # c,
             NEW n \in Coins, n > 0, NEW h \in Heads, NEW m \in Coins,
             Split(day, b, c, h, m, n)
      PROVE  BookInv'
  <2> DEFINE legs == Legs(NextId + 1, NextId + 2, b, c, day, day, Nil, n)
             kid == [Row(NextId + 3, day, b, h, Nil, m) EXCEPT !.parent = NextId]
             sent == {[l EXCEPT !.parent = NextId] : l \in {x \in legs : x.account = b}}
             w == [Row(NextId, day, b, Nil, Nil, m - n) EXCEPT !.kids = {kid} \cup sent]
             rows == {w} \cup {l \in legs : l.account = c}
  <2>1. Entered(rows, NextId, NextId + 9)
    BY <1>1, <1>2, <1>6, SplitEnters
  <2>2. Record(rows)
    BY <1>6 DEF Split
  <2> HIDE DEF rows
  <2> QED
    BY <2>1, <2>2, RecordKeeps
<1>7. ASSUME NEW r \in book, Lose(r)
      PROVE  BookInv'
  <2>1. book' \in SUBSET book /\ records' = records
    BY <1>7 DEF Lose
  <2>2. Entered(book', 10, NextId - 1)
    BY <2>1, EnteredLess DEF BookInv
  <2> QED
    BY <2>1, <2>2 DEF BookInv, NextId
<1>8. CASE UNCHANGED bookVars
  BY <1>8 DEF bookVars, BookInv, NextId
<1>9. CASE BookNext
  <2>1. CASE \E day \in Days, b \in Banks, n \in Coins :
                \/ \E h \in Heads \cup {Nil}, shop \in Shops : Post(day, b, h, shop, n)
                \/ \E h \in IncomeHeads : Open(day, b, h, n)
    BY <1>3, <1>4, <2>1
  <2>2. CASE \E day \in Days, b, c \in Banks, n \in {x \in Coins : x > 0} :
                /\ b # c
                /\ \/ \E later \in {d \in Days : d >= day} : Transfer(b, c, day, later, Nil, n)
                   \/ \E h \in Heads : /\ b \notin OffBudget /\ c \in OffBudget
                                       /\ Transfer(b, c, day, day, h, n)
                   \/ \E h \in Heads, m \in Coins : Split(day, b, c, h, m, n)
    <3>1. PICK day \in Days, b \in Banks, c \in Banks, n \in {x \in Coins : x > 0} :
                /\ b # c
                /\ \/ \E later \in {d \in Days : d >= day} : Transfer(b, c, day, later, Nil, n)
                   \/ \E h \in Heads : /\ b \notin OffBudget /\ c \in OffBudget
                                       /\ Transfer(b, c, day, day, h, n)
                   \/ \E h \in Heads, m \in Coins : Split(day, b, c, h, m, n)
      BY <2>2
    <3>2. CASE \E later \in {d \in Days : d >= day} : Transfer(b, c, day, later, Nil, n)
      BY <1>5, <3>1, <3>2
    <3>3. CASE \E h \in Heads : /\ b \notin OffBudget /\ c \in OffBudget
                                /\ Transfer(b, c, day, day, h, n)
      BY <1>5, <3>1, <3>3
    <3>4. CASE \E h \in Heads, m \in Coins : Split(day, b, c, h, m, n)
      BY <1>6, <3>1, <3>4
    <3> QED
      BY <3>1, <3>2, <3>3, <3>4
  <2>3. CASE \E r \in book : Lose(r)
    BY <1>7, <2>3
  <2> QED
    BY <1>9, <2>1, <2>2, <2>3 DEF BookNext
<1> QED
  BY <1>8, <1>9

-----------------------------------------------------------------------------
(***************************************************************************)
(* The postings of some rows: the children of splits and the plain rows.   *)
(***************************************************************************)
LEMMA PostingsAre ==
    ASSUME InsightAssumption, BookInv, NEW B \in SUBSET book
    PROVE  /\ \A x : x \in PostingRows(B) <=>
                        (\E t \in B : x \in t.kids) \/ (x \in B /\ IsPlain(x))
           /\ PostingRows(B) \subseteq AllRows(book)
<1> DEFINE parents == {t.id : t \in {u \in B : ~IsPlain(u)}} \cup {t.parent : t \in B}
<1>1. B \subseteq AllRows(book)
  BY DEF AllRows
<1>2. \A t, u \in B : t.id = u.id => t = u
  BY <1>1 DEF BookInv, Entered, Agree
<1>3. \A t \in B : t.id \in Int /\ t.parent = Nil
  BY <1>1 DEF BookInv, Entered, FitRow, WellSplit
<1>4. \A t \in B : t.id # Nil
  BY <1>3 DEF InsightAssumption
<1>5. \A t \in B : IsPlain(t) => t.id \notin parents
  BY <1>2, <1>3, <1>4
<1>6. \A x : x \in PostingRows(B) <=>
                (\E t \in B : x \in t.kids) \/ (x \in B /\ IsPlain(x))
  <2> TAKE x
  <2> DEFINE kids == UNION {t.kids : t \in B}
             plain == {t \in B : IsPlain(t) /\ t.id \notin parents}
  <2>1. PostingRows(B) = kids \cup plain
    BY DEF PostingRows
  <2>2. x \in kids <=> \E t \in B : x \in t.kids
    OBVIOUS
  <2> HIDE DEF parents
  <2>3. x \in plain <=> x \in B /\ IsPlain(x)
    BY <1>5
  <2> HIDE DEF kids, plain
  <2> QED
    BY <2>1, <2>2, <2>3
<1>7. \A t \in B : t.kids \subseteq AllRows(book)
  BY DEF AllRows
<1> QED
  BY <1>1, <1>6, <1>7

\* What is known of every posting, and of every two.
Postings == PostingRows(book)

LEMMA PostingFacts ==
    ASSUME InsightAssumption, BookInv
    PROVE  /\ Summable(Postings)
           /\ \A x \in Postings : FitRow(x, 10, NextId - 1)
           /\ \A x, y \in Postings : Agree(x, y)
<1>1. NextId - 1 \in Int
  BY DEF BookInv, NextId, InsightAssumption
<1>2. Summable(AllRows(book))
  BY <1>1, AllRowsFinite DEF BookInv
<1>3. Postings \subseteq AllRows(book)
  BY PostingsAre DEF Postings
<1>4. Summable(Postings)
  BY <1>2, <1>3, TotalIs
<1>5. /\ \A x \in Postings : FitRow(x, 10, NextId - 1)
      /\ \A x, y \in Postings : Agree(x, y)
  BY <1>3 DEF BookInv, Entered
<1> QED
  BY <1>4, <1>5

\* The postings of a range are those of the rows of the range.
LEMMA PostingsInRange ==
    ASSUME InsightAssumption, BookInv, NEW from, NEW to
    PROVE  PostingRows(InRange(book, from, to)) = InRange(Postings, from, to)
<1> DEFINE B == InRange(book, from, to)
<1>1. B \in SUBSET book
  BY DEF InRange
<1>2. \A x : x \in PostingRows(B) <=>
                (\E t \in B : x \in t.kids) \/ (x \in B /\ IsPlain(x))
  BY <1>1, PostingsAre
<1>3. \A x : x \in Postings <=>
                (\E t \in book : x \in t.kids) \/ (x \in book /\ IsPlain(x))
  BY PostingsAre DEF Postings
<1>4. \A t \in book : \A k \in t.kids : k.date = t.date
  BY DEF BookInv, Entered, WellSplit
<1> QED
  BY <1>2, <1>3, <1>4 DEF InRange

\* The row of the book that a posting is in.
Owner == [x \in Postings |-> CHOOSE t \in book : x = t \/ x \in t.kids]

LEMMA OwnerIs ==
    ASSUME InsightAssumption, BookInv, NEW x \in Postings, NEW t \in book
    PROVE  Owner[x] = t <=> x = t \/ x \in t.kids
<1>1. \E u \in book : x = u \/ x \in u.kids
  BY PostingsAre DEF Postings
<1>2. ASSUME NEW u \in book, x = u \/ x \in u.kids, NEW v \in book, x = v \/ x \in v.kids
      PROVE  u = v
  <2>1. u \in AllRows(book) /\ v \in AllRows(book)
    BY DEF AllRows
  <2>2. (u.id = v.id => u = v) /\ u.id \in Int /\ v.id \in Int
    BY <2>1 DEF BookInv, Entered, Agree, FitRow
  <2>3. u.parent = Nil /\ v.parent = Nil
    BY DEF BookInv, Entered, WellSplit
  <2>4. (x \in u.kids => x.parent = u.id) /\ (x \in v.kids => x.parent = v.id)
    BY DEF BookInv, Entered, WellSplit
  <2>5. Nil \notin Int
    BY DEF InsightAssumption
  <2> QED
    BY <1>2, <2>2, <2>3, <2>4, <2>5
<1>3. Owner[x] \in book /\ (x = Owner[x] \/ x \in Owner[x].kids)
  BY <1>1 DEF Owner
<1> QED
  BY <1>2, <1>3

\* A register shows the sum of the postings, although it lists splits by their total.
Entries(banks, days) == {x \in Postings : x.account \in banks /\ x.date \in days}

LEMMA RegisterIs ==
    ASSUME InsightAssumption, BookInv, NEW banks, NEW days
    PROVE  Register(banks, days) = Total(Entries(banks, days))
<1> DEFINE K == {r \in book : r.account \in banks /\ r.date \in days}
           U == Entries(banks, days)
           h == AmountsOf(K)
<1>1. Summable(U)
  BY PostingFacts, TotalIs DEF Entries
<1>2. Summable(K)
  <2>1. NextId - 1 \in Int
    BY DEF BookInv, NextId, InsightAssumption
  <2>2. Summable(AllRows(book))
    BY <2>1, AllRowsFinite DEF BookInv
  <2>3. K \subseteq AllRows(book)
    BY DEF AllRows
  <2> QED
    BY <2>2, <2>3, TotalIs
<1>3. \A t \in book : \A x \in t.kids : x.date = t.date /\ x.account = t.account
  BY DEF BookInv, Entered, WellSplit
<1>4. \A x : x \in Postings <=>
                (\E t \in book : x \in t.kids) \/ (x \in book /\ IsPlain(x))
  BY PostingsAre DEF Postings
<1>5. ASSUME NEW k \in K
      PROVE  h[k] = Total(Group(U, Owner, k))
  <2>1. h[k] = k.amount
    BY DEF AmountsOf
  <2>2. \A x \in U : Owner[x] = k <=> x = k \/ x \in k.kids
    BY OwnerIs DEF Entries
  <2>3. k.amount \in Int /\ (k.kids # {} => k.amount = Total(k.kids))
    BY <1>2 DEF Summable, BookInv, Entered, WellSplit
  <2>4. CASE IsPlain(k)
    <3>1. k \in U /\ k.kids = {}
      BY <1>4, <2>4 DEF Entries, IsPlain
    <3>2. Group(U, Owner, k) = {k}
      BY <2>2, <3>1 DEF Group
    <3> QED
      BY <2>1, <2>3, <3>2, TotalOne
  <2>5. CASE ~IsPlain(k)
    <3>1. k.kids \subseteq U /\ k.kids # {}
      BY <1>3, <1>4, <2>5 DEF Entries, IsPlain
    <3>2. k \notin U
      <4>1. k \notin Postings
        <5>1. SUFFICES ASSUME k \in Postings
                       PROVE  FALSE
          OBVIOUS
        <5>2. PICK t \in book : k \in t.kids
          BY <1>4, <2>5, <5>1
        <5>3. k.kids = {}
          BY <5>2 DEF BookInv, Entered, WellSplit
        <5> QED
          BY <3>1, <5>3
      <4> QED
        BY <4>1 DEF Entries
    <3>3. Group(U, Owner, k) = k.kids
      BY <2>2, <3>1, <3>2 DEF Group
    <3> QED
      BY <2>1, <2>3, <3>1, <3>3
  <2> QED
    BY <2>4, <2>5
<1>6. \A x \in U : Owner[x] \in K
  <2> TAKE x \in U
  <2>1. PICK t \in book : x = t \/ x \in t.kids
    BY <1>4 DEF Entries
  <2>2. Owner[x] = t
    BY <2>1, OwnerIs DEF Entries
  <2> QED
    BY <1>3, <2>1, <2>2 DEF Entries
<1>7. Register(banks, days) = Total(K)
  BY DEF Register
<1>8. Total(K) = SumFunctionOnSet(h, K)
  BY <1>2, TotalIs
<1>9. IsFiniteSet(K)
  BY <1>2 DEF Summable
<1> HIDE DEF K, U, h
<1>10. SumFunctionOnSet(h, K) = Total({x \in U : Owner[x] \in K})
  BY <1>1, <1>5, <1>9, TotalGroups
<1>11. {x \in U : Owner[x] \in K} = U
  BY <1>6
<1> QED
  BY <1>7, <1>8, <1>10, <1>11 DEF U

-----------------------------------------------------------------------------
(***************************************************************************)
(* The values of some postings: every posting is in one class.             *)
(***************************************************************************)
Classes == {"transfer", "adjustment", "income", "credit", "uncategorized-inflow", "expense"}

LEMMA ClassIs ==
    ASSUME NEW r
    PROVE  /\ ClassifyExternal(r) \in Classes
           /\ ClassifyExternal(r) = "transfer" <=> r.transfer # Nil
<1>1. CASE r.transfer # Nil
  BY <1>1 DEF ClassifyExternal, Classes
<1>2. CASE r.transfer = Nil
  <2>1. CASE r.start
    BY <1>2, <2>1 DEF ClassifyExternal, Classes
  <2>2. CASE ~r.start
    <3>1. CASE r.category \in IncomeHeads
      BY <1>2, <2>2, <3>1 DEF ClassifyExternal, Classes
    <3>2. CASE r.category \notin IncomeHeads
      <4>1. CASE r.amount > 0
        BY <1>2, <2>2, <3>2, <4>1 DEF ClassifyExternal, Classes
      <4>2. CASE ~(r.amount > 0)
        BY <1>2, <2>2, <3>2, <4>2 DEF ClassifyExternal, Classes
      <4> QED
        BY <4>1, <4>2
    <3> QED
      BY <3>1, <3>2
  <2> QED
    BY <2>1, <2>2
<1> QED
  BY <1>1, <1>2

\* A part and the rest.
LEMMA TotalRest ==
    ASSUME NEW U, Summable(U), NEW A \in SUBSET U, NEW B, B = U \ A
    PROVE  /\ Total(U) = Total(A) + Total(B)
           /\ Total(U) \in Int /\ Total(A) \in Int /\ Total(B) \in Int
           /\ Summable(A) /\ Summable(B)
<1>1. U = A \cup B /\ A \cap B = {} /\ B \in SUBSET U /\ U \in SUBSET U
  OBVIOUS
<1>2. Total(U) = Total(A) + Total(B)
  BY <1>1, TotalParts
<1>3. Total(U) \in Int /\ Total(A) \in Int /\ Total(B) \in Int /\ Summable(A) /\ Summable(B)
  BY <1>1, TotalIs
<1> QED
  BY <1>2, <1>3

\* The net of the values is the total, and that of the transfers theirs.
LEMMA ClassesAddUp ==
    ASSUME NEW R, Summable(R)
    PROVE  /\ \A c \in Classes : Total(Of(R, c)) \in Int /\ Summable(Of(R, c))
           /\ Total(R) = Total(Of(R, "transfer")) + Total(Of(R, "adjustment"))
                            + Total(Of(R, "income")) + Total(Of(R, "credit"))
                            + Total(Of(R, "uncategorized-inflow")) + Total(Of(R, "expense"))
<1> DEFINE In(c) == Of(R, c)
           But(C) == {r \in R : ClassifyExternal(r) \notin C}
<1>1. ASSUME NEW c \in Classes
      PROVE  Total(In(c)) \in Int /\ Summable(In(c))
  BY TotalIs DEF Of
<1>2. ASSUME NEW C, NEW c, c \notin C
      PROVE  Total(But(C)) = Total(In(c)) + Total(But(C \cup {c}))
  <2>1. Summable(But(C))
    BY TotalIs
  <2>2. In(c) \in SUBSET But(C) /\ But(C \cup {c}) = But(C) \ In(c)
    BY <1>2 DEF Of
  <2> DEFINE U == But(C)
             A == In(c)
             B == But(C \cup {c})
  <2>3. Summable(U) /\ A \in SUBSET U /\ B = U \ A
    BY <2>1, <2>2
  <2> HIDE DEF U, A, B
  <2>4. Total(U) = Total(A) + Total(B)
    BY <2>3, TotalRest
  <2> QED
    BY <2>4 DEF U, A, B
<1>3. But({}) = R
  OBVIOUS
<1>4. But({"transfer", "adjustment", "income", "credit", "uncategorized-inflow"}) = In("expense")
  BY ClassIs DEF Of, Classes
<1>5. /\ {} \cup {"transfer"} = {"transfer"}
      /\ {"transfer"} \cup {"adjustment"} = {"transfer", "adjustment"}
      /\ {"transfer", "adjustment"} \cup {"income"} = {"transfer", "adjustment", "income"}
      /\ {"transfer", "adjustment", "income"} \cup {"credit"}
            = {"transfer", "adjustment", "income", "credit"}
      /\ {"transfer", "adjustment", "income", "credit"} \cup {"uncategorized-inflow"}
            = {"transfer", "adjustment", "income", "credit", "uncategorized-inflow"}
  OBVIOUS
<1> HIDE DEF But, In
<1>6. Total(R) = Total(In("transfer")) + Total(But({"transfer"}))
  BY <1>2, <1>3, <1>5
<1>7. Total(But({"transfer"}))
          = Total(In("adjustment")) + Total(But({"transfer", "adjustment"}))
  BY <1>2, <1>5
<1>8. Total(But({"transfer", "adjustment"}))
          = Total(In("income")) + Total(But({"transfer", "adjustment", "income"}))
  BY <1>2, <1>5
<1>9. Total(But({"transfer", "adjustment", "income"}))
          = Total(In("credit")) + Total(But({"transfer", "adjustment", "income", "credit"}))
  BY <1>2, <1>5
<1>10. Total(But({"transfer", "adjustment", "income", "credit"}))
           = Total(In("uncategorized-inflow")) + Total(In("expense"))
  BY <1>2, <1>4, <1>5
<1>11. /\ Total(In("transfer")) \in Int /\ Total(In("adjustment")) \in Int
       /\ Total(In("income")) \in Int /\ Total(In("credit")) \in Int
       /\ Total(In("uncategorized-inflow")) \in Int /\ Total(In("expense")) \in Int
  BY <1>1 DEF Classes
<1>12. Total(R) = Total(In("transfer")) + Total(In("adjustment")) + Total(In("income"))
           + Total(In("credit")) + Total(In("uncategorized-inflow")) + Total(In("expense"))
  BY <1>6, <1>7, <1>8, <1>9, <1>10, <1>11
<1> QED
  BY <1>1, <1>12 DEF In

LEMMA TransfersAddUp ==
    ASSUME NEW R, Summable(R)
    PROVE  /\ Total(R) = Total(Inflows(R)) + Total(Outflows(R))
           /\ Total(Inflows(R)) \in Int /\ Total(Outflows(R)) \in Int
<1>1. Inflows(R) \in SUBSET R /\ Outflows(R) = R \ Inflows(R)
  BY DEF Summable, Inflows, Outflows
<1> QED
  BY <1>1, TotalRest

LEMMA ValuesAre ==
    ASSUME NEW R, Summable(R)
    PROVE  LET v == Values(R)
           IN  /\ v.expenseOutflow = -Total(Of(R, "expense"))
               /\ v.credits = Total(Of(R, "credit"))
               /\ v.income = Total(Of(R, "income"))
               /\ v.uncategorizedInflows = Total(Of(R, "uncategorized-inflow"))
               /\ v.adjustments = Total(Of(R, "adjustment"))
               /\ v.transferInflow = Total(Inflows(Of(R, "transfer")))
               /\ v.transferOutflow = -Total(Outflows(Of(R, "transfer")))
BY DEF Values

-----------------------------------------------------------------------------
(***************************************************************************)
(* The account flow.                                                       *)
(***************************************************************************)
DaysOf(from, to) == {d \in Days : from <= d /\ d <= to}

\* The change of the balances is what was posted in the range.
LEMMA ChangeIs ==
    ASSUME InsightAssumption, BookInv, NEW from \in Days, NEW to \in Days, from <= to,
           NEW banks \in SUBSET Banks
    PROVE  Change(AnalysisSnapshot(from, to, banks)) = Total(Entries(banks, DaysOf(from, to)))
<1> DEFINE E == Entries(banks, DaysOf(from, to))
           g == [x \in Postings |-> x.account]
           until(b, days) == {r \in Postings : r.account = b /\ r.date \in days}
           before == {d \in Days : d < from}
           ended == {d \in Days : d <= to}
           h == [b \in banks |-> Total(until(b, ended)) - Total(until(b, before))]
<1>1. Change(AnalysisSnapshot(from, to, banks)) = SumFunctionOnSet(h, banks)
  <2> DEFINE s == AnalysisSnapshot(from, to, banks)
  <2>1. /\ s.opening = [b \in banks |-> Total(until(b, before))]
        /\ s.closing = [b \in banks |-> Total(until(b, ended))]
    BY DEF AnalysisSnapshot, Postings
  <2> HIDE DEF s, until, before, ended
  <2>2. [b \in DOMAIN s.closing |-> s.closing[b] - s.opening[b]] = h
    BY <2>1
  <2>3. DOMAIN h = banks
    OBVIOUS
  <2> HIDE DEF h
  <2>4. Change(s) = SumFunctionOnSet(h, banks)
    BY <2>2, <2>3 DEF Change, SumFunction
  <2> QED
    BY <2>4 DEF s
<1>2. Summable(E) /\ Summable(Postings)
  BY PostingFacts, TotalIs DEF Entries
<1>3. from \in Int /\ to \in Int /\ \A x \in Postings : x.date \in Days /\ x.date \in Int
  <2>1. Days \subseteq Int
    BY DEF InsightAssumption
  <2>2. \A x \in Postings : x.date \in Days
    BY PostingFacts DEF FitRow
  <2> QED
    BY <2>1, <2>2
<1>4. ASSUME NEW b \in banks
      PROVE  h[b] = Total(Group(E, g, b))
  <2> DEFINE G == Group(E, g, b)
             L == until(b, ended)
             P == until(b, before)
  <2>1. \A x : x \in G <=> x \in Postings /\ x.account = b /\ x.date \in DaysOf(from, to)
    BY DEF Group, Entries
  <2>2. P \in SUBSET L /\ G = L \ P
    BY <1>3, <2>1 DEF DaysOf
  <2>3. Summable(L)
    BY <1>2, TotalIs
  <2>4. h[b] = Total(L) - Total(P)
    OBVIOUS
  <2> HIDE DEF G, L, P, h
  <2>5. Total(L) = Total(P) + Total(G) /\ Total(P) \in Int /\ Total(G) \in Int
    BY <2>2, <2>3, TotalRest
  <2>6. h[b] = Total(G)
    BY <2>4, <2>5
  <2> QED
    BY <2>6 DEF G
<1>5. IsFiniteSet(banks)
  BY FS_Subset DEF InsightAssumption
<1>6. {x \in E : g[x] \in banks} = E
  BY DEF Entries
<1> HIDE DEF E, g, h
<1>7. SumFunctionOnSet(h, banks) = Total({x \in E : g[x] \in banks})
  BY <1>2, <1>4, <1>5, TotalGroups
<1> QED
  BY <1>1, <1>6, <1>7 DEF E

\* The account at the other end of a leg is its payee, also when the other leg is lost.
LEMMA CounterpartIs ==
    ASSUME InsightAssumption, BookInv, NEW from, NEW to, NEW banks,
           NEW r \in Postings, r.transfer # Nil
    PROVE  CounterpartAccount(r, AnalysisSnapshot(from, to, banks)) = r.payee
<1> DEFINE s == AnalysisSnapshot(from, to, banks)
           found == {c \in s.counterparts : c.id = r.transfer}
<1>1. s.counterparts \subseteq Postings
  BY DEF AnalysisSnapshot, Postings
<1>2. \A c \in found : c.account = r.payee
  <2>1. \A c \in Postings : Agree(r, c)
    BY PostingFacts
  <2> QED
    BY <1>1, <2>1 DEF Agree
<1>3. r.payee \in Banks
  BY PostingFacts DEF FitRow
<1> HIDE DEF s
<1>4. CASE found # {}
  <2>1. (CHOOSE c \in found : TRUE) \in found
    BY <1>4
  <2>2. CounterpartAccount(r, s) = (CHOOSE c \in found : TRUE).account
    BY <1>4 DEF CounterpartAccount
  <2> QED
    BY <1>2, <2>1, <2>2 DEF s
<1>5. CASE found = {}
  <2>1. CounterpartAccount(r, s) = r.payee
    BY <1>3, <1>5 DEF CounterpartAccount
  <2> QED
    BY <2>1 DEF s
<1> QED
  BY <1>4, <1>5

\* A pair of legs is one line, from one account to another.
LEMMA LinesAre ==
    ASSUME InsightAssumption, BookInv, NEW from, NEW to, NEW banks,
           NEW legs \in SUBSET Postings,
           \A r \in legs : r.transfer # Nil /\ r.account \in banks
    PROVE  LET lines == TransfersByAccount(legs, banks, AnalysisSnapshot(from, to, banks))
           IN  /\ \A x, y \in lines : x.pair = y.pair => x = y
               /\ \A x \in lines : x.from # x.to
<1> DEFINE s == AnalysisSnapshot(from, to, banks)
           Line(r) == [pair |-> PairKey(r), from |-> IF r.amount < 0 THEN r.account ELSE r.payee,
                       to |-> IF r.amount < 0 THEN r.payee ELSE r.account,
                       within |-> r.payee \in banks]
           lines == {Line(r) : r \in legs}
<1>1. \A r \in legs : CounterpartAccount(r, s) = r.payee
  BY CounterpartIs
<1>2. TransfersByAccount(legs, banks, s) = lines
  BY <1>1 DEF TransfersByAccount
<1>3. ASSUME NEW r \in legs
      PROVE  r.payee # r.account /\ r.amount \in Int /\ r.amount # 0
  BY PostingFacts DEF FitRow
<1>4. ASSUME NEW r \in legs, NEW q \in legs, PairKey(r) = PairKey(q)
      PROVE  Line(r) = Line(q)
  <2>1. Agree(r, q)
    BY PostingFacts
  <2>2. CASE r.id = q.id
    BY <2>1, <2>2 DEF Agree
  <2>3. CASE r.id # q.id
    <3>1. q.id = r.transfer
      BY <1>4, <2>3 DEF PairKey
    <3>2. q.account = r.payee /\ q.payee = r.account /\ q.amount = -r.amount
      BY <2>1, <3>1 DEF Agree
    <3>3. q.amount < 0 <=> ~(r.amount < 0)
      BY <1>3, <3>2
    <3>4. r.payee \in banks /\ q.payee \in banks
      BY <3>2
    <3> QED
      BY <1>4, <3>2, <3>3, <3>4
  <2> QED
    BY <2>2, <2>3
<1>5. \A r \in legs : Line(r).pair = PairKey(r) /\ Line(r).from # Line(r).to
  BY <1>3
<1> HIDE DEF Line
<1> QED
  BY <1>2, <1>4, <1>5

\* What is transferred into, out of and within a selection is its transfers.
LEMMA TransferFlowIs ==
    ASSUME NEW legs, Summable(legs), NEW banks, NEW s
    PROVE  LET t == TransferFlow(legs, banks, s)
           IN  /\ t.net = Total(legs) /\ t.into - t.outOf + t.timing = t.net
               /\ (\A r \in legs : CounterpartAccount(r, s) \in banks) =>
                      t.into = 0 /\ t.outOf = 0
<1> DEFINE t == TransferFlow(legs, banks, s)
           inside == {r \in legs : CounterpartAccount(r, s) \in banks}
           rest == legs \ inside
<1>1. /\ t.net = Total(legs) /\ t.into = Total(Inflows(rest))
      /\ t.outOf = -Total(Outflows(rest)) /\ t.timing = Total(inside)
  BY DEF TransferFlow
<1>2. Total(legs) = Total(inside) + Total(rest) /\ Total(inside) \in Int /\ Summable(rest)
  <2>1. inside \in SUBSET legs
    OBVIOUS
  <2> HIDE DEF inside
  <2> QED
    BY <2>1, TotalRest
<1>3. /\ Total(rest) = Total(Inflows(rest)) + Total(Outflows(rest))
      /\ Total(Inflows(rest)) \in Int /\ Total(Outflows(rest)) \in Int
  <2> HIDE DEF rest
  <2> QED
    BY <1>2, TransfersAddUp
<1>4. ASSUME \A r \in legs : CounterpartAccount(r, s) \in banks
      PROVE  t.into = 0 /\ t.outOf = 0
  <2>1. Inflows(rest) = {} /\ Outflows(rest) = {}
    BY <1>4 DEF Inflows, Outflows
  <2> HIDE DEF t, inside
  <2> QED
    BY <1>1, <2>1, TotalNone
<1> HIDE DEF t, inside, rest
<1>5. t.into - t.outOf + t.timing = t.net
  BY <1>1, <1>2, <1>3
<1> QED
  BY <1>1, <1>4, <1>5 DEF t

\* The difference of the reconciliation is nought: every posting is in one class.
LEMMA FlowIsExact ==
    ASSUME InsightAssumption, BookInv, NEW from \in Days, NEW to \in Days, from <= to,
           NEW banks \in SUBSET Banks
    PROVE  FlowReconciles(from, to, banks)
<1> DEFINE s == AnalysisSnapshot(from, to, banks)
           E == Entries(banks, DaysOf(from, to))
           legs == Of(E, "transfer")
           v == Values(E)
           t == TransferFlow(legs, banks, s)
           lines == TransfersByAccount(legs, banks, s)
           flow == SummarizeAccountFlow(from, to, banks)
<1>1. {r \in InRange(PostingRows(s.rows), from, to) : r.account \in banks} = E
  <2>1. s.rows = InRange(book, from, to)
    BY DEF AnalysisSnapshot
  <2>2. PostingRows(s.rows) = InRange(Postings, from, to)
    BY <2>1, PostingsInRange
  <2>3. \A x \in Postings : x.date \in Days
    BY PostingFacts DEF FitRow
  <2> QED
    BY <2>2, <2>3 DEF InRange, Entries, DaysOf
<1>2. flow = Reconciliation(v, t, Change(s), lines)
  BY <1>1 DEF SummarizeAccountFlow, FlowWithin
<1>3. Summable(E) /\ E \in SUBSET Postings
  BY PostingFacts, TotalIs DEF Entries
<1>4. Change(s) = Total(E)
  BY ChangeIs
<1>5. Register(banks, {d \in Days : from <= d /\ d <= to}) = Total(E)
  BY RegisterIs DEF DaysOf
<1>6. /\ \A c \in Classes : Total(Of(E, c)) \in Int /\ Summable(Of(E, c))
      /\ Total(E) = Total(Of(E, "transfer")) + Total(Of(E, "adjustment"))
                        + Total(Of(E, "income")) + Total(Of(E, "credit"))
                        + Total(Of(E, "uncategorized-inflow")) + Total(Of(E, "expense"))
  BY <1>3, ClassesAddUp
<1>7. Summable(legs)
  BY <1>6 DEF Classes
<1>8. t.net = Total(legs) /\ t.into - t.outOf + t.timing = t.net
  <2> HIDE DEF legs, s
  <2> QED
    BY <1>7, TransferFlowIs DEF t
<1>9. legs \in SUBSET Postings /\ \A r \in legs : r.transfer # Nil /\ r.account \in banks
  BY <1>3, ClassIs DEF Of, Entries
<1>10. (\A x, y \in lines : x.pair = y.pair => x = y) /\ \A x \in lines : x.from # x.to
  <2> HIDE DEF legs
  <2> QED
    BY <1>9, LinesAre
<1>11. banks = Banks => t.into = 0 /\ t.outOf = 0
  <2>1. \A r \in legs : CounterpartAccount(r, s) \in Banks
    <3> TAKE r \in legs
    <3>1. r \in Postings /\ r.transfer # Nil
      BY <1>9
    <3>2. CounterpartAccount(r, s) = r.payee
      BY <3>1, CounterpartIs
    <3>3. r.payee \in Banks
      BY <3>1, PostingFacts DEF FitRow
    <3> QED
      BY <3>2, <3>3
  <2> HIDE DEF legs, s
  <2> QED
    BY <1>7, <2>1, TransferFlowIs DEF t
<1>12. /\ v.expenseOutflow = -Total(Of(E, "expense")) /\ v.credits = Total(Of(E, "credit"))
       /\ v.income = Total(Of(E, "income"))
       /\ v.uncategorizedInflows = Total(Of(E, "uncategorized-inflow"))
       /\ v.adjustments = Total(Of(E, "adjustment"))
  BY <1>3, ValuesAre
<1> HIDE DEF s, E, v, t, lines, flow
<1>13. /\ flow.transfers = t /\ flow.lines = lines /\ flow.actual = Total(E)
       /\ flow.difference = Total(E) - (v.income + v.credits + v.uncategorizedInflows
                                           - v.expenseOutflow + t.net + v.adjustments)
  BY <1>2, <1>4 DEF Reconciliation
<1>14. /\ Total(Of(E, "transfer")) \in Int /\ Total(Of(E, "adjustment")) \in Int
       /\ Total(Of(E, "income")) \in Int /\ Total(Of(E, "credit")) \in Int
       /\ Total(Of(E, "uncategorized-inflow")) \in Int /\ Total(Of(E, "expense")) \in Int
  BY <1>6 DEF Classes
<1>15. flow.difference = 0
  BY <1>6, <1>8, <1>12, <1>13, <1>14
<1>16. Reconciles(flow, Total(E), banks = Banks)
  BY <1>8, <1>10, <1>11, <1>13, <1>15 DEF Reconciles
<1> QED
  BY <1>5, <1>16 DEF FlowReconciles, flow

-----------------------------------------------------------------------------
(***************************************************************************)
(* The aggregates: a field of the totals is that of the groups together.   *)
(***************************************************************************)
Keys(R, dims) == [r \in R |-> GroupingFields(r, dims)]
Totals(R, dims) == WithTotals(Grouped(R, dims)).totals
ValueFields == {"expenseOutflow", "credits", "income", "uncategorizedInflows", "adjustments",
                "transferInflow", "transferOutflow", "transactionCount", "transferCount"}

LEMMA TotalsAre ==
    ASSUME NEW R, Summable(R), NEW dims, NEW f \in ValueFields
    PROVE  \E h : /\ Totals(R, dims)[f] = SumFunctionOnSet(h, DOMAIN Grouped(R, dims))
                  /\ \A k \in DOMAIN Grouped(R, dims) :
                        h[k] = Values(Group(R, Keys(R, dims), k))[f]
<1> DEFINE groups == Grouped(R, dims)
           h == [k \in DOMAIN groups |-> groups[k][f]]
<1>1. f \in DOMAIN Values({})
  BY DEF ValueFields, Values
<1>2. Totals(R, dims)[f] = SumFunction(h)
  BY <1>1 DEF Totals, WithTotals
<1>3. DOMAIN h = DOMAIN groups
  OBVIOUS
<1>4. SumFunction(h) = SumFunctionOnSet(h, DOMAIN groups)
  BY <1>3 DEF SumFunction
<1>5. ASSUME NEW k \in DOMAIN groups
      PROVE  h[k] = Values(Group(R, Keys(R, dims), k))[f]
  <2>1. groups[k] = Values({r \in R : GroupingFields(r, dims) = k})
    BY DEF Grouped
  <2>2. {r \in R : GroupingFields(r, dims) = k} = Group(R, Keys(R, dims), k)
    BY DEF Group, Keys
  <2> QED
    BY <2>1, <2>2
<1> HIDE DEF h
<1> QED
  BY <1>2, <1>4, <1>5

LEMMA GroupKeys ==
    ASSUME NEW R, Summable(R), NEW dims, NEW S \in SUBSET R
    PROVE  /\ IsFiniteSet(DOMAIN Grouped(R, dims)) /\ Summable(S)
           /\ {x \in S : Keys(R, dims)[x] \in DOMAIN Grouped(R, dims)} = S
<1> DEFINE K == {GroupingFields(r, dims) : r \in R}
<1>1. DOMAIN Grouped(R, dims) = K
  BY DEF Grouped
<1>2. Keys(R, dims) \in Surjection(R, K)
  BY DEF Keys, Surjection
<1>3. IsFiniteSet(K)
  BY <1>2, FS_Surjection DEF Summable
<1>4. \A x \in S : Keys(R, dims)[x] \in K
  BY DEF Keys
<1> HIDE DEF K
<1> QED
  BY <1>1, <1>3, <1>4, TotalIs

LEMMA FieldAddsUp ==
    ASSUME NEW R, Summable(R), NEW dims, NEW f \in ValueFields, NEW S \in SUBSET R,
           \A k : Values(Group(R, Keys(R, dims), k))[f] = Total(Group(S, Keys(R, dims), k))
    PROVE  Totals(R, dims)[f] = Total(S)
<1> DEFINE K == DOMAIN Grouped(R, dims)
           g == Keys(R, dims)
<1>1. PICK h : /\ Totals(R, dims)[f] = SumFunctionOnSet(h, K)
               /\ \A k \in K : h[k] = Values(Group(R, Keys(R, dims), k))[f]
  BY TotalsAre
<1>2. \A k \in K : h[k] = Total(Group(S, g, k))
  BY <1>1
<1>3. IsFiniteSet(K) /\ Summable(S) /\ {x \in S : g[x] \in K} = S
  BY GroupKeys
<1> HIDE DEF K, g
<1>4. SumFunctionOnSet(h, K) = Total({x \in S : g[x] \in K})
  BY <1>2, <1>3, TotalGroups
<1> QED
  BY <1>1, <1>3, <1>4

LEMMA DebtAddsUp ==
    ASSUME NEW R, Summable(R), NEW dims, NEW f \in ValueFields, NEW S \in SUBSET R,
           \A k : Values(Group(R, Keys(R, dims), k))[f] = -Total(Group(S, Keys(R, dims), k))
    PROVE  Totals(R, dims)[f] = -Total(S)
<1> DEFINE K == DOMAIN Grouped(R, dims)
           g == Keys(R, dims)
           e == [k \in K |-> Total(Group(S, g, k))]
<1>1. PICK h : /\ Totals(R, dims)[f] = SumFunctionOnSet(h, K)
               /\ \A k \in K : h[k] = Values(Group(R, Keys(R, dims), k))[f]
  BY TotalsAre
<1>2. \A k \in K : h[k] = -e[k] /\ e[k] = Total(Group(S, g, k))
  BY <1>1
<1>3. IsFiniteSet(K) /\ Summable(S) /\ {x \in S : g[x] \in K} = S
  BY GroupKeys
<1>4. \A k \in K : e[k] \in Int
  <2> TAKE k \in K
  <2>1. Group(S, g, k) \in SUBSET S
    BY DEF Group
  <2> QED
    BY <1>3, <2>1, TotalIs
<1> HIDE DEF K, g, e
<1>5. SumFunctionOnSet(e, K) = Total({x \in S : g[x] \in K})
  BY <1>2, <1>3, TotalGroups
<1>6. SumFunctionOnSet(h, K) = -SumFunctionOnSet(e, K)
  BY <1>2, <1>3, <1>4, SumNegates
<1> QED
  BY <1>1, <1>3, <1>5, <1>6

\* The classes of a group are the group of the class.
LEMMA ClassOfGroup ==
    ASSUME NEW R, NEW g, NEW k, NEW c
    PROVE  /\ Of(Group(R, g, k), c) = Group(Of(R, c), g, k)
           /\ Inflows(Of(Group(R, g, k), c)) = Group(Inflows(Of(R, c)), g, k)
           /\ Outflows(Of(Group(R, g, k), c)) = Group(Outflows(Of(R, c)), g, k)
BY DEF Of, Group, Inflows, Outflows

\* The totals of an aggregate are the values of all its rows.
LEMMA AggregateIs ==
    ASSUME NEW R, Summable(R), NEW dims
    PROVE  LET t == Totals(R, dims)
           IN  /\ t.expenseOutflow = -Total(Of(R, "expense"))
               /\ t.credits = Total(Of(R, "credit"))
               /\ t.income = Total(Of(R, "income"))
               /\ t.uncategorizedInflows = Total(Of(R, "uncategorized-inflow"))
               /\ t.adjustments = Total(Of(R, "adjustment"))
               /\ t.transferInflow = Total(Inflows(Of(R, "transfer")))
               /\ t.transferOutflow = -Total(Outflows(Of(R, "transfer")))
               /\ Of(R, "transfer") = {} => t.transferCount = 0
<1> DEFINE t == Totals(R, dims)
           g == Keys(R, dims)
<1>1. \A c : /\ Of(R, c) \in SUBSET R
             /\ Inflows(Of(R, c)) \in SUBSET R /\ Outflows(Of(R, c)) \in SUBSET R
  BY DEF Of, Inflows, Outflows
<1>2. \A k : Values(Group(R, g, k)).credits = Total(Group(Of(R, "credit"), g, k))
  BY ClassOfGroup DEF Values
<1>3. \A k : Values(Group(R, g, k)).income = Total(Group(Of(R, "income"), g, k))
  BY ClassOfGroup DEF Values
<1>4. \A k : Values(Group(R, g, k)).uncategorizedInflows
                 = Total(Group(Of(R, "uncategorized-inflow"), g, k))
  BY ClassOfGroup DEF Values
<1>5. \A k : Values(Group(R, g, k)).adjustments = Total(Group(Of(R, "adjustment"), g, k))
  BY ClassOfGroup DEF Values
<1>6. \A k : Values(Group(R, g, k)).transferInflow
                 = Total(Group(Inflows(Of(R, "transfer")), g, k))
  BY ClassOfGroup DEF Values
<1>7. \A k : Values(Group(R, g, k)).transferOutflow
                 = -Total(Group(Outflows(Of(R, "transfer")), g, k))
  BY ClassOfGroup DEF Values
<1>8. \A k : Values(Group(R, g, k)).expenseOutflow = -Total(Group(Of(R, "expense"), g, k))
  BY ClassOfGroup DEF Values
<1>9. t.credits = Total(Of(R, "credit"))
  BY <1>1, <1>2, FieldAddsUp DEF ValueFields
<1>10. t.income = Total(Of(R, "income"))
  BY <1>1, <1>3, FieldAddsUp DEF ValueFields
<1>11. t.uncategorizedInflows = Total(Of(R, "uncategorized-inflow"))
  BY <1>1, <1>4, FieldAddsUp DEF ValueFields
<1>12. t.adjustments = Total(Of(R, "adjustment"))
  BY <1>1, <1>5, FieldAddsUp DEF ValueFields
<1>13. t.transferInflow = Total(Inflows(Of(R, "transfer")))
  BY <1>1, <1>6, FieldAddsUp DEF ValueFields
<1>14. t.transferOutflow = -Total(Outflows(Of(R, "transfer")))
  BY <1>1, <1>7, DebtAddsUp DEF ValueFields
<1>15. t.expenseOutflow = -Total(Of(R, "expense"))
  BY <1>1, <1>8, DebtAddsUp DEF ValueFields
<1>16. ASSUME Of(R, "transfer") = {}
       PROVE  t.transferCount = 0
  <2>1. ASSUME NEW k
        PROVE  Values(Group(R, g, k)).transferCount = Total(Group({}, g, k))
    <3>1. Of(Group(R, g, k), "transfer") = {} /\ Group({}, g, k) = {}
      <4>1. Of(Group(R, g, k), "transfer") = Group(Of(R, "transfer"), g, k)
        BY ClassOfGroup
      <4>2. Group({}, g, k) = {}
        BY DEF Group
      <4> QED
        BY <1>16, <4>1, <4>2
    <3>2. Values(Group(R, g, k)).transferCount = Cardinality({})
      BY <3>1 DEF Values
    <3> QED
      BY <3>1, <3>2, FS_EmptySet, TotalNone
  <2>2. {} \in SUBSET R
    OBVIOUS
  <2>3. t.transferCount = Total({})
    BY <2>1, <2>2, FieldAddsUp DEF ValueFields
  <2> QED
    BY <2>3, TotalNone
<1> HIDE DEF t
<1>17. /\ t.expenseOutflow = -Total(Of(R, "expense"))
       /\ t.credits = Total(Of(R, "credit"))
       /\ t.income = Total(Of(R, "income"))
       /\ t.uncategorizedInflows = Total(Of(R, "uncategorized-inflow"))
       /\ t.adjustments = Total(Of(R, "adjustment"))
       /\ t.transferInflow = Total(Inflows(Of(R, "transfer")))
       /\ t.transferOutflow = -Total(Outflows(Of(R, "transfer")))
       /\ (Of(R, "transfer") = {} => t.transferCount = 0)
  BY <1>9, <1>10, <1>11, <1>12, <1>13, <1>14, <1>15, <1>16
<1> QED
  BY <1>17 DEF t

\* The rows of an aggregate, with nothing left out and without income and transfers.
Question(from, to, banks, dims, all) ==
    [from |-> from, to |-> to, banks |-> banks, heads |-> Nil, shops |-> Nil,
     dims |-> dims, includeIncome |-> all, excludeTransfers |-> ~all]

LEMMA KeptIs ==
    ASSUME InsightAssumption, BookInv, NEW from \in Days, NEW to \in Days,
           NEW banks \in SUBSET Banks, NEW dims, NEW all \in BOOLEAN
    PROVE  Kept(Question(from, to, banks, dims, all))
               = {r \in Entries(banks, DaysOf(from, to)) :
                     ClassifyExternal(r) \in {"income", "transfer"} => all}
<1> DEFINE in == Question(from, to, banks, dims, all)
<1>1. /\ in.from = from /\ in.to = to /\ in.banks = banks /\ in.heads = Nil /\ in.shops = Nil
      /\ in.includeIncome = all /\ in.excludeTransfers = ~all
  BY DEF Question
<1> HIDE DEF in
<1>2. banks # Nil
  BY DEF InsightAssumption
<1>3. \A r : MatchesFilters(r, in) <=> from <= r.date /\ r.date <= to /\ r.account \in banks
  BY <1>1, <1>2 DEF MatchesFilters
<1>4. PostingRows(AnalysisSnapshot(in.from, in.to, {}).rows) = InRange(Postings, from, to)
  BY <1>1, PostingsInRange DEF AnalysisSnapshot
<1>5. \A x \in Postings : x.date \in Days
  BY PostingFacts DEF FitRow
<1>6. \A r : r \in Kept(in) <=>
          /\ r \in InRange(Postings, from, to) /\ MatchesFilters(r, in)
          /\ ClassifyExternal(r) = "income" => in.includeIncome
          /\ ClassifyExternal(r) = "transfer" => ~in.excludeTransfers
  BY <1>4 DEF Kept
<1>7. \A r : r \in Kept(in) <=>
          /\ r \in Entries(banks, DaysOf(from, to))
          /\ ClassifyExternal(r) \in {"income", "transfer"} => all
  BY <1>1, <1>3, <1>5, <1>6 DEF InRange, Entries, DaysOf
<1> QED
  BY <1>7 DEF in

\* The totals of both aggregates are the values of their rows.
LEMMA AggregateIsExact ==
    ASSUME InsightAssumption, BookInv, NEW from \in Days, NEW to \in Days, from <= to,
           NEW banks \in SUBSET Banks, NEW dims
    PROVE  AggregateAddsUp(from, to, banks, dims)
<1> DEFINE E == Entries(banks, DaysOf(from, to))
           P == {r \in E : ClassifyExternal(r) \notin {"income", "transfer"}}
           whole == Totals(E, dims)
           part == Totals(P, dims)
<1>1. /\ AggregateTransactions(Question(from, to, banks, dims, TRUE)).totals = whole
      /\ AggregateTransactions(Question(from, to, banks, dims, FALSE)).totals = part
  <2>1. /\ Kept(Question(from, to, banks, dims, TRUE)) = E
        /\ Kept(Question(from, to, banks, dims, FALSE)) = P
    <3>1. \A all \in BOOLEAN : Kept(Question(from, to, banks, dims, all))
              = {r \in E : ClassifyExternal(r) \in {"income", "transfer"} => all}
      BY KeptIs
    <3>2. /\ {r \in E : ClassifyExternal(r) \in {"income", "transfer"} => TRUE} = E
          /\ {r \in E : ClassifyExternal(r) \in {"income", "transfer"} => FALSE} = P
      OBVIOUS
    <3> HIDE DEF E, P
    <3>3. /\ Kept(Question(from, to, banks, dims, TRUE))
                = {r \in E : ClassifyExternal(r) \in {"income", "transfer"} => TRUE}
          /\ Kept(Question(from, to, banks, dims, FALSE))
                = {r \in E : ClassifyExternal(r) \in {"income", "transfer"} => FALSE}
      BY <3>1
    <3> QED
      BY <3>2, <3>3
  <2>2. \A all : Question(from, to, banks, dims, all).dims = dims
    BY DEF Question
  <2> HIDE DEF E, P
  <2> QED
    BY <2>1, <2>2 DEF AggregateTransactions, Totals
<1>2. Summable(E)
  BY PostingFacts, TotalIs DEF Entries
<1>3. P \in SUBSET E /\ Summable(P)
  BY <1>2, TotalIs
<1>4. /\ Of(P, "income") = {} /\ Of(P, "transfer") = {}
      /\ \A c \in {"expense", "credit", "uncategorized-inflow", "adjustment"} : Of(P, c) = Of(E, c)
  BY DEF Of
<1>5. Register(banks, {d \in Days : from <= d /\ d <= to}) = Total(E)
  BY RegisterIs DEF DaysOf
<1> HIDE DEF E, P
<1>6. /\ whole.expenseOutflow = -Total(Of(E, "expense"))
      /\ whole.credits = Total(Of(E, "credit"))
      /\ whole.income = Total(Of(E, "income"))
      /\ whole.uncategorizedInflows = Total(Of(E, "uncategorized-inflow"))
      /\ whole.adjustments = Total(Of(E, "adjustment"))
      /\ whole.transferInflow = Total(Inflows(Of(E, "transfer")))
      /\ whole.transferOutflow = -Total(Outflows(Of(E, "transfer")))
  BY <1>2, AggregateIs
<1>7. /\ part.expenseOutflow = -Total(Of(P, "expense"))
      /\ part.credits = Total(Of(P, "credit"))
      /\ part.income = Total(Of(P, "income"))
      /\ part.uncategorizedInflows = Total(Of(P, "uncategorized-inflow"))
      /\ part.adjustments = Total(Of(P, "adjustment"))
      /\ (Of(P, "transfer") = {} => part.transferCount = 0)
  BY <1>3, AggregateIs
<1>8. /\ \A c \in Classes : Total(Of(E, c)) \in Int /\ Summable(Of(E, c))
      /\ Total(E) = Total(Of(E, "transfer")) + Total(Of(E, "adjustment"))
                        + Total(Of(E, "income")) + Total(Of(E, "credit"))
                        + Total(Of(E, "uncategorized-inflow")) + Total(Of(E, "expense"))
  BY <1>2, ClassesAddUp
<1>9. /\ Total(Of(E, "transfer")) = Total(Inflows(Of(E, "transfer")))
                                        + Total(Outflows(Of(E, "transfer")))
      /\ Total(Inflows(Of(E, "transfer"))) \in Int /\ Total(Outflows(Of(E, "transfer"))) \in Int
  BY <1>8, TransfersAddUp DEF Classes
<1>10. /\ Total(Of(E, "adjustment")) \in Int /\ Total(Of(E, "income")) \in Int
       /\ Total(Of(E, "credit")) \in Int /\ Total(Of(E, "uncategorized-inflow")) \in Int
       /\ Total(Of(E, "expense")) \in Int
  BY <1>8 DEF Classes
<1> HIDE DEF whole, part
<1>11. Net(whole) = Total(E)
  BY <1>6, <1>8, <1>9, <1>10 DEF Net
<1>12. \A f \in {"expenseOutflow", "credits", "uncategorizedInflows", "adjustments"} :
           part[f] = whole[f]
  BY <1>4, <1>6, <1>7
<1>13. part.income = 0 /\ part.transferCount = 0
  BY <1>4, <1>7, TotalNone
<1>14. TotalsAddUp(whole, part, Total(E))
  BY <1>11, <1>12, <1>13 DEF TotalsAddUp
<1> QED
  BY <1>1, <1>5, <1>14 DEF AggregateAddsUp, Question

-----------------------------------------------------------------------------
(***************************************************************************)
(* The summaries, the pages and the searches.                              *)
(***************************************************************************)
\* The two summaries are groupings of the same postings.
LEMMA SummariesAreExact ==
    ASSUME InsightAssumption, BookInv, NEW from \in Days, NEW to \in Days
    PROVE  SummariesAgree(from, to)
<1> DEFINE B == InRange(Postings, from, to)
           in(bank, all) == [bank |-> bank, from |-> from, to |-> to, includeIncome |-> all]
           of(bank, all) == SummaryByCategory(in(bank, all))
           payees == SummaryByPayee([from |-> from, to |-> to])
           mine(bank) == {r \in B : r.account = bank}
           head == [x \in B |-> x.category]
           shop == [x \in B |-> x.payee]
           bearer == [x \in B |-> x.account]
<1>1. Summable(B) /\ B \in SUBSET Postings
  BY PostingFacts, TotalIs DEF InRange
<1>2. \A bank, all : Between(in(bank, all)) = B
  BY DEF Between, Postings
<1>3. of(Nil, TRUE) = [h \in {r.category : r \in B} |-> Total({r \in B : r.category = h})]
  <2>1. {r \in Between(in(Nil, TRUE)) :
            /\ in(Nil, TRUE).bank # Nil => r.account = in(Nil, TRUE).bank
            /\ r.category \in IncomeHeads => in(Nil, TRUE).includeIncome} = B
    BY <1>2
  <2> QED
    BY <2>1 DEF SummaryByCategory
<1>4. \A b \in Banks :
          of(b, TRUE) = [h \in {r.category : r \in mine(b)} |->
                            Total({r \in mine(b) : r.category = h})]
  <2> TAKE b \in Banks
  <2>1. b # Nil
    BY DEF InsightAssumption
  <2>2. {r \in Between(in(b, TRUE)) :
            /\ in(b, TRUE).bank # Nil => r.account = in(b, TRUE).bank
            /\ r.category \in IncomeHeads => in(b, TRUE).includeIncome} = mine(b)
    BY <1>2, <2>1
  <2> HIDE DEF mine
  <2> QED
    BY <2>2 DEF SummaryByCategory
<1>5. payees = [p \in {r.payee : r \in B} |-> Total({r \in B : r.payee = p})]
  BY DEF SummaryByPayee, Between, Postings
<1>6. SumFunction(of(Nil, TRUE)) = Total(B)
  <2> DEFINE h == of(Nil, TRUE)
  <2>1. DOMAIN h = {head[x] : x \in B}
    BY <1>3
  <2>2. \A k \in DOMAIN h : h[k] = Total(Group(B, head, k))
    BY <1>3 DEF Group
  <2> HIDE DEF h, B, head
  <2>3. SumFunction(h) = Total(B)
    BY <1>1, <2>1, <2>2, TotalAllGroups
  <2> QED
    BY <2>3 DEF h
<1>7. SumFunction(payees) = Total(B)
  <2>1. DOMAIN payees = {shop[x] : x \in B}
    BY <1>5
  <2>2. \A k \in DOMAIN payees : payees[k] = Total(Group(B, shop, k))
    BY <1>5 DEF Group
  <2> HIDE DEF payees, B, shop
  <2> QED
    BY <1>1, <2>1, <2>2, TotalAllGroups
<1>8. ASSUME NEW b \in Banks
      PROVE  SumFunction(of(b, TRUE)) = Total(mine(b))
  <2> DEFINE h == of(b, TRUE)
             U == mine(b)
  <2>1. U \in SUBSET B
    OBVIOUS
  <2>2. Summable(U)
    BY <1>1, <2>1, TotalIs
  <2>3. h = [k \in {r.category : r \in U} |-> Total({r \in U : r.category = k})]
    BY <1>4
  <2>4. \A x \in U : head[x] = x.category
    OBVIOUS
  <2> HIDE DEF h, U, head
  <2>5. DOMAIN h = {head[x] : x \in U}
    BY <2>3, <2>4
  <2>6. \A k \in DOMAIN h : h[k] = Total(Group(U, head, k))
    BY <2>3, <2>4 DEF Group
  <2>7. SumFunction(h) = Total(U)
    BY <2>2, <2>5, <2>6, TotalAllGroups
  <2> QED
    BY <2>7 DEF h, U
<1>9. SumFunction([b \in Banks |-> SumFunction(of(b, TRUE))]) = Total(B)
  <2> DEFINE h == [b \in Banks |-> SumFunction(of(b, TRUE))]
  <2>1. \A b \in Banks : h[b] = Total(Group(B, bearer, b))
    <3> TAKE b \in Banks
    <3>1. Group(B, bearer, b) = mine(b)
      BY DEF Group
    <3> QED
      BY <1>8, <3>1
  <2>2. IsFiniteSet(Banks) /\ SumFunction(h) = SumFunctionOnSet(h, Banks)
    BY DEF SumFunction, InsightAssumption
  <2>3. {x \in B : bearer[x] \in Banks} = B
    BY <1>1, PostingFacts DEF FitRow
  <2> HIDE DEF h, B, bearer
  <2>4. SumFunctionOnSet(h, Banks) = Total({x \in B : bearer[x] \in Banks})
    BY <1>1, <2>1, <2>2, TotalGroups
  <2>5. SumFunction(h) = Total(B)
    BY <2>2, <2>3, <2>4
  <2> QED
    BY <2>5 DEF h
<1>10. ASSUME NEW k \in (DOMAIN of(Nil, TRUE)) \ IncomeHeads
       PROVE  of(Nil, FALSE)[k] = of(Nil, TRUE)[k]
  <2> DEFINE rows == {r \in B : r.category \notin IncomeHeads}
  <2>1. {r \in Between(in(Nil, FALSE)) :
            /\ in(Nil, FALSE).bank # Nil => r.account = in(Nil, FALSE).bank
            /\ r.category \in IncomeHeads => in(Nil, FALSE).includeIncome} = rows
    BY <1>2
  <2>2. of(Nil, FALSE) = [h \in {r.category : r \in rows} |-> Total({r \in rows : r.category = h})]
    <3> HIDE DEF rows
    <3> QED
      BY <2>1 DEF SummaryByCategory
  <2>3. k \in {r.category : r \in rows}
    BY <1>3
  <2>4. {r \in rows : r.category = k} = {r \in B : r.category = k}
    OBVIOUS
  <2>5. of(Nil, FALSE)[k] = Total({r \in rows : r.category = k})
    BY <2>2, <2>3
  <2>6. of(Nil, TRUE)[k] = Total({r \in B : r.category = k})
    BY <1>3
  <2> QED
    BY <2>4, <2>5, <2>6
<1> HIDE DEF of, payees
<1>11. /\ SumFunction(of(Nil, TRUE)) = SumFunction(payees)
       /\ SumFunction(of(Nil, TRUE))
              = SumFunction([b \in Banks |-> SumFunction(of(b, TRUE))])
       /\ \A h \in (DOMAIN of(Nil, TRUE)) \ IncomeHeads : of(Nil, FALSE)[h] = of(Nil, TRUE)[h]
  BY <1>6, <1>7, <1>9, <1>10
<1> QED
  BY <1>11 DEF SummariesAgree, of, payees

LEMMA BookRows ==
    ASSUME InsightAssumption, BookInv
    PROVE  /\ Summable(book) /\ IsFiniteSet(book)
           /\ \A r \in book : FitRow(r, 10, NextId - 1)
           /\ \A r, s \in book : r.id = s.id => r = s
<1>1. NextId - 1 \in Int
  BY DEF BookInv, NextId, InsightAssumption
<1>2. book \in SUBSET AllRows(book)
  BY DEF AllRows
<1>3. Summable(AllRows(book))
  BY <1>1, AllRowsFinite DEF BookInv
<1>4. Summable(book)
  BY <1>2, <1>3, TotalIs
<1> QED
  BY <1>2, <1>4 DEF BookInv, Entered, Agree, Summable

\* A page of one row is the row at its position.
LEMMA PagesAreExact ==
    ASSUME InsightAssumption, BookInv
    PROVE  PagesCover(Whole)
<1> DEFINE rows == Uncategorized(Whole)
           n == Cardinality(rows)
           num == [r \in rows |-> r.id]
           pos == Position(rows, num)
           pages == {Page(rows, i, 1) : i \in 0..n}
<1>1. rows \in SUBSET book
  BY DEF Uncategorized, OnBudget, GetTransactions
<1> HIDE DEF rows
<1>2. Summable(rows) /\ IsFiniteSet(rows)
  BY <1>1, BookRows, TotalIs DEF Summable
<1>3. num \in [rows -> Int] /\ \A r, s \in rows : num[r] = num[s] => r = s
  BY <1>1, BookRows DEF FitRow
<1> HIDE DEF num
<1>4. /\ n \in Nat
      /\ \A r \in rows : pos[r] \in 0..(n - 1)
      /\ \A r, s \in rows : pos[r] = pos[s] => r = s
      /\ \A i \in 0..(n - 1) : \E r \in rows : pos[r] = i
  BY <1>2, <1>3, PositionIs
<1>5. ASSUME NEW i \in 0..n
      PROVE  /\ Page(rows, i, 1).rows = {r \in rows : pos[r] = i}
             /\ Page(rows, i, 1).hasMore <=> i + Cardinality({r \in rows : pos[r] = i}) < n
  <2>1. \A r \in rows : pos[r] = Cardinality({s \in rows : s.id < r.id})
    BY DEF Position, num
  <2>2. \A r \in rows : (i <= pos[r] /\ pos[r] < i + 1) <=> pos[r] = i
    BY <1>4
  <2>3. {r \in rows : /\ i <= Cardinality({s \in rows : s.id < r.id})
                      /\ Cardinality({s \in rows : s.id < r.id}) < i + 1}
          = {r \in rows : pos[r] = i}
    BY <2>1, <2>2
  <2> HIDE DEF pos
  <2> QED
    BY <2>3 DEF Page
<1>6. ASSUME NEW i \in 0..(n - 1)
      PROVE  \E r \in rows : pos[r] = i /\ {s \in rows : pos[s] = i} = {r}
  BY <1>4
<1>7. {r \in rows : pos[r] = n} = {}
  BY <1>4
<1> HIDE DEF pos
<1>8. UNION {p.rows : p \in pages} = rows
  <2>1. \A p \in pages : p.rows \subseteq rows
    <3> TAKE p \in pages
    <3>1. PICK i \in 0..n : p = Page(rows, i, 1)
      OBVIOUS
    <3>2. p.rows = {r \in rows : pos[r] = i}
      BY <1>5, <3>1
    <3> QED
      BY <3>2
  <2>2. ASSUME NEW r \in rows
        PROVE  \E p \in pages : r \in p.rows
    <3>1. pos[r] \in 0..n
      BY <1>4
    <3>2. r \in Page(rows, pos[r], 1).rows
      BY <1>5, <3>1
    <3> QED
      BY <3>1, <3>2
  <2> HIDE DEF pages
  <2> QED
    BY <2>1, <2>2
<1>9. ASSUME NEW p \in pages
      PROVE  Cardinality(p.rows) <= 1
  <2>1. PICK i \in 0..n : p = Page(rows, i, 1)
    OBVIOUS
  <2>2. CASE i \in 0..(n - 1)
    <3>1. PICK r \in rows : {s \in rows : pos[s] = i} = {r}
      BY <1>6, <2>2
    <3>2. p.rows = {r}
      BY <1>5, <2>1, <3>1
    <3>3. Cardinality(p.rows) = 1
      BY <3>2, FS_Singleton
    <3> QED
      BY <3>3
  <2>3. CASE i = n
    <3>1. p.rows = {}
      BY <1>5, <1>7, <2>1, <2>3
    <3> QED
      BY <3>1, FS_EmptySet
  <2> QED
    BY <1>4, <2>2, <2>3
<1>10. \A i \in 0..n : Page(rows, i, 1).hasMore <=> i < n - 1
  <2> TAKE i \in 0..n
  <2>1. CASE i \in 0..(n - 1)
    <3>1. PICK r \in rows : {s \in rows : pos[s] = i} = {r}
      BY <1>6, <2>1
    <3>2. Cardinality({s \in rows : pos[s] = i}) = 1
      BY <3>1, FS_Singleton
    <3>3. Page(rows, i, 1).hasMore <=> i + 1 < n
      BY <1>5, <3>2
    <3> QED
      BY <1>4, <3>3
  <2>2. CASE i = n
    <3>1. Cardinality({s \in rows : pos[s] = i}) = 0
      BY <1>7, <2>2, FS_EmptySet
    <3>2. Page(rows, i, 1).hasMore <=> i + 0 < n
      BY <1>5, <3>1
    <3> QED
      BY <1>4, <2>2, <3>2
  <2> QED
    BY <1>4, <2>1, <2>2
<1>11. Cardinality({p \in pages : p.hasMore}) = (IF rows = {} THEN 0 ELSE Cardinality(rows) - 1)
  <2> DEFINE more == {p \in pages : p.hasMore}
  <2>1. CASE rows = {}
    <3>1. n = 0
      BY <2>1, FS_EmptySet
    <3>2. more = {}
      BY <1>10, <3>1
    <3> QED
      BY <2>1, <3>2, FS_EmptySet
  <2>2. CASE rows # {}
    <3> DEFINE page == [i \in 0..(n - 2) |-> Page(rows, i, 1)]
    <3>1. n >= 1
      BY <1>2, <1>4, <2>2, FS_EmptySet
    <3>2. \A i \in 0..(n - 2) : i \in 0..n /\ i \in 0..(n - 1) /\ i < n - 1
      BY <1>4
    <3>3. \A i \in 0..(n - 2) : page[i] \in more
      BY <1>10, <3>2
    <3>4. \A p \in more : \E i \in 0..(n - 2) : page[i] = p
      <4> TAKE p \in more
      <4>1. PICK i \in 0..n : p = Page(rows, i, 1) /\ p.hasMore
        OBVIOUS
      <4>2. i < n - 1
        BY <1>10, <4>1
      <4>3. i \in 0..(n - 2)
        BY <1>4, <4>2
      <4> QED
        BY <4>1, <4>3
    <3>5. ASSUME NEW i \in 0..(n - 2), NEW j \in 0..(n - 2), page[i] = page[j]
          PROVE  i = j
      <4>1. PICK r \in rows : pos[r] = i /\ {s \in rows : pos[s] = i} = {r}
        BY <1>6, <3>2
      <4>2. page[i].rows = {s \in rows : pos[s] = i} /\ page[j].rows = {s \in rows : pos[s] = j}
        BY <1>5, <3>2
      <4>3. r \in {s \in rows : pos[s] = j}
        BY <3>5, <4>1, <4>2
      <4> QED
        BY <4>1, <4>3
    <3> HIDE DEF more
    <3>6. page \in Surjection(0..(n - 2), more)
      BY <3>3, <3>4 DEF Surjection
    <3>7. page \in Injection(0..(n - 2), more)
      BY <3>3, <3>5 DEF Injection, IsInjective
    <3>8. IsFiniteSet(0..(n - 2)) /\ Cardinality(0..(n - 2)) = n - 1
      <4>1. n - 2 \in Int /\ 0 \in Int
        BY <1>4
      <4>2. /\ IsFiniteSet(0..(n - 2))
            /\ Cardinality(0..(n - 2)) = IF 0 > n - 2 THEN 0 ELSE (n - 2) - 0 + 1
        BY <4>1, FS_Interval
      <4> QED
        BY <1>4, <3>1, <4>2
    <3> HIDE DEF page
    <3>9. Cardinality(more) = Cardinality(0..(n - 2))
      BY <3>6, <3>7, <3>8, FS_Surjection
    <3> QED
      BY <2>2, <3>8, <3>9 DEF more
  <2> QED
    BY <2>1, <2>2
<1>12. SumFunction(ByAccount(rows)) = Total(rows)
  <2> DEFINE g == [x \in rows |-> x.account]
             h == ByAccount(rows)
  <2>1. h = [b \in {r.account : r \in rows} |-> Total({r \in rows : r.account = b})]
    BY DEF ByAccount, Shown
  <2>2. DOMAIN h = {g[x] : x \in rows}
    BY <2>1
  <2>3. \A k \in DOMAIN h : h[k] = Total(Group(rows, g, k))
    BY <2>1 DEF Group
  <2> HIDE DEF h, g
  <2>4. SumFunction(h) = Total(rows)
    BY <1>2, <2>2, <2>3, TotalAllGroups
  <2> QED
    BY <2>4 DEF h
<1> QED
  BY <1>8, <1>9, <1>11, <1>12 DEF PagesCover, rows

\* A search that may return as many rows as there are returns all it found.
LEMMA FirstIsAll ==
    ASSUME InsightAssumption, BookInv, NEW rows \in SUBSET book, NEW field \in {"date", "amount"}
    PROVE  First(rows, field, Cardinality(book)) = rows
<1> DEFINE before(s, r) == s[field] > r[field] \/ (s[field] = r[field] /\ s.id < r.id)
           Ahead(r) == {s \in rows : before(s, r)}
<1>1. \A r \in rows : Cardinality(Ahead(r)) < Cardinality(book)
  <2> TAKE r \in rows
  <2>1. r.date \in Int /\ r.amount \in Int /\ r.id \in Int
    <3>1. Days \subseteq Int
      BY DEF InsightAssumption
    <3>2. FitRow(r, 10, NextId - 1)
      BY BookRows
    <3>3. r.date \in Days /\ r.amount \in Int /\ r.id \in 10..(NextId - 1)
      BY <3>2 DEF FitRow
    <3>4. NextId - 1 \in Int
      BY DEF BookInv, NextId, InsightAssumption
    <3> QED
      BY <3>1, <3>3, <3>4
  <2>2. r[field] \in Int
    BY <2>1
  <2>3. Ahead(r) \in SUBSET book /\ r \notin Ahead(r) /\ r \in book
    BY <2>1, <2>2
  <2>4. IsFiniteSet(book)
    BY BookRows
  <2> HIDE DEF Ahead
  <2> QED
    BY <2>3, <2>4, FewerMembers
<1>2. First(rows, field, Cardinality(book))
          = {r \in rows : Cardinality(Ahead(r)) < Cardinality(book)}
  BY DEF First
<1> HIDE DEF Ahead
<1> QED
  BY <1>1, <1>2

\* The searches apply the same criteria, in whatever order.
LEMMA SearchesAreExact ==
    ASSUME InsightAssumption, BookInv, book # {},
           NEW head \in Heads \cup {Nil}, NEW shop \in Shops \cup {Nil},
           NEW min \in Coins \cup {Nil}
    PROVE  SearchesAgree(head, shop, min)
<1> DEFINE least == CHOOSE d \in Days : \A e \in Days : d <= e
           in == [bank |-> Nil, from |-> least, to |-> Nil, head |-> head, shop |-> shop,
                  min |-> min, max |-> Nil, magnitude |-> Nil, limit |-> Cardinality(book)]
           sized(n) == [in EXCEPT !.magnitude = n, !.min = Nil]
<1>1. least \in Days /\ \A e \in Days : least <= e
  <2>1. Days \subseteq Nat /\ Days # {}
    BY BookRows DEF FitRow, InsightAssumption
  <2>2. \E d \in Days : \A e \in Days : d <= e
    BY <2>1, LeastIsOne
  <2> QED
    BY <2>2
<1> HIDE DEF least
<1>2. least # Nil /\ Nil \notin Coins
  <2>1. Days \subseteq Int /\ Coins \subseteq Int /\ Nil \notin Int
    BY DEF InsightAssumption
  <2> QED
    BY <1>1, <2>1
<1>3. \A r \in book : least <= r.date
  BY <1>1, BookRows DEF FitRow
<1>4. /\ in.bank = Nil /\ in.from = least /\ in.to = Nil /\ in.head = head /\ in.shop = shop
      /\ in.min = min /\ in.max = Nil /\ in.magnitude = Nil /\ in.limit = Cardinality(book)
  OBVIOUS
<1>5. ASSUME NEW n \in Coins
      PROVE  LET i == sized(n)
             IN  /\ i.bank = Nil /\ i.from = least /\ i.to = Nil /\ i.head = head
                 /\ i.max = Nil /\ i.magnitude = n /\ i.limit = Cardinality(book)
  OBVIOUS
<1> HIDE DEF in, sized
<1>6. GetTransactions(in) = book
  BY <1>2, <1>3, <1>4 DEF GetTransactions
<1>7. ASSUME NEW n \in Coins
      PROVE  GetTransactions(sized(n)) = book
  BY <1>3, <1>5 DEF GetTransactions
<1> DEFINE enough == {r \in book : min # Nil => r.amount >= min}
           found == {r \in enough : /\ r.account \notin OffBudget
                                    /\ head # Nil => r.category = head
                                    /\ shop # Nil => r.payee = shop}
<1>8. TransactionsFilter(in) = found
  BY <1>4, <1>6 DEF TransactionsFilter, OfShop, OfHead, WithinBounds, OnBudget
<1>9. SearchByMonth(in).rows = found
  <2> DEFINE heads == OfHead(OnBudget(GetTransactions(in)), in.head)
             rows == WithinBounds(OfShop(heads, in.shop), in)
  <2>1. rows = found
    BY <1>4, <1>6 DEF OfShop, OfHead, WithinBounds, OnBudget
  <2>2. SearchByMonth(in) = Newest(rows, in)
    BY DEF SearchByMonth
  <2> HIDE DEF rows
  <2>3. found \in SUBSET book
    OBVIOUS
  <2>4. First(found, "date", Cardinality(book)) = found
    BY <2>3, FirstIsAll
  <2> QED
    BY <1>4, <2>1, <2>2, <2>4 DEF Newest, Shown
<1>10. OfShop(SearchByCategory(in).rows, shop) = found
  <2> DEFINE rows == WithinBounds(OfHead(OnBudget(GetTransactions(in)), in.head), in)
  <2>1. rows \in SUBSET book
    BY <1>6 DEF OfHead, WithinBounds, OnBudget
  <2>2. OfShop(rows, shop) = found
    BY <1>4, <1>6 DEF OfShop, OfHead, WithinBounds, OnBudget
  <2>3. SearchByCategory(in) = Newest(rows, in)
    BY DEF SearchByCategory
  <2> HIDE DEF rows
  <2>4. First(rows, "date", Cardinality(book)) = rows
    BY <2>1, FirstIsAll
  <2> QED
    BY <1>4, <2>2, <2>3, <2>4 DEF Newest, Shown
<1>11. OnBudget(SearchByPayee(in).rows) = found
  <2> DEFINE rows == WithinBounds(OfHead(OfShop(GetTransactions(in), in.shop), in.head), in)
  <2>1. rows \in SUBSET book
    BY <1>6 DEF OfHead, WithinBounds, OfShop
  <2>2. OnBudget(rows) = found
    BY <1>4, <1>6 DEF OfShop, OfHead, WithinBounds, OnBudget
  <2>3. SearchByPayee(in) = Newest(rows, in)
    BY DEF SearchByPayee
  <2> HIDE DEF rows
  <2>4. First(rows, "date", Cardinality(book)) = rows
    BY <2>1, FirstIsAll
  <2> QED
    BY <1>4, <2>2, <2>3, <2>4 DEF Newest, Shown
<1>12. OfShop(OnBudget(SearchByAmount(in).rows), shop) = found
  <2> DEFINE rows == OfHead(WithinBounds(GetTransactions(in), in), in.head)
  <2>1. rows \in SUBSET book
    BY <1>6 DEF OfHead, WithinBounds
  <2>2. OfShop(OnBudget(rows), shop) = found
    BY <1>4, <1>6 DEF OfShop, OfHead, WithinBounds, OnBudget
  <2>3. SearchByAmount(in) = Shown(First(rows, "amount", in.limit))
    BY <1>2, <1>4 DEF SearchByAmount
  <2> HIDE DEF rows
  <2>4. First(rows, "amount", Cardinality(book)) = rows
    BY <2>1, FirstIsAll
  <2> QED
    BY <1>4, <2>2, <2>3, <2>4 DEF Shown
<1>13. ASSUME NEW n \in Coins
       PROVE  SearchByAmount(sized(n)).rows = OfHead({r \in book : r.amount \in {n, -n}}, head)
  <2> DEFINE rows == OfHead({r \in book : r.amount \in {n, -n}}, head)
             i == sized(n)
  <2>1. rows \in SUBSET book
    BY DEF OfHead
  <2>2. /\ i.bank = Nil /\ i.from = least /\ i.to = Nil /\ i.head = head
        /\ i.max = Nil /\ i.magnitude = n /\ i.limit = Cardinality(book)
    BY <1>5
  <2>3. GetTransactions(i) = book /\ n # Nil
    BY <1>2, <1>7
  <2> HIDE DEF i
  <2>4. SearchByAmount(i) = Shown(First(rows, "amount", i.limit))
    BY <1>2, <2>2, <2>3 DEF SearchByAmount
  <2> HIDE DEF rows
  <2>5. First(rows, "amount", Cardinality(book)) = rows
    BY <2>1, FirstIsAll
  <2>6. SearchByAmount(i).rows = rows
    BY <2>2, <2>4, <2>5 DEF Shown
  <2> QED
    BY <2>6 DEF i, rows
<1> HIDE DEF found
<1>14. /\ SearchByMonth(in).rows = TransactionsFilter(in)
       /\ OfShop(SearchByCategory(in).rows, shop) = TransactionsFilter(in)
       /\ OnBudget(SearchByPayee(in).rows) = TransactionsFilter(in)
       /\ OfShop(OnBudget(SearchByAmount(in).rows), shop) = TransactionsFilter(in)
       /\ \A n \in Coins : SearchByAmount(sized(n)).rows
                               = OfHead({r \in book : r.amount \in {n, -n}}, head)
  BY <1>8, <1>9, <1>10, <1>11, <1>12, <1>13
<1> QED
  BY <1>14 DEF SearchesAgree, in, sized, least

-----------------------------------------------------------------------------
(* The theorems.                                                         *)
LEMMA ReportsAreExact == InsightAssumption /\ BookInv => ReportsAddUp
<1> SUFFICES ASSUME InsightAssumption, BookInv, book # {}
             PROVE  ReportsAddUp
  BY DEF ReportsAddUp
<1>1. ASSUME NEW from \in Days, NEW to \in Days, NEW banks \in (SUBSET Banks) \ {{}}, from <= to
      PROVE  /\ FlowReconciles(from, to, banks)
             /\ SummariesAgree(from, to)
             /\ \A dims \in {{"month"}, {"category", "account"}} :
                   AggregateAddsUp(from, to, banks, dims)
  BY <1>1, FlowIsExact, SummariesAreExact, AggregateIsExact
<1>2. PagesCover(Whole)
  BY PagesAreExact
<1>3. \A head \in Heads \cup {Nil}, shop \in Shops \cup {Nil}, min \in Coins \cup {Nil} :
          SearchesAgree(head, shop, min)
  BY SearchesAreExact
<1> QED
  BY <1>1, <1>2, <1>3 DEF ReportsAddUp

LEMMA BookInitInv == InsightAssumption /\ BookInit => BookInv
<1> SUFFICES ASSUME InsightAssumption, BookInit
             PROVE  BookInv
  OBVIOUS
<1>1. AllRows(book) = {}
  BY DEF BookInit, AllRows
<1>2. records \in 0..MaxRecords
  BY DEF BookInit, InsightAssumption
<1> QED
  BY <1>1, <1>2 DEF BookInit, BookInv, Entered

LEMMA BookIsTyped == InsightAssumption /\ BookInv => BookTypeOK
<1> SUFFICES ASSUME InsightAssumption, BookInv
             PROVE  BookTypeOK
  OBVIOUS
<1>1. \A r, q \in Postings : r.id = q.id => r = q
  BY PostingFacts DEF Agree
<1>2. \A r \in Postings :
          /\ r.date \in Days /\ r.account \in Banks /\ r.amount \in Int
          /\ r.category \in Heads \cup {Nil} /\ r.payee \in Shops \cup Banks \cup {Nil}
  BY PostingFacts DEF FitRow
<1> QED
  BY <1>1, <1>2 DEF BookTypeOK, BookInv, Postings

\* The rows are what the invariant says after any number of events.
THEOREM BookInvariant == BookSpec => []BookInv
<1>1. InsightAssumption /\ BookInit => BookInv
  BY BookInitInv
<1>2. InsightAssumption /\ BookInv /\ [BookNext]_bookVars => BookInv'
  BY BookKeeps
<1> QED
  BY <1>1, <1>2, InsightAssumption, PTL DEF BookSpec

\* BookTypeOK: every posting has an id of its own, a day, an account and an amount.
THEOREM PostingsTyped == BookSpec => []BookTypeOK
<1>1. BookInv => BookTypeOK
  BY BookIsTyped, InsightAssumption
<1> QED
  BY <1>1, BookInvariant, PTL

\* ReportsAddUp: the account flow reconciles, an aggregate is the sum of its groups, the
\* pages are all rows, the summaries have one sum and the searches agree.
THEOREM ReportsExact == BookSpec => []ReportsAddUp
<1>1. BookInv => ReportsAddUp
  BY ReportsAreExact, InsightAssumption
<1> QED
  BY <1>1, BookInvariant, PTL
=============================================================================
