------------------------------- MODULE Ledger -------------------------------
(***************************************************************************)
(* The entity operations of src/lib/actual-adapter.ts and the tools that   *)
(* call them: accounts, payees, categories, groups, notes and transactions.*)
(*                                                                         *)
(* Every operation runs inside a drain of the write queue (WriteQueue),    *)
(* alone: it looks its target up in a listing, refuses or writes, and      *)
(* answers.  Listings are memoised for the length of the drain, and an     *)
(* operation drops those it does not promise to have left alone.           *)
(*                                                                         *)
(* The library underneath is external.  What the source says of it is      *)
(* modelled: an update of an id that never existed inserts a row, a delete *)
(* leaves a dead row behind, and some calls are silently ignored.          *)
(***************************************************************************)
EXTENDS Integers, FiniteSets, FiniteSetsExt, Functions

CONSTANTS Budgets, Accounts, Payees, Categories, Groups, AccountGroups,
          GroupOf,    \* the group each category starts in
          Initially,  \* the entities each budget starts with
          Joined,     \* the account group of the accounts that start in one
          Holder,     \* the account that starts with a transaction, a split
          MaxTxn,     \* bound: transactions a budget can have
          Amounts,    \* the positive amounts of the inputs
          MaxOps,     \* bound: operations in a behaviour
          None

TransferPayee(a) == <<"transfer", a>>

Kinds == {"accounts", "payees", "categories", "categoryGroups"}

Ids == [accounts       |-> Accounts,
        payees         |-> Payees \cup {TransferPayee(a) : a \in Accounts},
        categories     |-> Categories,
        categoryGroups |-> Groups]

Entities == UNION {Ids[k] : k \in Kinds}

\* Ids are UUIDs: no two kinds of entity share one.
ASSUME LedgerAssumption ==
    /\ Accounts \cap (Payees \cup Categories \cup Groups) = {}
    /\ Payees \cap (Categories \cup Groups) = {} /\ Categories \cap Groups = {}
    /\ \A a \in Accounts :
           TransferPayee(a) \notin Accounts \cup Payees \cup Categories \cup Groups
    /\ None \notin Accounts \cup Payees \cup Categories \cup Groups \cup AccountGroups
    /\ GroupOf \in [Categories -> Groups] /\ Joined \in AccountGroups /\ Holder \in Accounts
    /\ Initially \in [Budgets -> SUBSET (Accounts \cup Payees \cup Categories \cup Groups)]
    /\ MaxTxn \in Nat /\ MaxOps \in Nat
    /\ Amounts \subseteq Nat \ {0} /\ Amounts # {}

VARIABLES db,         \* the tables of each budget
          cache,      \* drainListingCache: each listing as it was read, or None
          draining,   \* a drain of the write queue is in progress
          followups,  \* calls that read again in a lock cycle of their own
          call,       \* the last operation
          outcome,    \* ... and how it ended
          steps       \* operations so far (bounded by MaxOps)

vars == <<db, cache, draining, followups, call, outcome, steps>>

Txns == 1..MaxTxn

\* kids: the sum of the children of a split.  peer: the other side of a
\* transfer.  unchecked: what an update has set without a check.
Txn == [account: Accounts, amount: Int, kids: Int \cup {None},
        peer: Txns \cup {None}, unchecked: SUBSET {"account", "amount"}]

\* An absent transaction is not one.
ASSUME TxnAssumption == None \notin Txn

Tables == [row: [Entities -> {"absent", "live", "dead"}], made: SUBSET Entities,
           closed: SUBSET Accounts, named: SUBSET Entities, home: [Categories -> Groups],
           link: [Payees -> Accounts \cup {None}],
           memberOf: [Accounts -> AccountGroups \cup {None}], agroups: SUBSET AccountGroups,
           txn: [Txns -> Txn \cup {None}], dropped: SUBSET Txns, notes: SUBSET Entities]

Listing == [live: SUBSET Entities, closed: SUBSET Accounts, named: SUBSET Entities,
            link: [Payees -> Accounts \cup {None}],
            memberOf: [Accounts -> AccountGroups \cup {None}]]

Outcomes == {"none", "done", "unchanged", "removed", "written", "refused", "failed", "survives"}

TypeOK ==
    /\ db \in [Budgets -> Tables]
    /\ cache \in [Kinds -> Listing \cup {None}]
    /\ draining \in BOOLEAN /\ steps \in 0..MaxOps
    /\ outcome \in Outcomes
    /\ followups \subseteq [tool: {"accounts_delete", "transfers_create"}, budget: Budgets,
                            id: Accounts]
-----------------------------------------------------------------------------
(* Listings                                                                *)

Live(t, i) == t.row[i] = "live"

\* What rawGetAccounts, rawGetPayees, rawGetCategories or rawGetCategoryGroups returns.
\* A listing shows the columns of its own rows.
List(t, k) ==
    [live     |-> {i \in Ids[k] : Live(t, i)},
     named    |-> {i \in Ids[k] : i \in t.named},
     closed   |-> IF k = "accounts" THEN t.closed ELSE {},
     link     |-> IF k = "payees" THEN t.link ELSE [p \in Payees |-> None],
     memberOf |-> IF k = "accounts" THEN t.memberOf ELSE [a \in Accounts |-> None]]

\* readDrainListing
Read(b, k) == IF cache[k] # None THEN cache[k] ELSE List(db[b], k)

\* A payee with a transfer_acct, in a listing of payees.
IsTransfer(l, p) == p \notin Payees \/ l.link[p] # None

\* Mutant: an operation's listings stay, whatever it wrote.
DropNothing(b, reads, keeps) ==
    cache' = [k \in Kinds |-> IF k \in reads THEN Read(b, k) ELSE cache[k]]

\* Mutant: only the ids of a listing are kept.
DropKeepsIds(b, reads, keeps) ==
    cache' = [k \in Kinds |-> IF k \notin keeps THEN None
                              ELSE IF k \in reads THEN [live |-> Read(b, k).live]
                              ELSE cache[k]]

\* The operation ends: every listing it did not promise to leave alone goes,
\* whether it succeeded or not.
Drop(b, reads, keeps) ==
    cache' = [k \in Kinds |-> IF k \notin keeps THEN None
                              ELSE IF k \in reads THEN Read(b, k) ELSE cache[k]]

\* One operation of the drain.  `reads`: the listings it looked at.
Runs(tool, b, in, reads, keeps) ==
    /\ draining /\ steps < MaxOps
    /\ steps' = steps + 1
    /\ call' = [tool |-> tool, budget |-> b, in |-> in]
    /\ Drop(b, reads, keeps)
    /\ UNCHANGED draining

Now(b, t) == db' = [db EXCEPT ![b] = t]

Ends(o) == outcome' = o /\ UNCHANGED followups

\* A refusal of the guard, before anything is written.
Refuses == UNCHANGED db /\ Ends("refused")

\* The raw call throws, before or after its effect.
Throws(b, t) == (UNCHANGED db \/ Now(b, t)) /\ Ends("failed")

Writes(b, t, o) == (Now(b, t) /\ Ends(o)) \/ Throws(b, t)
-----------------------------------------------------------------------------
(* The library underneath                                                  *)

\* db.insertWithUUID; an account comes with its transfer payee.
Insert(t, i) ==
    LET new == IF i \in Accounts THEN {i, TransferPayee(i)} ELSE {i}
    IN [t EXCEPT !.row = [j \in Entities |-> IF j \in new THEN "live" ELSE @[j]],
                 !.made = @ \cup new]

\* db.update sends messages that INSERT an absent row and leave a dead one dead.
Put(t, i) ==
    [t EXCEPT !.row[i] = IF @ = "absent" THEN "live" ELSE @,
              !.named = @ \cup (IF i \in Accounts THEN {i, TransferPayee(i)} ELSE {i})]

Tombstone(t, S) ==
    [t EXCEPT !.row = [j \in Entities |-> IF j \in S /\ Live(t, j) THEN "dead" ELSE @[j]]]

Unused(t) == {x \in Txns : t.txn[x] = None /\ x \notin t.dropped}

Txn0(a, n) == [account |-> a, amount |-> n, kids |-> None, peer |-> None, unchecked |-> {}]

TxnsOf(t, a) == {x \in Txns : t.txn[x] # None /\ t.txn[x].account = a}

Balance(t, a) == SumFunction([x \in TxnsOf(t, a) |-> t.txn[x].amount])

AddTxn(t, r) == [t EXCEPT !.txn[Min(Unused(t))] = r]

\* Both sides of a transfer, linked.
AddTransfer(t, from, to, n) ==
    LET x == Min(Unused(t))
        y == Min(Unused(t) \ {x})
    IN [t EXCEPT !.txn[x] = [Txn0(from, -n) EXCEPT !.peer = y],
                 !.txn[y] = [Txn0(to, n) EXCEPT !.peer = x]]

DropTxns(t, X) ==
    LET unlinked(r) == [r EXCEPT !.peer = IF @ \in X THEN None ELSE @]
    IN [t EXCEPT !.txn = [x \in Txns |-> IF x \in X \/ t.txn[x] = None THEN None
                                        ELSE unlinked(t.txn[x])],
                 !.dropped = t.dropped \cup X]

\* A transaction write can mint a payee from a name or from a rule.
Minted(t) == {t} \cup {Insert(t, p) : p \in {q \in Payees : t.row[q] = "absent"}}

\* closeAccount: nothing for an unknown or a closed account, a tombstone for one
\* without transactions.
RawClose(t, a, dest) ==
    IF ~Live(t, a) \/ a \in t.closed THEN t
    ELSE IF TxnsOf(t, a) = {} THEN Tombstone(t, {a, TransferPayee(a)})
    ELSE LET moved == IF Balance(t, a) = 0 THEN t ELSE AddTransfer(t, a, dest, Balance(t, a))
         IN [moved EXCEPT !.closed = @ \cup {a}]

\* The same with `forced`: the transactions go too.
RawDelete(t, a) ==
    IF ~Live(t, a) \/ a \in t.closed THEN t
    ELSE Tombstone(DropTxns(t, TxnsOf(t, a)), {a, TransferPayee(a)})

\* A group takes its categories with it.
RawDeleteGroup(t, g) == Tombstone(t, {g} \cup {c \in Categories : t.home[c] = g})

\* api/account-group-delete clears the membership of its accounts first.
RawDeleteAccountGroup(t, g) ==
    [t EXCEPT !.memberOf = [a \in Accounts |-> IF @[a] = g THEN None ELSE @[a]],
              !.agroups = @ \ {g}]
-----------------------------------------------------------------------------
Init ==
    /\ db = [b \in Budgets |->
               LET live == Initially[b] \cup {TransferPayee(a) : a \in Initially[b] \cap Accounts}
               IN [row |-> [i \in Entities |-> IF i \in live THEN "live" ELSE "absent"],
                   made |-> live, closed |-> {}, named |-> {}, notes |-> {}, home |-> GroupOf,
                   link |-> [p \in Payees |-> None],
                   memberOf |-> [a \in Accounts |-> IF a \in live THEN Joined ELSE None],
                   agroups |-> {Joined}, dropped |-> {},
                   txn |-> [x \in Txns |->
                              IF x = 1 /\ Holder \in live
                              THEN [Txn0(Holder, Min(Amounts)) EXCEPT !.kids = Min(Amounts)]
                              ELSE None]]]
    /\ cache = [k \in Kinds |-> None] /\ draining = FALSE /\ followups = {}
    /\ call = None /\ outcome = "none" /\ steps = 0

\* drainListingStore.run(new Map())
BeginDrain ==
    /\ ~draining /\ steps < MaxOps
    /\ draining' = TRUE /\ cache' = [k \in Kinds |-> None]
    /\ UNCHANGED <<db, followups, call, outcome, steps>>

EndDrain ==
    /\ draining
    /\ draining' = FALSE /\ cache' = [k \in Kinds |-> None]
    /\ call' = None /\ outcome' = "none"
    /\ UNCHANGED <<db, followups, steps>>
-----------------------------------------------------------------------------
(* Accounts                                                                *)

\* accounts_create: the id of the input is ignored, a fresh one is minted.
CreateAccount(b) ==
    \E a \in {x \in Accounts : db[b].row[x] = "absent"} :
        /\ Runs("accounts_create", b, [id |-> a], {}, {})
        /\ Writes(b, Insert(db[b], a), "done")

\* accounts_update wants at least one of name, offbudget and closed.
AccountUpdates == [id: Accounts, closed: BOOLEAN \cup {None}]

\* Mutant: no existence check.
UpdateAccountUnguarded(b) ==
    \E in \in AccountUpdates :
        /\ Runs("accounts_update", b, [id |-> in.id], {"accounts"}, {})
        /\ Writes(b, Put(db[b], in.id), "done")

SetClosed(t, in) ==
    [t EXCEPT !.closed = IF in.closed = None THEN @
                         ELSE IF in.closed THEN @ \cup {in.id} ELSE @ \ {in.id}]

UpdateAccount(b) ==
    \E in \in AccountUpdates :
        /\ Runs("accounts_update", b, [id |-> in.id], {"accounts"}, {})
        /\ IF in.id \in Read(b, "accounts").live
           THEN Writes(b, SetClosed(Put(db[b], in.id), in), "done")
           ELSE Refuses

\* No guard: upstream ignores a closed account and an unknown one, and the tool
\* looks afterwards, in a lock cycle of its own.
DeleteAccount(b) ==
    \E a \in Accounts :
        /\ Runs("accounts_delete", b, [id |-> a], {}, {})
        /\ \/ /\ Now(b, RawDelete(db[b], a))
              /\ outcome' = "written"
              /\ followups' = followups \cup
                     {[tool |-> "accounts_delete", budget |-> b, id |-> a]}
           \/ Throws(b, RawDelete(db[b], a))

\* The read outside the drain passes every cache by.
VerifyDeletion(f) ==
    /\ f \in followups /\ f.tool = "accounts_delete" /\ ~draining
    /\ followups' = followups \ {f}
    /\ call' = [tool |-> f.tool, budget |-> f.budget, in |-> [id |-> f.id]]
    /\ outcome' = IF f.id \in List(db[f.budget], "accounts").live THEN "survives" ELSE "removed"
    /\ UNCHANGED <<db, cache, draining, steps>>

\* accounts_close refuses a destination that is the account itself.
CloseInputs ==
    {in \in [id: Accounts, dest: Accounts \cup {None}, category: Categories \cup {None}] :
        in.dest # in.id}

\* What closeAccount refuses, from the two listings it reads.
CloseRefused(b, in) ==
    LET l == Read(b, "accounts")
    IN \/ in.id \notin l.live
       \/ in.id \notin l.closed /\ in.dest # None /\ (in.dest \notin l.live \/ in.dest \in l.closed)
       \/ /\ in.id \notin l.closed /\ in.category # None
          /\ in.category \notin Read(b, "categories").live

\* Upstream throws when a balance has nowhere to go.
BalanceStuck(t, in) ==
    TxnsOf(t, in.id) # {} /\ Balance(t, in.id) # 0 /\ in.dest = None

CloseAccount(b) ==
    \E in \in CloseInputs :
        LET after == RawClose(db[b], in.id, in.dest)
        IN /\ Cardinality(Unused(db[b])) >= 2
           /\ Runs("accounts_close", b, [id |-> in.id], {"accounts", "categories"}, {})
           /\ IF CloseRefused(b, in) THEN Refuses
              ELSE IF in.id \in Read(b, "accounts").closed
              THEN UNCHANGED db /\ Ends("unchanged")
              ELSE IF BalanceStuck(db[b], in)
              THEN UNCHANGED db /\ Ends("failed")
              ELSE Writes(b, after, IF ~Live(after, in.id) THEN "removed"
                                    ELSE IF in.id \in after.closed THEN "done" ELSE "failed")

\* An account that is open already is not written.
ReopenAccount(b) ==
    \E a \in Accounts :
        LET l == Read(b, "accounts")
            after == [Put(db[b], a) EXCEPT !.closed = @ \ {a}]
        IN /\ Runs("accounts_reopen", b, [id |-> a], {"accounts"}, {})
           /\ IF a \notin l.live THEN Refuses
              ELSE IF a \notin l.closed THEN UNCHANGED db /\ Ends("unchanged")
              ELSE Writes(b, after, IF Live(after, a) THEN "done" ELSE "failed")

\* The accounts listing holds the membership, which only a delete changes.
CreateAccountGroup(b) ==
    \E g \in AccountGroups \ db[b].agroups :
        /\ Runs("account_groups_create", b, [id |-> g], {}, Kinds)
        /\ Writes(b, [db[b] EXCEPT !.agroups = @ \cup {g}], "done")

UpdateAccountGroup(b) ==
    \E g \in AccountGroups :
        /\ Runs("account_groups_update", b, [id |-> g], {}, Kinds)
        /\ IF g \in db[b].agroups THEN Writes(b, db[b], "done") ELSE Refuses

DeleteAccountGroup(b) ==
    \E g \in AccountGroups :
        /\ Runs("account_groups_delete", b, [id |-> g], {}, {})
        /\ IF g \in db[b].agroups
           THEN Writes(b, RawDeleteAccountGroup(db[b], g), "done") ELSE Refuses
-----------------------------------------------------------------------------
(* Payees, categories and groups                                           *)

CreatePayee(b) ==
    \E p \in {x \in Payees : db[b].row[x] = "absent"} :
        /\ Runs("payees_create", b, [id |-> p], {}, {})
        /\ Writes(b, Insert(db[b], p), "done")

\* payees_update; the default category is a rule and belongs to RuleBook.
PayeeUpdates == [id: Ids.payees, transfer_acct: Accounts \cup {None}]

UpdatePayee(b) ==
    \E in \in PayeeUpdates :
        LET linked == [Put(db[b], in.id) EXCEPT !.link =
                          [p \in Payees |-> IF p = in.id /\ in.transfer_acct # None
                                            THEN in.transfer_acct ELSE @[p]]]
        IN /\ Runs("payees_update", b, [id |-> in.id], {"payees"}, {})
           /\ IF in.id \in Read(b, "payees").live THEN Writes(b, linked, "done") ELSE Refuses

\* Mutant: a transfer payee passes.
DeletePayeeAny(b) ==
    \E p \in Ids.payees :
        /\ Runs("payees_delete", b, [id |-> p], {"payees"}, {})
        /\ IF p \in Read(b, "payees").live
           THEN Writes(b, IF IsTransfer(List(db[b], "payees"), p) THEN db[b]
                          ELSE Tombstone(db[b], {p}), "removed")
           ELSE Refuses

\* db.deletePayee silently ignores a transfer payee, so the guard refuses it.
DeletePayee(b) ==
    \E p \in Ids.payees :
        /\ Runs("payees_delete", b, [id |-> p], {"payees"}, {})
        /\ IF p \in Read(b, "payees").live /\ ~IsTransfer(Read(b, "payees"), p)
           THEN Writes(b, IF IsTransfer(List(db[b], "payees"), p) THEN db[b]
                          ELSE Tombstone(db[b], {p}), "removed")
           ELSE Refuses

\* payees_merge: at least one id (and at most 50).
MergeInputs == [id: Ids.payees, ids: {S \in SUBSET Payees : S # {} /\ Cardinality(S) <= 2}]

MergePayees(b) ==
    \E in \in MergeInputs :
        LET l == Read(b, "payees")
            sources == {p \in in.ids : ~IsTransfer(List(db[b], "payees"), p)}
        IN /\ Runs("payees_merge", b, in, {"payees"}, {})
           /\ IF /\ {in.id} \cup in.ids \subseteq l.live
                 /\ \A p \in {in.id} \cup in.ids : ~IsTransfer(l, p)
                 /\ in.id \notin in.ids
              THEN Writes(b, IF IsTransfer(List(db[b], "payees"), in.id) THEN db[b]
                             ELSE Tombstone(db[b], sources), "done")
              ELSE Refuses

CreateCategory(b) ==
    \E c \in {x \in Categories : db[b].row[x] = "absent"}, g \in Groups :
        /\ Runs("categories_create", b, [id |-> c], {}, {})
        /\ Writes(b, [Insert(db[b], c) EXCEPT !.home[c] = g], "done")

UpdateCategory(b) ==
    \E c \in Categories, g \in Groups \cup {None} :
        /\ Runs("categories_update", b, [id |-> c], {"categories"}, {})
        /\ IF c \in Read(b, "categories").live
           THEN Writes(b, [Put(db[b], c) EXCEPT !.home[c] = IF g = None THEN @ ELSE g], "done")
           ELSE Refuses

DeleteCategory(b) ==
    \E c \in Categories :
        /\ Runs("categories_delete", b, [id |-> c], {"categories"}, {})
        /\ IF c \in Read(b, "categories").live
           THEN Writes(b, Tombstone(db[b], {c}), "removed") ELSE Refuses

CreateCategoryGroup(b) ==
    \E g \in {x \in Groups : db[b].row[x] = "absent"} :
        /\ Runs("category_groups_create", b, [id |-> g], {}, {})
        /\ Writes(b, Insert(db[b], g), "done")

UpdateCategoryGroup(b) ==
    \E g \in Groups :
        /\ Runs("category_groups_update", b, [id |-> g], {"categoryGroups"}, {})
        /\ IF g \in Read(b, "categoryGroups").live
           THEN Writes(b, Put(db[b], g), "done") ELSE Refuses

DeleteCategoryGroup(b) ==
    \E g \in Groups :
        /\ Runs("category_groups_delete", b, [id |-> g], {"categoryGroups"}, {})
        /\ IF g \in Read(b, "categoryGroups").live
           THEN Writes(b, RawDeleteGroup(db[b], g), "removed") ELSE Refuses

\* A note is an upsert under any id, so its id must be in one of the listings;
\* the note of a month names no row.
UpdateNote(b) ==
    \/ \E i \in Entities :
           /\ Runs("notes_update", b, [id |-> i], Kinds, Kinds)
           /\ IF \E k \in Kinds : i \in Read(b, k).live
              THEN Writes(b, [db[b] EXCEPT !.notes = @ \cup {i}], "done")
              ELSE Refuses
    \/ /\ Runs("notes_update", b, [id |-> None], {}, Kinds)
       /\ Writes(b, db[b], "done")

\* The guard of setBudgetAmount: it reads the categories and keeps every listing.
\* What it writes belongs to BudgetMonth.
BudgetWrite(b) ==
    \E c \in Categories :
        /\ Runs("budgets_setAmount", b, [id |-> c], {"categories"}, Kinds)
        /\ IF c \in Read(b, "categories").live THEN Writes(b, db[b], "done") ELSE Refuses
-----------------------------------------------------------------------------
(* Transactions                                                            *)

\* transactions_create: a split's children sum to its amount.
NewTxns == {in \in [id: Accounts, amount: Amounts, kids: Amounts \cup {None}] :
                in.kids \in {None, in.amount}}

\* Mutant: the account is not looked up.
AddTransactionsAnywhere(b) ==
    \E in \in NewTxns :
        /\ Unused(db[b]) # {}
        /\ Runs("transactions_create", b, [id |-> in.id], {"accounts"}, Kinds \ {"payees"})
        /\ \E t \in Minted(AddTxn(db[b], [Txn0(in.id, in.amount) EXCEPT !.kids = in.kids])) :
               Writes(b, t, "done")

\* Mutant: the payee it may have minted is forgotten.
AddTransactionsKeepsPayees(b) ==
    \E in \in NewTxns :
        /\ Unused(db[b]) # {}
        /\ Runs("transactions_create", b, [id |-> in.id], {"accounts"}, Kinds)
        /\ IF in.id \in Read(b, "accounts").live
           THEN \E t \in Minted(AddTxn(db[b], [Txn0(in.id, in.amount) EXCEPT !.kids = in.kids])) :
                    Writes(b, t, "done")
           ELSE Refuses

\* A closed account is allowed: history is imported into closed accounts.  What a retry
\* of a create that already took effect does is the library's, and left out.
AddTransactions(b) ==
    \E in \in NewTxns :
        /\ Unused(db[b]) # {}
        /\ Runs("transactions_create", b, [id |-> in.id], {"accounts"}, Kinds \ {"payees"})
        /\ IF in.id \in Read(b, "accounts").live
           THEN \E t \in Minted(AddTxn(db[b], [Txn0(in.id, in.amount) EXCEPT !.kids = in.kids])) :
                    Writes(b, t, "done")
           ELSE Refuses

\* No guard here; an existing transaction may be matched instead of added.
ImportTransactions(b) ==
    \E a \in {x \in Accounts : Live(db[b], x)}, n \in Amounts :
        /\ Unused(db[b]) # {}
        /\ Runs("transactions_import", b, [id |-> a], {}, {})
        /\ \E t \in Minted(AddTxn(db[b], Txn0(a, n))) \cup {db[b]} : Writes(b, t, "done")

TransferInputs == [id: Accounts, to: Accounts, amount: Amounts]

\* Both accounts exist and are open, and the destination has its transfer payee.
Transferable(b, in) ==
    LET l == Read(b, "accounts")
    IN /\ in.id # in.to
       /\ {in.id, in.to} \subseteq l.live /\ {in.id, in.to} \cap l.closed = {}
       /\ \E p \in Read(b, "payees").live :
              p = TransferPayee(in.to) \/ (p \in Payees /\ Read(b, "payees").link[p] = in.to)

CreateTransfer(b) ==
    \E in \in TransferInputs :
        LET t == AddTransfer(db[b], in.id, in.to, in.amount)
        IN /\ Cardinality(Unused(db[b])) >= 2
           /\ Runs("transfers_create", b, in, {"accounts", "payees"}, {})
           /\ IF ~Transferable(b, in) THEN Refuses
              ELSE \/ /\ Now(b, t)
                      /\ outcome' = "written"
                      /\ followups' = followups \cup
                             {[tool |-> "transfers_create", budget |-> b, id |-> in.id]}
                   \/ Throws(b, t)

\* The read-back looks for the newest transfer of the account; that it finds
\* none, or fails, does not change the answer.
ReadBackTransfer(f) ==
    /\ f \in followups /\ f.tool = "transfers_create" /\ ~draining
    /\ followups' = followups \ {f}
    /\ call' = [tool |-> f.tool, budget |-> f.budget, in |-> [id |-> f.id]]
    /\ outcome' = "done"
    /\ UNCHANGED <<db, cache, draining, steps>>

\* What an update can set.  Nothing checks the account, nor an amount alone.
TxnUpdates == [id: Txns, account: Accounts \cup {None}, amount: Amounts \cup {None},
               kids: Amounts \cup {None}]

Updated(t, in) ==
    LET r == t.txn[in.id]
    IN IF r = None THEN t
       ELSE [t EXCEPT !.txn[in.id] =
                [r EXCEPT !.account   = IF in.account = None THEN @ ELSE in.account,
                          !.amount    = IF in.amount = None THEN @ ELSE in.amount,
                          !.kids      = IF in.kids = None THEN @ ELSE in.kids,
                          !.unchecked =
                              (IF in.kids # None THEN @ \ {"amount"}
                               ELSE IF in.amount # None THEN @ \cup {"amount"} ELSE @)
                              \cup (IF in.account # None THEN {"account"} ELSE {})]]

\* Only a split takes children, and they sum to its amount after the update.
SplitAllowed(r, in) ==
    \/ in.kids = None
    \/ r.kids # None /\ in.kids = (IF in.amount # None THEN in.amount ELSE r.amount)

UpdateTransaction(b) ==
    \/ \E x \in Txns :
           /\ db[b].txn[x] = None
           /\ Runs("transactions_update", b, [id |-> x], {}, {})
           /\ Refuses
    \/ \E in \in TxnUpdates :
           /\ db[b].txn[in.id] # None
           /\ Runs("transactions_update", b, [id |-> in.id], {}, {})
           /\ IF SplitAllowed(db[b].txn[in.id], in)
              THEN Writes(b, Updated(db[b], in), "done")
              ELSE Refuses

\* One existence query for the whole batch, then one update after the other; each
\* fails alone.  A batch carries no children.
UpdateTransactionBatch(b) ==
    \E x, y \in Txns, n \in Amounts :
        LET set(i) == [id |-> i, account |-> None, amount |-> n, kids |-> None]
            known == {i \in {x, y} : db[b].txn[i] # None}
        IN /\ Runs("transactions_update_batch", b, [ids |-> {x, y}], {}, {})
           /\ \E applied \in SUBSET known :
                  /\ Now(b, [db[b] EXCEPT !.txn =
                                [i \in Txns |-> IF i \in applied
                                                THEN Updated(db[b], set(i)).txn[i]
                                                ELSE db[b].txn[i]]])
                  /\ Ends(IF applied = {x, y} THEN "done" ELSE "failed")

\* A delete of the parent takes its children, and unlinks the other side.
DeleteTransaction(b) ==
    \E x \in Txns :
        /\ Runs("transactions_delete", b, [id |-> x], {}, {})
        /\ IF db[b].txn[x] # None
           THEN Writes(b, DropTxns(db[b], {x}), "removed") ELSE Refuses
-----------------------------------------------------------------------------
AccountOps(b) ==
    \/ CreateAccount(b) \/ UpdateAccount(b) \/ DeleteAccount(b) \/ CloseAccount(b)
    \/ ReopenAccount(b) \/ CreateAccountGroup(b) \/ UpdateAccountGroup(b)
    \/ DeleteAccountGroup(b)

PayeeOps(b) ==
    \/ CreatePayee(b) \/ UpdatePayee(b) \/ DeletePayee(b) \/ MergePayees(b)
    \/ CreateCategory(b) \/ UpdateCategory(b) \/ DeleteCategory(b)
    \/ CreateCategoryGroup(b) \/ UpdateCategoryGroup(b) \/ DeleteCategoryGroup(b)
    \/ UpdateNote(b) \/ BudgetWrite(b)

TxnOps(b) ==
    \/ AddTransactions(b) \/ ImportTransactions(b) \/ CreateTransfer(b)
    \/ UpdateTransaction(b) \/ UpdateTransactionBatch(b) \/ DeleteTransaction(b)

Next ==
    \/ BeginDrain \/ EndDrain
    \/ \E b \in Budgets : AccountOps(b) \/ PayeeOps(b) \/ TxnOps(b)
    \/ \E f \in followups : VerifyDeletion(f) \/ ReadBackTransfer(f)

Spec == Init /\ [][Next]_vars
-----------------------------------------------------------------------------
(* A listing a guard would read now shows the budget as it is: no earlier  *)
(* operation of the drain kept a listing that it changed (#378).           *)
ListingFresh ==
    \A b \in Budgets, k \in Kinds : cache[k] # None => cache[k] = List(db[b], k)

(* No row is visible that no create made: an update of an unknown id       *)
(* inserts one, and a guard on a stale listing lets it through (#360).     *)
NoPhantom == \A b \in Budgets, i \in Entities : Live(db[b], i) => i \in db[b].made

(* A transaction that this server created, and that no update has moved,   *)
(* belongs to an account that exists (#359).                               *)
NoDangling ==
    \A b \in Budgets, x \in Txns :
        LET r == db[b].txn[x]
        IN r # None /\ "account" \notin r.unchecked => Live(db[b], r.account)

(* The children of a split sum to its amount, unless an update has set the *)
(* amount alone (#305).                                                    *)
SplitsAddUp ==
    \A b \in Budgets, x \in Txns :
        LET r == db[b].txn[x]
        IN r # None /\ "amount" \notin r.unchecked => r.kids \in {None, r.amount}

TransactionsSound == NoDangling /\ SplitsAddUp

Updates == {"accounts_update", "payees_update", "categories_update", "category_groups_update"}

\* What the answer of call c promises, with the tables before and after it.
Promised(c, o, t, u) ==
    CASE o = "removed" -> IF c.tool = "transactions_delete" THEN u.txn[c.in.id] = None
                          ELSE ~Live(u, c.in.id)
      [] o = "unchanged" -> Live(u, c.in.id) /\ u = t
      [] o = "done" /\ c.tool \in Updates ->
             Live(t, c.in.id) /\ Live(u, c.in.id) /\ c.in.id \in u.named
      [] o = "done" /\ c.tool = "accounts_close" -> Live(u, c.in.id) /\ c.in.id \in u.closed
      [] o = "done" /\ c.tool = "accounts_reopen" -> Live(u, c.in.id) /\ c.in.id \notin u.closed
      [] o = "done" /\ c.tool = "payees_merge" ->
             Live(u, c.in.id) /\ \A p \in c.in.ids : Live(t, p) /\ ~Live(u, p)
      [] o = "done" /\ c.tool = "notes_update" -> c.in.id = None \/ Live(u, c.in.id)
      [] o = "written" /\ c.tool = "transfers_create" ->
             /\ \A a \in {c.in.id, c.in.to} : Live(u, a) /\ a \notin u.closed
             /\ Balance(u, c.in.id) + Balance(u, c.in.to)
                    = Balance(t, c.in.id) + Balance(t, c.in.to)
      [] OTHER -> TRUE

(* An answer of success tells the truth about the budget, although several *)
(* raw calls return normally having done nothing (#347, #356 to #360).     *)
SuccessIsReal ==
    [][steps' # steps \/ followups' # followups =>
          Promised(call', outcome', db[call'.budget], db'[call'.budget])]_vars

(* A refusal for a missing target is right: the target is not there now.   *)
(* A listing kept too long makes a false not-found of an earlier create.   *)
RefusalIsReal ==
    [][steps' # steps /\ outcome' = "refused" /\ call'.tool \in Updates
          => ~Live(db[call'.budget], call'.in.id)]_vars
=============================================================================
