------------------------------ MODULE Insight -------------------------------
(***************************************************************************)
(* The read tools that add money up: the deterministic reports of          *)
(* src/lib/financial-analysis.ts and the searches and summaries under      *)
(* src/tools.  A behaviour records transactions; every report is a         *)
(* function of what is recorded and of its input.                          *)
(*                                                                         *)
(* The hard part is that one event is several rows: a split is a parent    *)
(* and its children, a transfer is a row in each of two accounts, possibly *)
(* on two days, and one leg of it may be a child of a split.               *)
(***************************************************************************)
EXTENDS Integers, Sequences, FiniteSets, Functions

CONSTANTS
    Banks,      \* the accounts
    OffBudget,  \* those that are off budget
    ClosedBanks,\* those that are closed
    Heads,      \* the categories
    IncomeHeads,\* those of income
    Shops,      \* the payees that are not an account
    Days,       \* numbered in order
    Coins,      \* amounts a transaction may have
    MaxRecords, \* model bound: events recorded
    Nil         \* undefined, and an unresolved id

ASSUME InsightAssumption ==
    /\ OffBudget \subseteq Banks /\ ClosedBanks \subseteq Banks /\ IsFiniteSet(Banks)
    /\ IncomeHeads \subseteq Heads
    /\ Days \subseteq Nat /\ Coins \subseteq Int \ {0} /\ MaxRecords \in Nat
    /\ Nil \notin Banks \cup Heads \cup Shops /\ Nil \notin Int
    /\ \A banks \in SUBSET Banks : Nil # banks

VARIABLES
    book,   \* the rows as getTransactions lists them: splits grouped under their parents
    lost,   \* rows whose transfer names a row that is no longer there
    records \* model bound counter

bookVars == <<book, lost, records>>

\* The payee of a transfer stands for the account at its other end.
IsPlain(r) == r.kids = {}
Total(S) == SumFunction([r \in S |-> r.amount])
NextId == 10 * (records + 1)

Record(rows) ==
    /\ records < MaxRecords /\ records' = records + 1
    /\ book' = book \cup rows
    /\ UNCHANGED lost

Row(id, day, bank, head, payee, amount) ==
    [id |-> id, date |-> day, account |-> bank, category |-> head, payee |-> payee,
     amount |-> amount, transfer |-> Nil, start |-> FALSE, parent |-> Nil, kids |-> {}]

Post(day, bank, head, shop, n) == Record({Row(NextId, day, bank, head, shop, n)})

\* An opening balance is filed under an income category, as Actual does.
Open(day, bank, head, n) ==
    Record({[Row(NextId, day, bank, head, Nil, n) EXCEPT !.start = TRUE]})

\* The legs of a transfer name each other, and each other's account as payee; one
\* that leaves the budget may have a category.
Legs(id, other, from, to, day, later, head, n) ==
    {[Row(id, day, from, head, to, -n) EXCEPT !.transfer = other],
     [Row(other, later, to, Nil, from, n) EXCEPT !.transfer = id]}

Transfer(from, to, day, later, head, n) ==
    Record(Legs(NextId, NextId + 1, from, to, day, later, head, n))

\* A split: the parent carries the total and no category, the second child may
\* be the leg of a transfer.
Split(day, bank, to, head, n, m) ==
    LET legs == Legs(NextId + 1, NextId + 2, bank, to, day, day, Nil, m)
        kid == [Row(NextId + 3, day, bank, head, Nil, n) EXCEPT !.parent = NextId]
        sent == {[l EXCEPT !.parent = NextId] : l \in {x \in legs : x.account = bank}}
    IN  Record({[Row(NextId, day, bank, Nil, Nil, n - m) EXCEPT !.kids = {kid} \cup sent]}
               \cup {l \in legs : l.account = to})

\* The other leg is deleted on a device that had not seen this one.
Lose(r) ==
    /\ IsPlain(r) /\ r.transfer # Nil /\ lost = {}
    /\ book' = book \ {r} /\ lost' = {r.transfer}
    /\ UNCHANGED records

(***************************************************************************)
(* financial-analysis.ts: postings and their classes                       *)
(***************************************************************************)
\* Mutant: a split counts with its children and with its parent.
PostingRowsWithParents(rows) == rows \cup UNION {t.kids : t \in rows}

\* A split contributes its children and never its parent, whether the children
\* come grouped, as rows of their own, or both ways.
PostingRows(rows) ==
    LET parents == {t.id : t \in {u \in rows : ~IsPlain(u)}} \cup {t.parent : t \in rows}
    IN  (UNION {t.kids : t \in rows}) \cup {t \in rows : IsPlain(t) /\ t.id \notin parents}

\* classifyExternal: a transfer first, then an opening balance, then by category
\* and sign.
ClassifyExternal(r) ==
    LET filed == r.category # Nil
    IN  CASE r.transfer # Nil -> "transfer"
          [] r.transfer = Nil /\ r.start -> "adjustment"
          [] r.transfer = Nil /\ ~r.start /\ r.category \in IncomeHeads -> "income"
          [] r.transfer = Nil /\ ~r.start /\ r.category \notin IncomeHeads /\ r.amount > 0 ->
                IF filed THEN "credit" ELSE "uncategorized-inflow"
          [] OTHER -> "expense"

Of(rows, class) == {r \in rows : ClassifyExternal(r) = class}
Inflows(rows) == {r \in rows : r.amount >= 0}
Outflows(rows) == {r \in rows : r.amount < 0}
InRange(rows, from, to) == {r \in rows : from <= r.date /\ r.date <= to}

\* The snapshot of an inclusive range, with the counterparts of its transfers and
\* the balances before and after, which are sums over postings (splits: inline).
AnalysisSnapshot(from, to, banks) ==
    LET rows == InRange(book, from, to)
        all == PostingRows(book)
        ids == {r.transfer : r \in PostingRows(rows)}
        until(bank, days) == Total({r \in all : r.account = bank /\ r.date \in days})
    IN  [rows |-> rows,
         counterparts |-> {r \in all : r.id \in ids},
         opening |-> [b \in banks |-> until(b, {d \in Days : d < from})],
         closing |-> [b \in banks |-> until(b, {d \in Days : d <= to})]]

(***************************************************************************)
(* aggregateTransactions                                                   *)
(***************************************************************************)
MatchesFilters(r, in) ==
    /\ in.from <= r.date /\ r.date <= in.to
    /\ in.banks # Nil => r.account \in in.banks
    /\ in.heads # Nil => r.category \in in.heads
    /\ in.shops # Nil => r.payee \in in.shops

\* The values of one group.
Values(rows) ==
    [expenseOutflow |-> -Total(Of(rows, "expense")),
     credits |-> Total(Of(rows, "credit")),
     income |-> Total(Of(rows, "income")),
     uncategorizedInflows |-> Total(Of(rows, "uncategorized-inflow")),
     adjustments |-> Total(Of(rows, "adjustment")),
     transferInflow |-> Total(Inflows(Of(rows, "transfer"))),
     transferOutflow |-> -Total(Outflows(Of(rows, "transfer"))),
     transactionCount |-> Cardinality(rows \ Of(rows, "transfer")),
     transferCount |-> Cardinality(Of(rows, "transfer"))]

\* The fields a row is grouped by.
GroupingFields(r, dims) ==
    [d \in dims |-> CASE d = "month" -> r.date [] d = "category" -> r.category
                      [] d = "payee" -> r.payee [] OTHER -> r.account]

Kept(in) ==
    {r \in PostingRows(AnalysisSnapshot(in.from, in.to, {}).rows) :
        /\ MatchesFilters(r, in)
        /\ ClassifyExternal(r) = "income" => in.includeIncome
        /\ ClassifyExternal(r) = "transfer" => ~in.excludeTransfers}

Grouped(rows, dims) ==
    [k \in {GroupingFields(r, dims) : r \in rows} |->
        Values({r \in rows : GroupingFields(r, dims) = k})]

\* The totals are the sums of the groups.
WithTotals(groups) ==
    [groups |-> groups,
     totals |-> [f \in DOMAIN Values({}) |->
                    SumFunction([k \in DOMAIN groups |-> groups[k][f]])]]

AggregateTransactions(in) == WithTotals(Grouped(Kept(in), in.dims))

(***************************************************************************)
(* summarizeAccountFlow                                                    *)
(***************************************************************************)
\* The account at the other end: the counterpart's, else the payee's, else none.
CounterpartAccount(r, snapshot) ==
    LET found == {c \in snapshot.counterparts : c.id = r.transfer}
    IN  CASE found # {} -> (CHOOSE c \in found : TRUE).account
          [] found = {} /\ r.payee \in Banks -> r.payee
          [] OTHER -> Nil

PairKey(r) == {r.id, r.transfer}

\* Within the selection a pair counts once, whichever of its legs are in range;
\* outside, a leg counts by its sign.
TransferFlow(legs, banks, snapshot) ==
    LET inside == {r \in legs : CounterpartAccount(r, snapshot) \in banks}
        once == {CHOOSE r \in inside : PairKey(r) = k : k \in {PairKey(r) : r \in inside}}
    IN  [into |-> Total(Inflows(legs \ inside)), outOf |-> -Total(Outflows(legs \ inside)),
         within |-> SumFunction([r \in once |-> IF r.amount < 0 THEN -r.amount ELSE r.amount]),
         timing |-> Total(inside), net |-> Total(legs)]

\* One line per pair, from the paying account to the receiving one.
TransfersByAccount(legs, banks, snapshot) ==
    LET other(r) == CounterpartAccount(r, snapshot)
    IN  {[pair |-> PairKey(r), from |-> IF r.amount < 0 THEN r.account ELSE other(r),
          to |-> IF r.amount < 0 THEN other(r) ELSE r.account,
          within |-> other(r) \in banks] : r \in legs}

Change(snapshot) ==
    SumFunction([b \in DOMAIN snapshot.closing |-> snapshot.closing[b] - snapshot.opening[b]])

\* What the balances changed by, against the sum of what is under a heading.
Reconciliation(values, transfers, change, lines) ==
    LET external == values.income + values.credits + values.uncategorizedInflows
                        - values.expenseOutflow
    IN  [external |-> external, transfers |-> transfers, lines |-> lines,
         adjustments |-> values.adjustments, actual |-> change,
         difference |-> change - (external + transfers.net + values.adjustments)]

FlowWithin(snapshot, from, to, banks) ==
    LET rows == {r \in InRange(PostingRows(snapshot.rows), from, to) : r.account \in banks}
        legs == Of(rows, "transfer")
    IN  Reconciliation(Values(rows), TransferFlow(legs, banks, snapshot), Change(snapshot),
                       TransfersByAccount(legs, banks, snapshot))

SummarizeAccountFlow(from, to, banks) ==
    FlowWithin(AnalysisSnapshot(from, to, banks), from, to, banks)

(***************************************************************************)
(* The searches and summaries                                              *)
(***************************************************************************)
GetTransactions(in) ==
    {r \in book : /\ in.bank # Nil => r.account = in.bank
                  /\ in.from # Nil => in.from <= r.date
                  /\ in.to # Nil => r.date <= in.to}

OnBudget(rows) == {r \in rows : r.account \notin OffBudget}

\* Undefined skips a bound; a null one, which compares as 0, is not among the inputs.
WithinBounds(rows, in) ==
    {r \in rows : /\ in.min # Nil => r.amount >= in.min
                  /\ in.max # Nil => r.amount <= in.max}

OfHead(rows, head) == {r \in rows : head # Nil => r.category = head}
OfShop(rows, shop) == {r \in rows : shop # Nil => r.payee = shop}

\* The first of the rows by a field, descending; the sort is stable.
First(rows, field, limit) ==
    LET before(r, s) == r[field] > s[field] \/ (r[field] = s[field] /\ r.id < s.id)
    IN  {r \in rows : Cardinality({s \in rows : before(s, r)}) < limit}

\* transactions_filter: the searches' own criteria, all of them, on budget.
TransactionsFilter(in) ==
    OfShop(OfHead(WithinBounds(OnBudget(GetTransactions(in)), in), in.head), in.shop)

\* What the searches return: some rows and the sum of those.
Shown(rows) == [rows |-> rows, total |-> Total(rows)]
Newest(rows, in) == Shown(First(rows, "date", in.limit))

\* By month, on budget only; by category, likewise; by payee, on every account.
SearchByMonth(in) ==
    Newest(WithinBounds(OfShop(OfHead(OnBudget(GetTransactions(in)), in.head), in.shop), in), in)

SearchByCategory(in) ==
    Newest(WithinBounds(OfHead(OnBudget(GetTransactions(in)), in.head), in), in)

SearchByPayee(in) ==
    Newest(WithinBounds(OfHead(OfShop(GetTransactions(in), in.shop), in.head), in), in)

\* By amount: a magnitude, or a signed range, largest first; a query without an
\* account and without a date is refused.
SearchByAmount(in) ==
    LET rows == GetTransactions(in)
        sized == IF in.magnitude = Nil THEN WithinBounds(rows, in)
                 ELSE {r \in rows : r.amount \in {in.magnitude, -in.magnitude}}
    IN  IF in.bank = Nil /\ in.from = Nil /\ in.to = Nil THEN Nil
        ELSE Shown(First(OfHead(sized, in.head), "amount", in.limit))

\* transactions_uncategorized: no category, no transfer, no split, no opening
\* balance, no account off budget or closed.
Uncategorized(in) ==
    {r \in OnBudget(GetTransactions(in)) :
        r.account \notin ClosedBanks /\ r.category = Nil /\ r.transfer = Nil /\ IsPlain(r)
        /\ ~r.start}

ByAccount(rows) ==
    [b \in {r.account : r \in rows} |-> Shown({r \in rows : r.account = b}).total]

Page(rows, offset, limit) ==
    LET before(r) == Cardinality({s \in rows : s.id < r.id})
        page == {r \in rows : offset <= before(r) /\ before(r) < offset + limit}
    IN  [rows |-> page, hasMore |-> offset + Cardinality(page) < Cardinality(rows)]

\* The two summaries read postings (splits: inline).  The one by payee resolves
\* its account and does not use it.
Between(in) == InRange(PostingRows(book), in.from, in.to)

SummaryByCategory(in) ==
    LET rows == {r \in Between(in) : /\ in.bank # Nil => r.account = in.bank
                                     /\ r.category \in IncomeHeads => in.includeIncome}
    IN  [h \in {r.category : r \in rows} |-> Total({r \in rows : r.category = h})]

SummaryByPayee(in) ==
    LET rows == Between(in)
    IN  [p \in {r.payee : r \in rows} |-> Total({r \in rows : r.payee = p})]

-----------------------------------------------------------------------------
BookInit == book = {} /\ lost = {} /\ records = 0

BookNext ==
    \/ \E day \in Days, b \in Banks, n \in Coins :
          \/ \E h \in Heads \cup {Nil}, shop \in Shops : Post(day, b, h, shop, n)
          \/ \E h \in IncomeHeads : Open(day, b, h, n)
    \/ \E day \in Days, b, c \in Banks, n \in {x \in Coins : x > 0} :
          /\ b # c
          /\ \/ \E later \in {d \in Days : d >= day} : Transfer(b, c, day, later, Nil, n)
             \/ \E h \in Heads : /\ b \notin OffBudget /\ c \in OffBudget
                                 /\ Transfer(b, c, day, day, h, n)
             \/ \E h \in Heads, m \in Coins : Split(day, b, c, h, m, n)
    \/ \E r \in book : Lose(r)

BookSpec == BookInit /\ [][BookNext]_bookVars

-----------------------------------------------------------------------------
BookTypeOK ==
    /\ records \in 0..MaxRecords
    /\ \A r, q \in PostingRows(book) : r.id = q.id => r = q
    /\ \A r \in PostingRows(book) :
          /\ r.date \in Days /\ r.account \in Banks /\ r.amount \in Int
          /\ r.category \in Heads \cup {Nil} /\ r.payee \in Shops \cup Banks \cup {Nil}

\* What an account's register shows: the rows it lists, a split by its total.
Register(banks, days) == Total({r \in book : r.account \in banks /\ r.date \in days})

\* Every cent by which the balances of a selection changed is under one heading,
\* a pair of legs is one transfer, and it goes from one account to another.
Reconciles(flow, change, everything) ==
    /\ flow.difference = 0 /\ flow.actual = change
    /\ flow.transfers.into - flow.transfers.outOf + flow.transfers.timing = flow.transfers.net
    /\ \A x, y \in flow.lines : x.pair = y.pair => x = y
    /\ \A x \in flow.lines : x.from # x.to
    /\ (lost = {} /\ everything) => flow.transfers.into = 0 /\ flow.transfers.outOf = 0

FlowReconciles(from, to, banks) ==
    Reconciles(SummarizeAccountFlow(from, to, banks),
               Register(banks, {d \in Days : from <= d /\ d <= to}), banks = Banks)

Net(v) == v.income + v.credits + v.uncategorizedInflows + v.adjustments + v.transferInflow
              - v.expenseOutflow - v.transferOutflow

\* However it is grouped, the whole is the sum of its groups, and with nothing
\* left out it is the change of the registers; spending never has a transfer in it.
TotalsAddUp(whole, part, change) ==
    /\ Net(whole) = change
    /\ \A f \in {"expenseOutflow", "credits", "uncategorizedInflows", "adjustments"} :
          part[f] = whole[f]
    /\ part.income = 0 /\ part.transferCount = 0

AggregateAddsUp(from, to, banks, dims) ==
    LET in(all) == [from |-> from, to |-> to, banks |-> banks, heads |-> Nil, shops |-> Nil,
                    dims |-> dims, includeIncome |-> all, excludeTransfers |-> ~all]
    IN  TotalsAddUp(AggregateTransactions(in(TRUE)).totals,
                    AggregateTransactions(in(FALSE)).totals,
                    Register(banks, {d \in Days : from <= d /\ d <= to}))

\* The pages of the uncategorized rows are all of them, each once, and the
\* breakdown by account has their sum.
PagesCover(in) ==
    LET rows == Uncategorized(in)
        pages == {Page(rows, i, 1) : i \in 0..Cardinality(rows)}
    IN  /\ UNION {p.rows : p \in pages} = rows
        /\ \A p \in pages : Cardinality(p.rows) <= 1
        /\ Cardinality({p \in pages : p.hasMore}) = (IF rows = {} THEN 0 ELSE
                                                       Cardinality(rows) - 1)
        /\ LET by == ByAccount(rows)
           IN  SumFunction(by) = Total(rows)

Whole == [bank |-> Nil, from |-> Nil, to |-> Nil]

\* Asked for the same rows, the four searches agree.
SearchesAgree(head, shop, min) ==
    LET in == [bank |-> Nil, from |-> CHOOSE d \in Days : \A e \in Days : d <= e,
               to |-> Nil, head |-> head, shop |-> shop,
               min |-> min, max |-> Nil, magnitude |-> Nil, limit |-> Cardinality(book)]
        found == TransactionsFilter(in)
    IN  /\ SearchByMonth(in).rows = found
        /\ OfShop(SearchByCategory(in).rows, shop) = found
        /\ OnBudget(SearchByPayee(in).rows) = found
        /\ OfShop(OnBudget(SearchByAmount(in).rows), shop) = found
        /\ \A n \in Coins :
              SearchByAmount([in EXCEPT !.magnitude = n, !.min = Nil]).rows
                  = OfHead({r \in book : r.amount \in {n, -n}}, head)

\* The two summaries of a range have one sum, and the one by category is the sum of
\* those of each account and leaves out nothing but income.
SummariesAgree(from, to) ==
    LET of(bank, all) == SummaryByCategory([bank |-> bank, from |-> from, to |-> to,
                                            includeIncome |-> all])
        payees == SummaryByPayee([from |-> from, to |-> to])
    IN  /\ SumFunction(of(Nil, TRUE)) = SumFunction(payees)
        /\ SumFunction(of(Nil, TRUE))
               = SumFunction([b \in Banks |-> SumFunction(of(b, TRUE))])
        /\ \A h \in (DOMAIN of(Nil, TRUE)) \ IncomeHeads : of(Nil, FALSE)[h] = of(Nil, TRUE)[h]

(* The reports of financial-analysis.ts are exact for every ledger: the     *)
(* account flow reconciles to the cent with what the registers show, for    *)
(* every selection and range, with splits, transfers on two days, transfer  *)
(* legs inside splits and lost counterparts; an aggregate loses and doubles *)
(* nothing however it is grouped; the pages of a list partition it; the two *)
(* summaries have one sum; and the searches agree on the rows they are      *)
(* asked for.                                                               *)
ReportsAddUp == book # {} =>
    /\ \A from, to \in Days, banks \in (SUBSET Banks) \ {{}} :
          from <= to =>
             /\ FlowReconciles(from, to, banks)
             /\ SummariesAgree(from, to)
             /\ \A dims \in {{"month"}, {"category", "account"}} :
                   AggregateAddsUp(from, to, banks, dims)
    /\ PagesCover(Whole)
    /\ \A head \in Heads \cup {Nil}, shop \in Shops \cup {Nil}, min \in Coins \cup {Nil} :
          SearchesAgree(head, shop, min)
=============================================================================
