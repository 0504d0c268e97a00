------------------------------ MODULE Recurring ------------------------------
(***************************************************************************)
(* The detection of recurring expenses (src/lib/financial-analysis.ts,     *)
(* summarizeRecurringExpenses; the tool recurring_expenses_summary).  It   *)
(* sees only posted payments; here a biller who follows a schedule makes   *)
(* them, so that what the heuristic answers can be compared with the bill. *)
(*                                                                         *)
(* A date is the number of days since the first of January of a year whose *)
(* successor is a leap year; a month, the number of months since then.     *)
(***************************************************************************)
EXTENDS Integers, Sequences, FiniteSets, SequencesExt

CONSTANTS
    Bills,      \* schedules: frequency, first due day (in its month), price, raised, split
    Lateness,   \* days a payment may be late
    Looks,      \* days around a due date at which the report is read
    LookBack,   \* months the report looks back
    MinOccurrences,
    MaxPayments,  \* model bounds: payments in a behaviour, and the last date
    LastDay

VARIABLES
    bill,      \* the schedule that is paid
    payments,  \* the postings of its payee and account, by date
    today      \* endDate of the report

billVars == <<bill, payments, today>>

Frequencies == <<"weekly", "biweekly", "monthly", "quarterly", "yearly">>

\* The elements of a sequence that are in a set, in their order.
Filtered(s, T) ==
    LET filtered[i \in 0..Len(s)] ==
            IF i = 0 THEN <<>>
            ELSE IF s[i] \in T THEN Append(filtered[i - 1], s[i]) ELSE filtered[i - 1]
    IN  filtered[Len(s)]

(***************************************************************************)
(* Dates                                                                   *)
(***************************************************************************)
MonthLength(m) ==
    IF m = 13 THEN 29 ELSE <<31, 28, 31, 30, 31, 30, 31, 31, 30, 31, 30, 31>>[(m % 12) + 1]

FirstOf[m \in 0..60] == IF m = 0 THEN 0 ELSE FirstOf[m - 1] + MonthLength(m - 1)

DateIn(m, day) == [month |-> m, day |-> day, ends |-> day = MonthLength(m)]

\* utcDate and isLastDayOfMonth.
UtcDate == [d \in 0..(FirstOf[60] - 1) |->
               LET m == CHOOSE n \in 0..59 : FirstOf[n] <= d /\ d < FirstOf[n + 1]
               IN  DateIn(m, d - FirstOf[m] + 1)]

InMonth(day, m) == FirstOf[m] + (IF day < MonthLength(m) THEN day ELSE MonthLength(m)) - 1
Apart(x, y) == IF x < y THEN y - x ELSE x - y

\* The calendar goes on for two years after the last date, so that every next
\* payment has one.
ASSUME RecurringAssumption ==
    /\ MinOccurrences \in Nat \ {0, 1} /\ LookBack \in 1..60 /\ MaxPayments \in Nat
    /\ Lateness \subseteq Nat /\ Looks \subseteq Int /\ LastDay \in 0..(FirstOf[36] - 1)
    /\ Bills \subseteq [frequency : Range(Frequencies), day : 1..31, price : Nat \ (0..5),
                        raised : Nat \ (0..5), split : BOOLEAN]

StepOf == [weekly |-> 7, biweekly |-> 14, monthly |-> 1, quarterly |-> 3, yearly |-> 12]

\* A date at the end of its month stays at the end of the month.
AddMonths(date, n) == InMonth(IF date.ends THEN 31 ELSE date.day, date.month + n)

AddFrequency(d, f) ==
    IF f \in {"weekly", "biweekly"} THEN d + StepOf[f] ELSE AddMonths(UtcDate[d], StepOf[f])

\* The distance of two events: days, months, and days of the month.
IntervalMatches(a, b, f) ==
    LET drift == Apart(a.date.day, b.date.day)
        months == b.date.month - a.date.month
    IN  CASE f = "weekly" -> b.on - a.on \in 5..9
          [] f = "biweekly" -> b.on - a.on \in 12..16
          [] f = "monthly" -> months = 1 /\ (drift <= 7 \/ (a.date.ends /\ b.date.ends))
          [] f = "quarterly" -> months = 3 /\ drift <= 10
          [] f = "yearly" -> months = 12 /\ drift <= 15

(***************************************************************************)
(* Series.  An event is a payment with the sum of its outgoing legs.       *)
(***************************************************************************)
Outflow(leg) == IF leg.kind = "expense" /\ leg.amount < 0 THEN -leg.amount ELSE 0

Outgoing(entry) == SumFunction([i \in DOMAIN entry.legs |-> Outflow(entry.legs[i])])

\* Transfers, income and opening balances are left out, and what is not an expense.
Postings == [on : 0..LastDay, legs : Seq([kind : {"expense", "transfer"}, amount : Int])]
Expenses == {e \in Postings : Outgoing(e) > 0}

EventOf(e) == [on |-> e.on, date |-> UtcDate[e.on], amount |-> Outgoing(e)]

PaymentEvents(start, end) ==
    LET window == Filtered(payments, {e \in Expenses : e.on >= start /\ e.on <= end})
    IN  [i \in DOMAIN window |-> EventOf(window[i])]

Matches(events, f) ==
    Cardinality({i \in 2..Len(events) : IntervalMatches(events[i - 1], events[i], f)})

\* The first frequency with the most matches.
Best(events) ==
    CHOOSE i \in DOMAIN Frequencies : \A j \in DOMAIN Frequencies :
        LET mine == Matches(events, Frequencies[i])
            other == Matches(events, Frequencies[j])
        IN  mine > other \/ (mine = other /\ i <= j)

\* Regularity is matches of intervals; below three fifths there is no rhythm.
Regular(matches, intervals) == matches > 0 /\ 10 * matches >= 6 * intervals

DetectFrequency(events) ==
    LET f == Frequencies[Best(events)]
        matches == Matches(events, f)
    IN  [frequency |-> IF Regular(matches, Len(events) - 1) THEN f ELSE "other",
         matches |-> matches]

\* Within a unit of money or a twentieth of the larger amount (rounded).
AmountClose(a, b) ==
    LET larger == IF a < b THEN b ELSE a
        twentieth == (larger + 10) \div 20
    IN  Apart(a, b) <= (IF twentieth > 100 THEN twentieth ELSE 100)

\* An event goes to the first lane whose last amount is close to its own.
Place(lanes, e) ==
    LET close == {i \in DOMAIN lanes : AmountClose(Last(lanes[i]).amount, e.amount)}
        i == CHOOSE i \in close : \A j \in close : i <= j
    IN  IF close = {} THEN Append(lanes, <<e>>) ELSE [lanes EXCEPT ![i] = Append(@, e)]

InitialAmountLanes(events) ==
    LET placed[n \in 0..Len(events)] ==
            IF n = 0 THEN <<>> ELSE Place(placed[n - 1], events[n])
    IN  placed[Len(events)]

Together(a, b) == IF Last(a).on < Head(b).on THEN a \o b ELSE b \o a

Steady(found, intervals) ==
    found.frequency # "other" /\ 4 * found.matches >= 3 * intervals

Mergeable(a, b) ==
    /\ Last(a).on < Head(b).on \/ Last(b).on < Head(a).on
    /\ Steady(DetectFrequency(Together(a, b)), Len(a) + Len(b) - 1)

JoinLanes(lanes, i, j) == RemoveAt([lanes EXCEPT ![i] = Together(lanes[i], lanes[j])], j)

JoinFirst(lanes, pairs) ==
    IF pairs = {} THEN lanes
    ELSE LET p == CHOOSE p \in pairs : \A q \in pairs :
                      p[1] < q[1] \/ (p[1] = q[1] /\ p[2] <= q[2])
         IN  JoinLanes(lanes, p[1], p[2])

\* Two lanes that follow each other and keep the rhythm are one price change.  At
\* most MaxPayments lanes, so that many rounds reach the fixed point.
MergeRound(lanes) ==
    JoinFirst(lanes, {p \in (DOMAIN lanes) \X (DOMAIN lanes) :
                          p[1] < p[2] /\ Mergeable(lanes[p[1]], lanes[p[2]])})

MergePriceLanes(lanes) ==
    LET merged[n \in 0..MaxPayments] == IF n = 0 THEN lanes ELSE MergeRound(merged[n - 1])
    IN  merged[MaxPayments]

\* The price of a run of equal payments; a series names its last two.
EstablishedAmounts(events) ==
    LET ends == {i \in 1..(Len(events) - 1) : events[i].amount # events[i + 1].amount}
    IN  [latest |-> Last(events).amount,
         previous |-> IF ends = {} THEN 0
                      ELSE events[CHOOSE i \in ends : \A j \in ends : j <= i].amount]

Annualize(amount, f) ==
    amount * [weekly |-> 52, biweekly |-> 26, monthly |-> 12, quarterly |-> 4, yearly |-> 1][f]

\* Mutant: one miss is enough.
InactiveAtFirstMiss(end, expected, f) == end >= expected

\* The two-miss rule.
InactiveAt(end, expected, f) == end >= AddFrequency(expected, f)

\* First day of a window of whole months that ends on a date.
StartFromMonths(end, months) ==
    LET date == UtcDate[end]
    IN  IF date.month < months THEN 0 ELSE InMonth(date.day, date.month - months) + 1

Needed(f) == IF f = "yearly" THEN 2 ELSE MinOccurrences

\* A lane without a rhythm, or with too few events, is no series.
IsSeries(lane) ==
    LET f == DetectFrequency(lane).frequency IN f # "other" /\ Len(lane) >= Needed(f)

Series(lane, end) ==
    LET f == DetectFrequency(lane).frequency
        expected == AddFrequency(Last(lane).on, f)
        amounts == EstablishedAmounts(lane)
    IN  [frequency |-> f, occurrences |-> Len(lane), amounts |-> amounts,
         annualized |-> Annualize(amounts.latest, f),
         expected |-> expected, active |-> ~InactiveAt(end, expected, f)]

SummarizeRecurringExpenses(start, end) ==
    LET lanes == MergePriceLanes(InitialAmountLanes(PaymentEvents(start, end)))
        detected == Filtered(lanes, {lane \in Range(lanes) : IsSeries(lane)})
    IN  [i \in DOMAIN detected |-> Series(detected[i], end)]

-----------------------------------------------------------------------------
\* The biller's schedule, and the postings of the payee.
Due(n) ==
    IF bill.frequency \in {"weekly", "biweekly"}
    THEN bill.day + n * StepOf[bill.frequency]
    ELSE InMonth(bill.day, n * StepOf[bill.frequency])

Paid == Filtered(payments, Expenses)
Leg(kind, amount) == [kind |-> kind, amount |-> amount]

BillInit == bill \in Bills /\ payments = <<>> /\ today = 0

LastPosting == IF payments = <<>> THEN 0 ELSE Last(payments).on

\* A bill may be posted as a split, with a leg that is no expense.  A biller who
\* is read about on a later day without a posting has stopped.
PayBill(late) ==
    LET on == Due(Len(Paid)) + late
        legs == IF bill.split THEN <<Leg("expense", -(bill.price - 5)), Leg("expense", -5),
                                Leg("transfer", -40)>>
                ELSE <<Leg("expense", -bill.price)>>
    IN  /\ Len(Paid) < MaxPayments /\ on <= LastDay /\ today = LastPosting
        /\ \/ bill.frequency \in {"weekly", "biweekly"}
           \/ UtcDate[on].month = UtcDate[Due(Len(Paid))].month
        /\ payments' = Append(payments, [on |-> on, legs |-> legs])
        /\ today' = on
        /\ UNCHANGED bill

\* A new price, once.
RaisePrice ==
    /\ bill.price # bill.raised /\ payments # <<>> /\ today = LastPosting
    /\ bill' = [bill EXCEPT !.price = bill.raised]
    /\ UNCHANGED <<payments, today>>

\* Another posting of the payee: a refund, or money moved to it.
OtherPosting(kind, amount) ==
    /\ payments # <<>> /\ payments = Paid /\ today = LastPosting
    /\ payments' = Append(payments, [on |-> today, legs |-> <<Leg(kind, amount)>>])
    /\ UNCHANGED <<bill, today>>

\* The report is read around one of the next due dates, and nothing was posted.
Look(misses, days) ==
    /\ today = LastPosting /\ payments # <<>>
    /\ today' = Due(Len(Paid) + misses) + days
    /\ today' > today /\ today' <= LastDay
    /\ UNCHANGED <<bill, payments>>

BillNext ==
    \/ \E late \in Lateness : PayBill(late)
    \/ RaisePrice
    \/ OtherPosting("expense", 30) \/ OtherPosting("transfer", -70)
    \/ \E misses \in 0..2, days \in Looks : Look(misses, days)

BillSpec == BillInit /\ [][BillNext]_billVars

-----------------------------------------------------------------------------
BillTypeOK ==
    /\ bill.frequency \in Range(Frequencies) /\ today \in 0..LastDay
    /\ \A i \in DOMAIN payments : payments[i].on \in 0..LastDay

(* What a report says of a bill, with the payments in its window.          *)
IsFound(report, seen, next, slack) ==
    Len(seen) >= Needed(bill.frequency) =>
        /\ Len(report) = 1
        /\ report[1].frequency = bill.frequency
        /\ report[1].occurrences = Len(seen)
        /\ report[1].amounts.latest = Outgoing(Last(Paid))
        /\ Apart(report[1].expected, next) <= slack
        /\ today < AddFrequency(next, bill.frequency) => report[1].active
        /\ today >= Due(Len(Paid) + 1) + slack => ~report[1].active

(* A bill that is paid in the month (or the week) it is due is found, as    *)
(* one series of its own rhythm with every payment in the window, whether   *)
(* it was posted whole or split, clamped to the end of a short month, late, *)
(* or at a new price; what the report says of the price is exact and what   *)
(* it says of the next payment is off by no more than lateness and a short  *)
(* month.  One missed payment leaves it active, the second does not.        *)
BillsAreFound ==
    LET start == StartFromMonths(today, LookBack)
        slack == 3 + CHOOSE l \in Lateness : \A k \in Lateness : k <= l
    IN  IsFound(SummarizeRecurringExpenses(start, today),
              Filtered(Paid, {e \in Expenses : e.on >= start}), Due(Len(Paid)), slack)
=============================================================================
