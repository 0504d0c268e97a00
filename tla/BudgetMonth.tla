---------------------------- MODULE BudgetMonth ----------------------------
(***************************************************************************)
(* The budget operations of src/lib/actual-adapter.ts and their tools:     *)
(* amounts per month and category, carryover, transfers between categories,*)
(* the batch, and the money held for the next month.                       *)
(*                                                                         *)
(* Each operation runs alone inside a drain of the write queue, so each is *)
(* one action, with the failures of its raw calls and with its retries.    *)
(* The library underneath is external: it ignores an amount for a category *)
(* that does not exist, accepts any month for an amount, and holds less    *)
(* than asked.                                                             *)
(***************************************************************************)
EXTENDS Integers, FiniteSets, Functions, SequencesExt

CONSTANTS Months,       \* the months the budget has, numbered in order
          Cells,        \* categories that exist
          Ghost,        \* a category id that does not
          Sums,         \* amounts of the inputs
          Funds,        \* money of each month before anything is budgeted
          Batches,      \* inputs of the batch tool
          MaxAttempts,  \* calls retry() makes at most: retries + 1
          MaxCalls,     \* bound: operations in a behaviour
          Nothing

Outside == 0            \* a month the budget does not have

BatchOps == [month: Months \cup {Outside}, cell: Cells \cup {Ghost},
             amount: Sums \cup {Nothing}, carry: BOOLEAN \cup {Nothing}]

ASSUME BudgetMonthAssumption ==
    /\ Months \subseteq Nat \ {Outside} /\ IsFiniteSet(Cells) /\ Ghost \notin Cells
    /\ Funds \in [Months -> Int] /\ Sums \subseteq Int
    /\ Batches \subseteq Seq(BatchOps)
    /\ MaxAttempts \in Nat \ {0} /\ MaxCalls \in Nat

VARIABLES sheet,   \* what is budgeted and what carries over
          held,    \* forNextMonth
          asked,   \* the last call
          answer,  \* ... and what its caller was told
          calls    \* calls so far (bounded by MaxCalls)

budgetVars == <<sheet, held, asked, answer, calls>>

Sheets == [amount: [Months \cup {Outside} -> [Cells -> Int]],
           carry: [Months -> SUBSET Cells]]

BudgetTypeOK ==
    /\ sheet \in Sheets
    /\ held \in [Months -> Nat]
    /\ calls \in 0..MaxCalls
    /\ answer.said \in {"none", "done", "refused", "failed", "full", "partial"}
    /\ answer.held \in Int

Budgeted(m) == SumFunction(sheet.amount[m])

\* What a month has left to budget.
ToBudget(m) ==
    Funds[m] + (IF m - 1 \in Months THEN held[m - 1] ELSE 0) - Budgeted(m) - held[m]

BudgetInit ==
    /\ sheet = [amount |-> [m \in Months \cup {Outside} |-> [c \in Cells |-> 0]],
                carry  |-> [m \in Months |-> {}]]
    /\ held = [m \in Months |-> 0]
    /\ asked = Nothing /\ answer = [said |-> "none", held |-> 0] /\ calls = 0

BudgetIdle == asked = Nothing /\ calls < MaxCalls

Asks(tool, in) ==
    /\ BudgetIdle
    /\ calls' = calls + 1
    /\ asked' = [tool |-> tool, in |-> in]

Says(s) == answer' = [said |-> s, held |-> 0]

Refused == Says("refused") /\ UNCHANGED <<sheet, held>>
-----------------------------------------------------------------------------
(* Amounts and carryover                                                   *)

\* Upstream writes any month, and nothing for an unknown category.
SetIn(s, m, c, n) == IF c \in Cells THEN [s EXCEPT !.amount[m][c] = n] ELSE s

CarryIn(s, m, c, flag) ==
    IF m \notin Months \/ c \notin Cells THEN s
    ELSE [s EXCEPT !.carry[m] = IF flag THEN @ \cup {c} ELSE @ \ {c}]

\* The category must be listed and the month be one the budget has.
SetBudgetAmount ==
    \E m \in Months \cup {Outside}, c \in Cells \cup {Ghost}, n \in Sums :
        /\ Asks("setAmount", [month |-> m, cell |-> c, amount |-> n])
        /\ IF c \notin Cells \/ m = Outside THEN Refused
           ELSE /\ \/ Says("done") /\ sheet' = SetIn(sheet, m, c, n)
                   \/ Says("failed") /\ sheet' \in {sheet, SetIn(sheet, m, c, n)}
                /\ UNCHANGED held

\* No guard: upstream throws for a month or a category that it does not have.
SetCarryover ==
    \E m \in Months \cup {Outside}, c \in Cells \cup {Ghost}, flag \in BOOLEAN :
        /\ Asks("setCarryover", [month |-> m, cell |-> c])
        /\ \/ /\ m \in Months /\ c \in Cells
              /\ Says("done") /\ sheet' = CarryIn(sheet, m, c, flag)
           \/ Says("failed") /\ sheet' \in {sheet, CarryIn(sheet, m, c, flag)}
        /\ UNCHANGED held

TransferRequests ==
    [month: Months, from: Cells \cup {Ghost}, to: Cells \cup {Ghost},
     amount: {n \in Sums : n > 0}]

\* Mutant: the tool takes one category for both sides.
TransferAllowedToItself(in) ==
    {in.from, in.to} \subseteq Cells /\ sheet.amount[in.month][in.from] >= in.amount

\* Both categories are in the month and the source has the amount; the tool refuses
\* a transfer of a category to itself.
TransferAllowed(in) ==
    in.from # in.to /\ {in.from, in.to} \subseteq Cells
        /\ sheet.amount[in.month][in.from] >= in.amount

\* Two writes from one reading, in one bracket of the library.  What a failure in
\* the middle leaves is the library's.
TransferBudget ==
    \E in \in TransferRequests :
        LET prev == sheet.amount[in.month]
            less == SetIn(sheet, in.month, in.from, prev[in.from] - in.amount)
            both == SetIn(less, in.month, in.to, prev[in.to] + in.amount)
        IN /\ Asks("transfer", in)
           /\ IF ~TransferAllowed(in) THEN Refused
              ELSE /\ \/ Says("done") /\ sheet' = both
                      \/ Says("failed") /\ sheet' \in {sheet, less, both}
                   /\ UNCHANGED held
-----------------------------------------------------------------------------
(* The batch                                                               *)

\* How far one operation of the batch gets: it fails at once, after its amount, or not.
Reach == {"none", "half", "all"}

Apply(s, op, r) ==
    LET amounted == IF op.amount # Nothing /\ r # "none"
                    THEN SetIn(s, op.month, op.cell, op.amount) ELSE s
    IN IF op.carry # Nothing /\ r = "all"
       THEN CarryIn(amounted, op.month, op.cell, op.carry) ELSE amounted

\* One call of the tool's callback: every operation in its turn, whatever the one
\* before did.
Attempt(s, ops, r) == FoldLeftDomain(LAMBDA t, i : Apply(t, ops[i], r[i]), s, ops)

\* Upstream throws for the carryover of a month or a category that it does not have.
Possible(op, r) ==
    r = "all" => op.carry = Nothing \/ (op.month \in Months /\ op.cell \in Cells)

\* The counters of failures live outside the callback: they add up over the attempts.
BatchOk(reach, ops) == \A k \in DOMAIN reach : \A i \in DOMAIN ops : reach[k][i] = "all"

\* An attempt whose bracket fails is repeated, and after the last one the call throws.
BatchUpdates ==
    /\ BudgetIdle
    /\ \E ops \in Batches : \E n \in 1..MaxAttempts :
        \E reach \in [1..n -> [DOMAIN ops -> Reach]] :
            /\ \A k \in 1..n : \A i \in DOMAIN ops : Possible(ops[i], reach[k][i])
            /\ Asks("batch", ops)
            /\ sheet' = FoldLeftDomain(LAMBDA t, k : Attempt(t, ops, reach[k]), sheet, reach)
            /\ \/ Says(IF BatchOk(reach, ops) THEN "done" ELSE "partial")
               \/ n = MaxAttempts /\ Says("failed")
            /\ UNCHANGED held
-----------------------------------------------------------------------------
(* Money held for the next month                                           *)

\* calcBufferedAmount: at most what is left to budget, added to what is held.
HoldIn(h, m, n) ==
    LET left == ToBudget(m) - (h[m] - held[m])
    IN IF left <= 0 THEN h ELSE [h EXCEPT ![m] = @ + (IF n <= left THEN n ELSE left)]

\* Mutant: the call is repeated after a failure that came too late.
HoldTwice(m, n) == {HoldIn(held, m, n), HoldIn(HoldIn(held, m, n), m, n)}

\* One call, never repeated: it adds to what is held.
HoldOnce(m, n) == {HoldIn(held, m, n)}

\* Held in full, held in part, held nothing.
HoldAnswer(got, n) ==
    [said |-> IF got <= 0 THEN "failed" ELSE IF got < n THEN "partial" ELSE "full",
     held |-> got]

\* What was held is read before and after; the answer is the difference.  The last
\* read may fail after the hold was made.
HoldForNextMonth ==
    \E m \in Months, n \in {x \in Sums : x > 0} :
        /\ Asks("hold", [month |-> m, amount |-> n])
        /\ \/ /\ held' \in HoldOnce(m, n)
              /\ answer' = HoldAnswer(held'[m] - held[m], n)
           \/ held' \in {held} \cup HoldOnce(m, n) /\ Says("failed")
        /\ UNCHANGED sheet

\* Idempotent, and repeated after a failure.
ResetHold ==
    \E m \in Months :
        /\ Asks("resetHold", [month |-> m])
        /\ \/ held' = [held EXCEPT ![m] = 0] /\ Says("done")
           \/ held' \in {held, [held EXCEPT ![m] = 0]} /\ Says("failed")
        /\ UNCHANGED sheet

\* The drain goes on to its next operation.
Settled ==
    /\ asked # Nothing
    /\ asked' = Nothing /\ answer' = [said |-> "none", held |-> 0]
    /\ UNCHANGED <<sheet, held, calls>>

BudgetNext ==
    \/ Settled \/ SetBudgetAmount \/ SetCarryover \/ TransferBudget
    \/ BatchUpdates \/ HoldForNextMonth \/ ResetHold

BudgetSpec == BudgetInit /\ [][BudgetNext]_budgetVars
-----------------------------------------------------------------------------
(* A transfer that succeeds moves money and makes none: the month's total  *)
(* stays, and the source had what it gives (#141).                         *)
MoneyConserved ==
    [][(calls' # calls /\ asked'.tool = "transfer" /\ answer'.said = "done") =>
          LET in == asked'.in
          IN /\ \A m \in Months : Budgeted(m)' = Budgeted(m)
             /\ sheet.amount[in.month][in.from] - sheet'.amount[in.month][in.from] = in.amount
             /\ sheet'.amount[in.month][in.from] >= 0]_budgetVars

Sets(op, m, c, what) == op.month = m /\ op.cell = c /\ op[what] # Nothing

\* The last operation of the batch that sets the amount, or the carryover, of month m
\* and category c.
Final(ops, m, c, what) ==
    CHOOSE i \in DOMAIN ops :
        Sets(ops[i], m, c, what) /\ \A j \in DOMAIN ops : j > i => ~Sets(ops[j], m, c, what)

\* A category that does not exist has no amount to compare.
Applied(s, ops) ==
    \A i \in DOMAIN ops :
        LET m == ops[i].month
            c == ops[i].cell
        IN  /\ (ops[i].amount # Nothing /\ c \in Cells) =>
                   s.amount[m][c] = ops[Final(ops, m, c, "amount")].amount
            /\ ops[i].carry # Nothing =>
                   /\ m \in Months /\ c \in Cells
                   /\ c \in s.carry[m] <=> ops[Final(ops, m, c, "carry")].carry

(* A batch that reports success has applied every operation, the last one   *)
(* where two set the amount or the carryover of one category and month,     *)
(* although failures inside it are caught and whole attempts are repeated;  *)
(* but for the amount of a category that does not exist, which upstream     *)
(* ignores.  A hold reports what was held, at most what was asked, and      *)
(* never lets the month go below zero (#355).                               *)
BudgetAnswersHold ==
    [][calls' # calls =>
         /\ (asked'.tool = "batch" /\ answer'.said = "done") => Applied(sheet', asked'.in)
         /\ (asked'.tool = "hold" /\ answer'.said \in {"full", "partial"}) =>
               LET in == asked'.in
               IN /\ answer'.held = held'[in.month] - held[in.month]
                  /\ answer'.held \in 1..in.amount
                  /\ answer'.said = "full" <=> answer'.held = in.amount
                  /\ \A m \in Months : m = in.month => ToBudget(m)' >= 0]_budgetVars
=============================================================================
