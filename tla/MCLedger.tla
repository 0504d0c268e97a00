------------------------------ MODULE MCLedger ------------------------------
(* A small budget: one of the two accounts, of the two payees and of the   *)
(* two categories exists, and the others are there to be created.          *)
EXTENDS Ledger, TLC

CONSTANTS b1, b2, a1, a2, a3, p1, p2, c1, c2, g1, g2, k1

GroupOfAll == (c1 :> g1) @@ (c2 :> g1)

OneBudget == b1 :> {a1, p1, c1, g1}
TwoBudgets == OneBudget @@ (b2 :> {a3, p2, c2, g2})
=============================================================================
