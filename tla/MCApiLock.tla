----------------------------- MODULE MCApiLock ------------------------------
(* Small instances of ApiLock: callers and budgets are model values.       *)
EXTENDS ApiLock
=============================================================================
