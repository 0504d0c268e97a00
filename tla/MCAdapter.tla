----------------------------- MODULE MCAdapter ------------------------------
(* Small instances of Adapter: two concurrent calls, of two sessions or of *)
(* one, and two budgets on one server or on two.                           *)
EXTENDS Adapter, TLC

CONSTANTS c1, c2, s1, s2, b1, b2

OnePerSession == c1 :> s1 @@ c2 :> s2
OneSession    == c1 :> s1 @@ c2 :> s1
OneServer     == [b \in {b1, b2} |-> "server"]
TwoServers    == b1 :> "server1" @@ b2 :> "server2"
Swap          == {[x \in {c1, c2, s1, s2} |-> x], c1 :> c2 @@ c2 :> c1 @@ s1 :> s2 @@ s2 :> s1}

\* Strays change nothing but themselves: they are left to the runs about them.
SafetyFaults  == FaultKinds \ {"op_stalls"}
=============================================================================
