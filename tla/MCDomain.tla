------------------------------ MODULE MCDomain ------------------------------
\* Who may touch which budget, what an operation then does to the months and to
\* the rule book of one budget, and what the reports say of its transactions and
\* of the bills that are paid; what a caller is told when the connection fails or
\* a bank is synchronised; and what the reporters of the release train write.  They
\* share no state: a behaviour is one of them, and the others rest in their initial
\* states.
EXTENDS BudgetAcl, BudgetMonth, RuleBook, Insight, Recurring, Connecting, BankSync,
        TrainStale, TrainFailure, TLC

CONSTANTS c1, c2, ghost, p1, n1, k1, s1, s2, t1, w1, w2, nothing, nil

VARIABLE part

MCFunds == 1 :> 2 @@ 2 :> 0

MCBatches ==
    LET op(m, c, a, y) == [month |-> m, cell |-> c, amount |-> a, carry |-> y]
    IN {<<op(1, c1, 2, nothing), op(1, c1, 1, nothing)>>,
        <<op(1, c1, 1, TRUE), op(2, c2, 2, FALSE)>>,
        <<op(1, c1, nothing, TRUE), op(1, c1, 2, FALSE)>>,
        <<op(Outside, c1, 1, TRUE), op(1, ghost, 1, nothing)>>}

MCFirstRule == [conds |-> <<p1>>, op |-> "and", stage |-> "normal", sets |-> k1, owner |-> s1]

MCOwner == [s \in AclSessions |-> "alice"]
One(v) == [s \in Subjects |-> v]

\* One configuration per source of access and of identity.
MCSetups ==
    LET set(source, identity, bound, claim, static) ==
            [source |-> source, identity |-> identity, bound |-> One(bound),
             claim |-> One(claim), static |-> One(static)]
    IN  {set("static", "token", NoName, NoName, {"b1"}),
         set("actual", "token", NoName, "anna", {}),
         set("actual", "userinfo", NoName, NoName, {}),
         set("actual", "userinfo", "mary", NoName, {})}

MCGrants == {<<"anna", "b1">>, <<"mary", "b0">>}

MCCoins == {-1, 2}

MCBills ==
    LET b(f, d, r, s) == [frequency |-> f, day |-> d, price |-> 900, raised |-> r, split |-> s]
    IN  {b("weekly", 3, 1500, FALSE), b("biweekly", 3, 900, TRUE),
         b("monthly", 31, 1500, FALSE), b("monthly", 30, 940, TRUE), b("monthly", 28, 900, FALSE),
         b("quarterly", 31, 1500, FALSE), b("quarterly", 10, 900, TRUE),
         b("yearly", 29, 900, FALSE), b("yearly", 20, 1500, FALSE)}
MCLooks == {-1, 6}

\* Two accounts of one name.
MCCalled == "a1" :> "joint" @@ "a2" :> "joint"

DomainInit ==
    /\ part \in {"acl", "budget", "rules", "books", "bills", "connect", "bank", "liveness",
                 "train"}
    /\ setup \in (IF part = "acl" THEN MCSetups ELSE {CHOOSE c \in MCSetups : TRUE})
    /\ granted = (IF part = "acl" THEN MCGrants ELSE {})
    /\ goesBy = One("anna")
    /\ AclInit /\ BudgetInit /\ RuleInit /\ BookInit /\ BillInit /\ ConnectInit /\ BankInit
    /\ StaleInit /\ TrainInit
    /\ part = "liveness" \/ \A f \in Watched : cron[f].fired
    /\ part = "bills" \/ bill = CHOOSE b \in MCBills : TRUE

DomainNext ==
    \/ /\ part = "acl" /\ AclNext
       /\ UNCHANGED <<budgetVars, ruleVars, bookVars, billVars, connectVars,
                      bankVars, staleVars, trainVars>>
    \/ /\ part = "budget" /\ BudgetNext
       /\ UNCHANGED <<aclVars, ruleVars, bookVars, billVars, connectVars,
                      bankVars, staleVars, trainVars>>
    \/ /\ part = "rules" /\ RuleNext
       /\ UNCHANGED <<aclVars, budgetVars, bookVars, billVars, connectVars,
                      bankVars, staleVars, trainVars>>
    \/ /\ part = "books" /\ BookNext
       /\ UNCHANGED <<aclVars, budgetVars, ruleVars, billVars, connectVars,
                      bankVars, staleVars, trainVars>>
    \/ /\ part = "bills" /\ BillNext
       /\ UNCHANGED <<aclVars, budgetVars, ruleVars, bookVars, connectVars,
                      bankVars, staleVars, trainVars>>
    \/ /\ part = "connect" /\ ConnectNext
       /\ UNCHANGED <<aclVars, budgetVars, ruleVars, bookVars, billVars,
                      bankVars, staleVars, trainVars>>
    \/ /\ part = "bank" /\ BankNext
       /\ UNCHANGED <<aclVars, budgetVars, ruleVars, bookVars, billVars,
                      connectVars, staleVars, trainVars>>
    \/ /\ part = "liveness" /\ StaleNext
       /\ UNCHANGED <<aclVars, budgetVars, ruleVars, bookVars, billVars,
                      connectVars, bankVars, trainVars>>
    \/ /\ part = "train" /\ TrainNext
       /\ UNCHANGED <<aclVars, budgetVars, ruleVars, bookVars, billVars,
                      connectVars, bankVars, staleVars>>

domainVars == <<aclVars, budgetVars, ruleVars, bookVars, billVars, connectVars, bankVars,
                staleVars, trainVars, part>>

DomainSpec == DomainInit /\ [][DomainNext /\ UNCHANGED part]_domainVars

(* The types of the part that moves: the others keep their initial values.   *)
DomainTypeOK ==
    /\ part = "acl" => AclTypeOK
    /\ part = "budget" => BudgetTypeOK
    /\ part = "rules" => RuleTypeOK
    /\ part = "books" => BookTypeOK
    /\ part = "bills" => BillTypeOK
    /\ part = "connect" => ConnectTypeOK
    /\ part = "bank" => BankTypeOK
    /\ part = "liveness" => StaleTypeOK
    /\ part = "train" => TrainTypeOK
=============================================================================
