------------------------------ MODULE RuleBook ------------------------------
(***************************************************************************)
(* Rules, schedules, payee default categories and tags: the operations of  *)
(* src/lib/actual-adapter.ts, the identity of rules in                     *)
(* src/lib/rule-matching.ts and the tools' validation.                     *)
(*                                                                         *)
(* Each operation runs alone inside a drain of the write queue: it lists   *)
(* the rules, decides, and writes; each is one action, with the failure of *)
(* its raw calls.  A condition is a payee condition (its field is payee,   *)
(* its value an id) or any other.  Only the category an action sets is     *)
(* kept of the actions.                                                    *)
(***************************************************************************)
EXTENDS Integers, FiniteSetsExt, SequencesExt, Functions

CONSTANTS RulePayees,   \* payee ids, as values of conditions
          OtherTests,   \* conditions on something else
          Targets,      \* categories that an action can set
          ScheduleIds, TagIds, TagWords,
          MaxRules,     \* bound: rules ever made
          MaxRuleOps,   \* bound: operations in a behaviour
          FirstRule,    \* the rule of the schedule that exists at the start
          Retries,      \* how often a creation is repeated
          Unset

RuleIds == 1..MaxRules
Stages == {"pre", "normal", "post"}
Conditions == RulePayees \cup OtherTests
CondSeqs == {<<c>> : c \in Conditions} \cup {<<c, d>> : c, d \in Conditions}

\* owner: the schedule whose rule it is.
Rule == [conds: CondSeqs, op: {"and", "or"}, stage: Stages,
         sets: Targets \cup {Unset}, owner: ScheduleIds \cup {Unset}]

ASSUME RuleBookAssumption ==
    /\ RulePayees \cap OtherTests = {} /\ RulePayees # {}
    /\ Unset \notin Targets \cup TagWords \cup ScheduleIds \cup RuleIds \cup Rule
    /\ MaxRules \in Nat \ {0} /\ MaxRuleOps \in Nat /\ Retries \in Nat
    /\ FirstRule \in Rule /\ FirstRule.owner \in ScheduleIds

VARIABLES rules,      \* the rule of each id, or Unset
          schedules,  \* the live schedules
          tags,       \* the word of each live tag, or Unset
          request,    \* the last call
          reply,      \* ... and its answer
          ruleOps     \* operations so far (bounded by MaxRuleOps)

ruleVars == <<rules, schedules, tags, request, reply, ruleOps>>

Replies == {"none", "done", "created", "updated", "refused", "failed"}

RuleTypeOK ==
    /\ rules \in [RuleIds -> Rule \cup {Unset}]
    /\ schedules \subseteq ScheduleIds
    /\ tags \in [TagIds -> TagWords \cup {Unset}]
    /\ reply \in Replies /\ ruleOps \in 0..MaxRuleOps

LiveRules == {i \in RuleIds : rules[i] # Unset}

RuleInit ==
    /\ rules = [i \in RuleIds |-> IF i = 1 THEN FirstRule ELSE Unset]
    /\ schedules = {FirstRule.owner}
    /\ tags = [t \in TagIds |-> Unset]
    /\ request = Unset /\ reply = "none" /\ ruleOps = 0

RuleIdle == request = Unset /\ ruleOps < MaxRuleOps

RuleRequests(tool, in) ==
    /\ RuleIdle
    /\ ruleOps' = ruleOps + 1
    /\ request' = [tool |-> tool, in |-> in]

Replied(r) == reply' = r
-----------------------------------------------------------------------------
(* The library underneath                                                  *)

RulePut(i, r) == [rules EXCEPT ![i] = r]

\* The rules rs after n creations of r, each under the next free id.
CreatedTimes(rs, r, n) ==
    LET free == {i \in RuleIds : rs[i] = Unset}
    IN [i \in RuleIds |-> IF i \in free /\ Cardinality({j \in free : j <= i}) <= n
                          THEN r ELSE rs[i]]

\* deleteRule answers false, and does nothing, for a rule that a schedule owns.
Deletable(i) == rules[i] # Unset /\ rules[i].owner \notin schedules

RawDeleteRule(i) == IF Deletable(i) THEN RulePut(i, Unset) ELSE rules
-----------------------------------------------------------------------------
(* Which rule is the same rule                                             *)

\* Mutant: the conditions in their order.
ConditionsMatchInOrder(r, conds, op) == r.op = op /\ r.conds = conds

\* The same operator, as many conditions, and the same set of them.
ConditionsMatch(r, conds, op) ==
    r.op = op /\ Len(r.conds) = Len(conds) /\ ToSet(r.conds) = ToSet(conds)

\* The first one of the listing.
FindMatchingRule(conds, op) ==
    LET same == {i \in LiveRules : ConditionsMatch(rules[i], conds, op)}
    IN IF same = {} THEN Unset ELSE Min(same)

\* The payee's rules: those with its id in a condition.
PayeeRules(p) == {i \in LiveRules : p \in ToSet(rules[i].conds)}
-----------------------------------------------------------------------------
(* The tools of rules                                                      *)

\* What passes the validation of rules_create: a field, the operator its type has,
\* and an id where one is wanted.  A rejected input never reaches the adapter.
NewRules == {r \in Rule : r.owner = Unset}

\* The creation is repeated after a lost connection, and is not idempotent.
CreateRule ==
    /\ RuleIdle
    /\ \E r \in NewRules, n \in 0..(Retries + 1) :
        /\ RuleRequests("rules_create", r)
        /\ Cardinality(RuleIds \ LiveRules) >= n
        /\ rules' = CreatedTimes(rules, r, n)
        /\ \/ n > 0 /\ Replied("created")
           \/ Replied("failed")
        /\ UNCHANGED <<schedules, tags>>

\* A field that is not supplied is Unset; "normal" is an explicit null.
RuleFields == [stage: Stages \cup {Unset}, op: {"and", "or", Unset},
               conds: {<<c>> : c \in Conditions} \cup {Unset},
               sets: Targets \cup {Unset}]

Or(new, old) == IF new = Unset THEN old ELSE new

\* Mutant: null counts as not supplied.
MergedNullish(r, f) ==
    [r EXCEPT !.stage = IF f.stage \in {Unset, "normal"} THEN @ ELSE f.stage,
              !.op = Or(f.op, @), !.conds = Or(f.conds, @), !.sets = Or(f.sets, @)]

\* Mutant: the input as it came, an absent stage too.
MergedAsGiven(r, f) ==
    [r EXCEPT !.stage = f.stage, !.op = Or(f.op, @),
              !.conds = Or(f.conds, @), !.sets = Or(f.sets, @)]

\* Stage by presence, because null is a stage; the others by value.
Merged(r, f) ==
    [r EXCEPT !.stage = Or(f.stage, @), !.op = Or(f.op, @),
              !.conds = Or(f.conds, @), !.sets = Or(f.sets, @)]

UpdateRule ==
    /\ RuleIdle
    /\ \E i \in RuleIds, f \in RuleFields :
        /\ RuleRequests("rules_update", [id |-> i, fields |-> f])
        /\ IF i \notin LiveRules THEN Replied("refused") /\ UNCHANGED rules
           ELSE \/ Replied("done") /\ rules' = RulePut(i, Merged(rules[i], f))
                \/ Replied("failed") /\ rules' \in {rules, RulePut(i, Merged(rules[i], f))}
        /\ UNCHANGED <<schedules, tags>>

\* The creation of an upsert is made once.
UpsertCreates(r) == {CreatedTimes(rules, r, 1)}

\* A match takes the new actions, and the stage if one is given; a new rule gets the
\* normal stage if none is.
UpsertRule ==
    /\ RuleIdle
    /\ \E f \in [conds: CondSeqs, op: {"and", "or"}, stage: Stages \cup {Unset}, sets: Targets] :
        LET i == FindMatchingRule(f.conds, f.op)
            new == [conds |-> f.conds, op |-> f.op, sets |-> f.sets, owner |-> Unset,
                    stage |-> Or(f.stage, "normal")]
            after == IF i = Unset THEN UpsertCreates(new)
                     ELSE {RulePut(i, Merged(rules[i], f))}
        IN /\ RuleRequests("rules_create_or_update", f)
           /\ LiveRules # RuleIds
           /\ \/ /\ rules' \in after
                 /\ Replied(IF i = Unset THEN "created" ELSE "updated")
              \/ rules' \in {rules} \cup after /\ Replied("failed")
           /\ UNCHANGED <<schedules, tags>>

\* An explicit false is a refusal.
DeleteVerdict(i) == IF Deletable(i) THEN "done" ELSE "failed"

DeleteRule ==
    \E i \in RuleIds :
        /\ RuleRequests("rules_delete", [id |-> i])
        /\ IF i \notin LiveRules THEN Replied("refused") /\ UNCHANGED rules
           ELSE \/ Replied(DeleteVerdict(i)) /\ rules' = RawDeleteRule(i)
                \/ Replied("failed") /\ rules' \in {rules, RawDeleteRule(i)}
        /\ UNCHANGED <<schedules, tags>>
-----------------------------------------------------------------------------
(* The default category of a payee                                         *)

\* The first rule of the payee that sets a category is taken for its default.
\* What deleting it answers is not looked at.
SetPayeeCategory ==
    \E p \in RulePayees, v \in Targets \cup {Unset} :
        LET found == {i \in PayeeRules(p) : rules[i].sets # Unset}
            new == [conds |-> <<p>>, op |-> "and", stage |-> "normal", sets |-> v,
                    owner |-> Unset]
            after == IF found # {}
                     THEN IF v = Unset THEN RawDeleteRule(Min(found))
                          ELSE RulePut(Min(found), [rules[Min(found)] EXCEPT !.sets = v])
                     ELSE IF v = Unset THEN rules ELSE CreatedTimes(rules, new, 1)
        IN /\ RuleRequests("payees_update", [payee |-> p, category |-> v])
           /\ LiveRules # RuleIds
           /\ \/ rules' = after /\ Replied("done")
              \/ rules' \in {rules, after} /\ Replied("failed")
           /\ UNCHANGED <<schedules, tags>>
-----------------------------------------------------------------------------
(* Schedules and tags                                                      *)

\* A schedule comes with its rule.
CreateSchedule ==
    \E s \in ScheduleIds \ schedules, c \in Conditions :
        /\ \A i \in LiveRules : rules[i].owner # s
        /\ RuleRequests("schedules_create", [id |-> s])
        /\ LiveRules # RuleIds
        /\ \/ /\ schedules' = schedules \cup {s}
              /\ rules' = CreatedTimes(rules, [conds |-> <<c>>, op |-> "and", stage |-> "normal",
                                               sets |-> Unset, owner |-> s], 1)
              /\ reply' \in {"created", "failed"}
           \/ Replied("failed") /\ UNCHANGED <<schedules, rules>>
        /\ UNCHANGED tags

\* No guard.  The conditions of its rule follow.
UpdateSchedule ==
    \E s \in ScheduleIds, c \in Conditions :
        /\ RuleRequests("schedules_update", [id |-> s])
        /\ \/ /\ rules' = [i \in RuleIds |-> IF rules[i] # Unset /\ rules[i].owner = s
                                                  /\ s \in schedules
                                             THEN [rules[i] EXCEPT !.conds = <<c>>] ELSE rules[i]]
              /\ reply' \in {"done", "failed"}
           \/ Replied("failed") /\ UNCHANGED rules
        /\ UNCHANGED <<schedules, tags>>

\* Its rule goes with it.
DeleteSchedule ==
    \E s \in ScheduleIds :
        LET after == [i \in RuleIds |-> IF rules[i] # Unset /\ rules[i].owner = s
                                        THEN Unset ELSE rules[i]]
        IN /\ RuleRequests("schedules_delete", [id |-> s])
           /\ IF s \notin schedules THEN Replied("refused") /\ UNCHANGED <<rules, schedules>>
              ELSE \/ /\ rules' = after /\ schedules' = schedules \ {s}
                      /\ reply' \in {"done", "failed"}
                   \/ Replied("failed") /\ UNCHANGED <<rules, schedules>>
           /\ UNCHANGED tags

\* An upsert on the word.
CreateTag ==
    \E w \in TagWords :
        LET same == {t \in TagIds : tags[t] = w}
        IN \E t \in IF same # {} THEN same ELSE {x \in TagIds : tags[x] = Unset} :
               /\ RuleRequests("tags_create", [word |-> w])
               /\ \/ tags' = [tags EXCEPT ![t] = w] /\ Replied("created")
                  \/ tags' \in {tags, [tags EXCEPT ![t] = w]} /\ Replied("failed")
               /\ UNCHANGED <<rules, schedules>>

TagKnown(t) == tags[t] # Unset

\* The library does nothing for an unknown tag, so the adapter looks first.
UpdateTag ==
    \E t \in TagIds, w \in TagWords \cup {Unset} :
        LET after == IF tags[t] = Unset \/ w = Unset THEN tags ELSE [tags EXCEPT ![t] = w]
        IN /\ RuleRequests("tags_update", [id |-> t])
           /\ IF ~TagKnown(t) THEN Replied("refused") /\ UNCHANGED tags
              ELSE \/ tags' = after /\ Replied("done")
                   \/ tags' \in {tags, after} /\ Replied("failed")
           /\ UNCHANGED <<rules, schedules>>

DeleteTag ==
    \E t \in TagIds :
        LET after == [tags EXCEPT ![t] = Unset]
        IN /\ RuleRequests("tags_delete", [id |-> t])
           /\ IF ~TagKnown(t) THEN Replied("refused") /\ UNCHANGED tags
              ELSE \/ tags' = after /\ Replied("done")
                   \/ tags' \in {tags, after} /\ Replied("failed")
           /\ UNCHANGED <<rules, schedules>>

\* The drain goes on to its next operation.
Delivered ==
    /\ request # Unset
    /\ request' = Unset /\ reply' = "none"
    /\ UNCHANGED <<rules, schedules, tags, ruleOps>>

RuleNext ==
    \/ Delivered \/ CreateRule \/ UpdateRule \/ UpsertRule \/ DeleteRule \/ SetPayeeCategory
    \/ CreateSchedule \/ UpdateSchedule \/ DeleteSchedule
    \/ CreateTag \/ UpdateTag \/ DeleteTag

RuleSpec == RuleInit /\ [][RuleNext]_ruleVars
-----------------------------------------------------------------------------
\* Two rules are the same when the conditions of one are those of the other in some
\* order, and they combine them alike.
SameRule(r, conds, op) ==
    /\ r.op = op
    /\ \E p \in Bijection(DOMAIN conds, DOMAIN r.conds) :
           \A i \in DOMAIN conds : r.conds[p[i]] = conds[i]

\* The rules of a state rs that are the same as the input f.
Copies(rs, f) == {i \in RuleIds : rs[i] # Unset /\ SameRule(rs[i], f.conds, f.op)}

(* An upsert never makes a second rule with the conditions of one that     *)
(* exists, in whatever order they come, even when it fails half way; and   *)
(* after a success there is one with the new actions (#376).               *)
UpsertOnce ==
    [][(ruleOps' # ruleOps /\ request'.tool = "rules_create_or_update") =>
          LET f == request'.in
              before == Copies(rules, f)
              after == Copies(rules', f)
          IN /\ before # {} => after = before
             /\ Cardinality(after) <= Cardinality(before) + 1
             /\ before = {} => Cardinality(after) <= 1
             /\ reply' \in {"created", "updated"} =>
                    \E i \in after : rules'[i].sets = f.sets]_ruleVars

(* A success is true: a rule that was deleted is gone, an update changed   *)
(* the supplied fields (a null stage is one) and no other, a tag that was  *)
(* updated exists (#342, #355).                                            *)
RuleAnswersHold ==
    [][(ruleOps' # ruleOps /\ reply' = "done") =>
          LET in == request'.in
          IN CASE request'.tool = "rules_delete" -> rules'[in.id] = Unset
               [] request'.tool = "rules_update" ->
                      LET r == rules'[in.id]
                      IN /\ r.stage = (IF in.fields.stage = Unset THEN rules[in.id].stage
                                       ELSE in.fields.stage)
                         /\ in.fields.sets = Unset => r.sets = rules[in.id].sets
                         /\ in.fields.conds # Unset => r.conds = in.fields.conds
               [] request'.tool = "schedules_delete" ->
                      \A i \in RuleIds : rules'[i] # Unset => rules'[i].owner # in.id
               [] request'.tool = "tags_update" -> tags[in.id] # Unset /\ tags'[in.id] # Unset
               [] OTHER -> TRUE]_ruleVars

(* After payees_update has cleared the default category of a payee, no     *)
(* rule sets a category for it.                                            *)
ClearedIsClear ==
    [][(ruleOps' # ruleOps /\ reply' = "done" /\ request'.tool = "payees_update"
           /\ request'.in.category = Unset) =>
          \A i \in RuleIds : rules'[i] # Unset /\ request'.in.payee \in ToSet(rules'[i].conds)
                                => rules'[i].sets = Unset]_ruleVars
=============================================================================
