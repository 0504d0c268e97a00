------------------------------- MODULE BankSync -------------------------------
(***************************************************************************)
(* The tool actual_bank_sync: a filter id that may be a name               *)
(* (resolveFilterId), and runBankSync, which has no reply to wait for: the *)
(* provider's failure arrives as a rejection nobody handles, so that it    *)
(* listens for one while a settle timer runs, inside the operation and so  *)
(* inside the operation's own time-out (actual-adapter.ts).                *)
(*                                                                         *)
(* Time passes in ticks, and no tick passes a timer that is due.           *)
(***************************************************************************)
EXTENDS Integers

CONSTANTS
    Banked,   \* account ids
    Called,   \* function: the name of each
    Syncs,    \* calls of the tool
    Settle,   \* BANK_SYNC_SETTLE_MS, in ticks
    OpBound,  \* ACTUAL_OP_TIMEOUT_MS, in ticks
    Latency   \* ticks in which a provider answers (less than Settle, if it is prompt)

ASSUME BankAssumption ==
    /\ {Settle, OpBound, Latency} \subseteq Nat \ {0}
    /\ DOMAIN Called = Banked /\ "nobody" \notin Syncs

VARIABLES
    listed,   \* accounts that are not deleted
    linked,   \* accounts with an account_sync_source
    holder,   \* the sync that holds the api lock
    sync      \* the calls

bankVars == <<listed, linked, holder, sync>>

All == "all"
NoSync == "nobody"

\* What a provider may make of a sync, and the failures that the listener knows by
\* their type or their words.  A failure to reach it is not among them.
Failures == {"rate", "provider", "network", "other"}
Providers == {"ok"} \cup Failures
Recognised == {"rate", "provider"}

(***************************************************************************)
(* The filter id                                                           *)
(***************************************************************************)
MatchByName(rows, value) == {r \in rows : Called[r] = value}

\* An id that is listed stands for itself.  A name is refused, with the id it is the
\* name of (the first, if several have it).
ResolveFilterId(rows, value) ==
    IF value \in Banked
    THEN [ok |-> value \in rows, hint |-> All]
    ELSE [ok |-> FALSE, hint |-> IF MatchByName(rows, value) = {} THEN All
                                 ELSE CHOOSE r \in MatchByName(rows, value) : TRUE]

-----------------------------------------------------------------------------
QuietSync ==
    [phase |-> "idle", target |-> All, age |-> 0, waited |-> 0, began |-> -1,
     provider |-> "none", captured |-> "none", told |-> "none", hint |-> All]

BankInit ==
    /\ listed = Banked /\ linked = Banked
    /\ holder = NoSync /\ sync = [i \in Syncs |-> QuietSync]

SetSync(i, s) == sync' = [sync EXCEPT ![i] = s]

\* actual_bank_sync: an account is looked up first, in a cycle of its own.
AskSync(i, value) ==
    /\ sync[i].phase = "idle"
    /\ LET found == ResolveFilterId(listed, value)
       IN  IF value = All \/ found.ok
           THEN SetSync(i, [sync[i] EXCEPT !.phase = "waiting", !.target = value])
           ELSE SetSync(i, [sync[i] EXCEPT !.phase = "over", !.told = "refused", !.target = value,
                                          !.hint = found.hint])
    /\ UNCHANGED <<listed, linked, holder>>

RetoldRateFirst(why) ==
    CASE why \in {"rate", "throttle"} -> "rate"
      [] why = "network" -> "unreachable"
      [] why = "local" -> "not configured"
      [] why \in {"provider", "other", "missing", "none linked", "timed out"} -> why

\* What the caller is told: the first group of words that matches.  A throttled login
\* is an authentication that failed.
Retold(why) ==
    CASE why \in {"network", "throttle"} -> "unreachable"
      [] why \in {"local"} -> "not configured"
      [] why \in {"rate", "provider", "other"} -> why
      [] why \in {"missing", "none linked", "timed out"} -> why

\* Nobody waits for the answer of a sync that was abandoned.
FinishSync(i, why, did) ==
    LET s == [sync[i] EXCEPT !.phase = "over", !.age = 0, !.waited = 0, !.provider = did]
    IN  IF s.told # "none" THEN SetSync(i, s) /\ holder' = holder
        ELSE /\ SetSync(i, [s EXCEPT !.began = -1,
                                    !.told = IF why = "success" THEN why ELSE Retold(why)])
             /\ holder' = NoSync

LockSync(i) ==
    /\ sync[i].phase = "waiting" /\ holder = NoSync
    /\ holder' = i
    /\ SetSync(i, [sync[i] EXCEPT !.phase = "checking"])
    /\ UNCHANGED <<listed, linked>>

\* withActualApi could not connect.
SyncUnconnected(i, why) ==
    /\ sync[i].phase = "waiting" /\ holder = NoSync
    /\ FinishSync(i, why, "none")
    /\ UNCHANGED <<listed, linked>>

\* The check for linked accounts, which upstream does not make.
CheckLinked(i) ==
    LET a == sync[i].target
    IN  /\ sync[i].phase = "checking"
        /\ CASE a # All /\ a \notin listed -> FinishSync(i, "missing", "none")
             [] a \in listed \ linked -> FinishSync(i, "local", "none")
             [] a = All /\ listed \cap linked = {} -> FinishSync(i, "none linked", "none")
             [] OTHER -> SetSync(i, [sync[i] EXCEPT !.phase = "starting"]) /\ holder' = holder
        /\ UNCHANGED <<listed, linked>>

\* The listener is on before rawRunBankSync is called.
Listening == {"starting", "settling"}

\* rawRunBankSync rejects, with whatever it met.
StartRejects(i, why) ==
    /\ sync[i].phase = "starting"
    /\ FinishSync(i, why, why)
    /\ UNCHANGED <<listed, linked>>

\* It answers, its work goes on behind, and the settle timer starts.
BeginSettling(i) ==
    /\ sync[i].phase = "starting"
    /\ SetSync(i, [sync[i] EXCEPT !.phase = "settling", !.began = sync[i].age,
                                  !.provider = "asked"])
    /\ UNCHANGED <<listed, linked, holder>>

\* The provider is done, or its rejection reaches every listener of the process, which
\* keeps the failures that it knows.
ProviderAnswers(i, how) ==
    /\ sync[i].provider = "asked"
    /\ sync' = [j \in Syncs |->
                   LET s == IF j = i THEN [sync[i] EXCEPT !.provider = how] ELSE sync[j]
                   IN  IF how \in Recognised /\ s.phase \in Listening
                       THEN [s EXCEPT !.captured = how] ELSE s]
    /\ UNCHANGED <<listed, linked, holder>>

\* withOpTimeout: its timer is older than the settle timer, and fires first.  The
\* operation is left to itself.
OpDue(i) == holder = i /\ sync[i].age = OpBound

SyncTimesOut(i) ==
    /\ OpDue(i)
    /\ SetSync(i, [sync[i] EXCEPT !.told = Retold("timed out")])
    /\ holder' = NoSync
    /\ UNCHANGED <<listed, linked>>

SettleDue(i) == sync[i].phase = "settling" /\ sync[i].waited = Settle

SettleEnds(i) ==
    /\ SettleDue(i) /\ ~OpDue(i)
    /\ FinishSync(i, IF sync[i].captured # "none" THEN sync[i].captured ELSE "success",
                  sync[i].provider)
    /\ UNCHANGED <<listed, linked>>

BankTick ==
    /\ \A i \in Syncs : /\ ~OpDue(i) /\ ~SettleDue(i)
                        /\ ~(sync[i].provider = "asked" /\ sync[i].waited = Latency)
    /\ sync' = [i \in Syncs |->
                   [sync[i] EXCEPT !.age = IF holder = i THEN @ + 1 ELSE @,
                                   !.waited = IF sync[i].phase = "settling" THEN @ + 1 ELSE @]]
    /\ sync' # sync
    /\ UNCHANGED <<listed, linked, holder>>

\* Another client unlinks or deletes an account; nothing reads either once a sync began.
Elsewhere(a) ==
    /\ \E i \in Syncs : sync[i].phase \in {"idle", "waiting", "checking"}
    /\ \/ a \in linked /\ linked' = linked \ {a} /\ listed' = listed
       \/ a \in listed /\ listed' = listed \ {a} /\ linked' = linked
    /\ UNCHANGED <<holder, sync>>

Wanted == Banked \cup {Called[a] : a \in Banked} \cup {All, "unknown"}

BankNext ==
    \/ \E i \in Syncs :
           \/ \E v \in Wanted : AskSync(i, v)
           \/ LockSync(i) \/ SyncUnconnected(i, "network") \/ SyncUnconnected(i, "throttle")
           \/ CheckLinked(i) \/ BeginSettling(i)
           \/ \E why \in Failures : StartRejects(i, why)
           \/ \E how \in Providers : ProviderAnswers(i, how)
           \/ SyncTimesOut(i) \/ SettleEnds(i)
    \/ BankTick
    \/ \E a \in Banked : Elsewhere(a)

BankSpec == BankInit /\ [][BankNext]_bankVars

-----------------------------------------------------------------------------
BankTypeOK ==
    /\ listed \subseteq Banked /\ linked \subseteq Banked /\ holder \in Syncs \cup {NoSync}
    /\ \A i \in Syncs : sync[i].age \in 0..OpBound /\ sync[i].waited \in 0..Settle

(* A sync whose checks took no time is reported as what the provider made  *)
(* of it: the settle timer ends before the operation's time-out            *)
(* (constants.ts: a comfortable margin).                                   *)
SyncIsReported == \A i \in Syncs : sync[i].told = "timed out" => sync[i].began # 0

\* Success when its own provider succeeded, or failed in a way the listener does not
\* know; a provider's failure when its own failed, or that of a sync that was abandoned;
\* a name is refused with an id of that name, and never reaches a provider.
OutcomeIsTrue ==
    \A i \in Syncs :
        /\ sync[i].told = "success" => sync[i].provider \in Providers \ Recognised
        /\ sync[i].told \in Recognised =>
               \E j \in Syncs : /\ sync[j].provider = sync[i].told
                                /\ j = i \/ sync[j].told = "timed out"
        /\ sync[i].told = "refused" =>
               /\ sync[i].provider = "none"
               /\ sync[i].hint = All \/ Called[sync[i].hint] = sync[i].target
        /\ sync[i].provider # "none" => sync[i].target \in Banked \cup {All}

\* A provider that answers does so before the settle timer ends (actual-adapter.ts:
\* "in practice").
Prompt == Latency < Settle

(* What the caller of a bank sync is told is true (runBankSync,            *)
(* resolveFilterId): a failure that is told is the provider's, whichever   *)
(* syncs were abandoned, one that the listener knows is never told as a    *)
(* success, and no outcome is hidden behind a time-out.                    *)
SyncIsTold == SyncIsReported /\ OutcomeIsTrue
=============================================================================
