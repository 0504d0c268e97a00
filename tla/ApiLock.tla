------------------------------ MODULE ApiLock -------------------------------
(***************************************************************************)
(* The affinity-aware mutex around the process-global @actual-app/api      *)
(* singleton: src/lib/apiLock.ts, with the settling of abandoned           *)
(* budget loads that every acquisition starts with (apiState.ts).          *)
(*                                                                         *)
(* A caller of withApiLock is idle, queued ("waiting"), handed the lock    *)
(* ("granted": it still has to settle abandoned loads) or inside its body  *)
(* ("running").  grantNext may serve the oldest waiter on the loaded       *)
(* budget before the head of the queue, at most MaxSkips times in a row    *)
(* and never across a waiter that names no budget.                         *)
(***************************************************************************)
EXTENDS Integers, Sequences, SequencesExt

CONSTANTS Callers,    \* concurrent users of withApiLock
          Budgets,    \* the sync ids a caller can name or the singleton hold
          NoBudget,   \* null as the loaded record, undefined as a hint
          MaxSkips    \* MAX_AFFINITY_SKIPS

ASSUME LockAssumption == NoBudget \notin Budgets /\ MaxSkips \in Nat

VARIABLES held,              \* the module's `held`
          waiters,           \* the module's `waiters`, oldest first
          consecutiveSkips,  \* the module's `consecutiveSkips`
          loaded,            \* getLoadedBudgetSyncId()
          pc                 \* where each caller is in withApiLock

vars == <<held, waiters, consecutiveSkips, loaded, pc>>

Hint == Budgets \cup {NoBudget}

\* interface Waiter, with two history fields: how many waiters stood before it
\* when it queued, and how many later ones were granted before it since.
Waiter == [who : Callers, budget : Hint, ahead : Nat, overtaken : Nat]

Owning == {"granted", "running"}

TypeOK ==
    /\ held \in BOOLEAN
    /\ waiters \in Seq(Waiter)
    /\ consecutiveSkips \in 0..MaxSkips
    /\ loaded \in Hint
    /\ pc \in [Callers -> {"idle", "waiting"} \cup Owning]

Init ==
    /\ held = FALSE
    /\ waiters = <<>>
    /\ consecutiveSkips = 0
    /\ loaded = NoBudget
    /\ pc = [c \in Callers |-> "idle"]
-----------------------------------------------------------------------------
\* acquire(budget): take a free lock at once, else join the queue.
Acquire(c, b) ==
    /\ pc[c] = "idle"
    /\ \/ /\ ~held
          /\ held' = TRUE
          /\ pc' = [pc EXCEPT ![c] = "granted"]
          /\ UNCHANGED waiters
       \/ /\ held
          /\ waiters' = Append(waiters, [who |-> c, budget |-> b,
                                         ahead |-> Len(waiters), overtaken |-> 0])
          /\ pc' = [pc EXCEPT ![c] = "waiting"]
          /\ UNCHANGED held
    /\ UNCHANGED <<consecutiveSkips, loaded>>

\* Mutants of the affinity rule: one skip too many, barriers crossed, a waiter
\* on the loaded budget that is not the oldest.
AffinityOneTooMany(i) ==
    /\ consecutiveSkips <= MaxSkips
    /\ loaded # NoBudget
    /\ i > 1
    /\ waiters[i].budget = loaded
    /\ \A j \in 1..(i - 1) : waiters[j].budget \notin {loaded, NoBudget}

AffinityCrossesBarriers(i) ==
    /\ consecutiveSkips < MaxSkips
    /\ loaded # NoBudget
    /\ i > 1
    /\ waiters[i].budget = loaded
    /\ \A j \in 1..(i - 1) : waiters[j].budget # loaded

AffinityNotOldest(i) ==
    /\ consecutiveSkips < MaxSkips
    /\ loaded # NoBudget
    /\ i > 1
    /\ waiters[i].budget = loaded
    /\ \A j \in 1..(i - 1) : waiters[j].budget # NoBudget

\* Position i holds the oldest waiter on the loaded budget, it is not the
\* head, and no waiter without a hint (a barrier) stands before it.
AffinityMatch(i) ==
    /\ consecutiveSkips < MaxSkips
    /\ loaded # NoBudget
    /\ i > 1
    /\ waiters[i].budget = loaded
    /\ \A j \in 1..(i - 1) : waiters[j].budget \notin {loaded, NoBudget}

\* The position grantNext serves: an affinity match, else the head.
Chosen(i) ==
    \/ AffinityMatch(i)
    \/ i = 1 /\ ~ \E k \in 2..Len(waiters) : AffinityMatch(k)

\* A grant of position i overtakes every waiter before it.
OvertakenBy(i) ==
    [j \in 1..Len(waiters) |->
        IF j < i THEN [waiters[j] EXCEPT !.overtaken = @ + 1] ELSE waiters[j]]

\* Mutant: the lock is released instead of handed over.
HandOverReleases(c, i) ==
    /\ Chosen(i)
    /\ consecutiveSkips' = IF i > 1 THEN consecutiveSkips + 1 ELSE 0
    /\ waiters' = RemoveAt(OvertakenBy(i), i)
    /\ pc' = [pc EXCEPT ![c] = "idle", ![waiters[i].who] = "granted"]
    /\ held' = FALSE

\* grantNext() on a non-empty queue: `held` stays true, ownership moves.
HandOver(c, i) ==
    /\ Chosen(i)
    /\ consecutiveSkips' = IF i > 1 THEN consecutiveSkips + 1 ELSE 0
    /\ waiters' = RemoveAt(OvertakenBy(i), i)
    /\ pc' = [pc EXCEPT ![c] = "idle", ![waiters[i].who] = "granted"]
    /\ UNCHANGED held

\* grantNext(), called by the holder's finally.
GrantNext(c) ==
    \/ /\ waiters = <<>>
       /\ held' = FALSE
       /\ consecutiveSkips' = 0
       /\ pc' = [pc EXCEPT ![c] = "idle"]
       /\ UNCHANGED waiters
    \/ \E i \in 1..Len(waiters) : HandOver(c, i)

\* awaitAbandonedBudgetLoad resolved: the body starts.
Settle(c) ==
    /\ pc[c] = "granted"
    /\ pc' = [pc EXCEPT ![c] = "running"]
    /\ UNCHANGED <<held, waiters, consecutiveSkips, loaded>>

\* Mutant: the bounded wait throws outside the try.
SettleTimesOutLeaks(c) ==
    /\ pc[c] = "granted"
    /\ pc' = [pc EXCEPT ![c] = "idle"]
    /\ UNCHANGED <<held, waiters, consecutiveSkips, loaded>>

\* The bounded wait threw: the body is skipped and the lock released.
SettleTimesOut(c) ==
    /\ pc[c] = "granted"
    /\ GrantNext(c)
    /\ UNCHANGED loaded

\* A body selects a budget and the record follows it.
Body(c, b) ==
    /\ pc[c] = "running"
    /\ loaded' = b
    /\ UNCHANGED <<held, waiters, consecutiveSkips, pc>>

\* The body returned or threw.
Finish(c) ==
    /\ pc[c] = "running"
    /\ GrantNext(c)
    /\ UNCHANGED loaded

\* setApiInitialized(false) from a path that does not hold the lock.
RecordCleared ==
    /\ loaded' = NoBudget
    /\ UNCHANGED <<held, waiters, consecutiveSkips, pc>>

CallerStep(c) ==
    \/ \E b \in Hint : Acquire(c, b) \/ Body(c, b)
    \/ Settle(c) \/ SettleTimesOut(c) \/ Finish(c)

Next == (\E c \in Callers : CallerStep(c)) \/ RecordCleared

Spec == Init /\ [][Next]_vars

\* Settling is bounded by the operation timeout, and so is the body.
Fairness ==
    \A c \in Callers :
        WF_vars(Settle(c) \/ SettleTimesOut(c)) /\ WF_vars(Finish(c))

FairSpec == Spec /\ Fairness
-----------------------------------------------------------------------------
(* The lock has exactly one owner while it is held and none otherwise, the *)
(* queue holds exactly the callers that are waiting, each once, and a free *)
(* lock leaves nobody queued (apiLock.ts "Hand the lock to exactly one     *)
(* waiter, or release it if none are queued").                             *)
OneOwner ==
    /\ held <=> \E c \in Callers : pc[c] \in Owning
    /\ \A c, d \in Callers : pc[c] \in Owning /\ pc[d] \in Owning => c = d
    /\ ~held => waiters = <<>>
    /\ \A c \in Callers : pc[c] = "waiting" => \E i \in 1..Len(waiters) : waiters[i].who = c
    /\ \A i \in 1..Len(waiters) : pc[waiters[i].who] = "waiting"
    /\ \A i, j \in 1..Len(waiters) : waiters[i].who = waiters[j].who => i = j

(* Bounded unfairness: a waiter that queued behind n others is overtaken   *)
(* at most MaxSkips times for each of them and for itself, so the head of  *)
(* the queue is delayed by at most MAX_AFFINITY_SKIPS operations           *)
(* (apiLock.ts, the comment on MAX_AFFINITY_SKIPS).                        *)
BoundedOvertaking ==
    \A i \in 1..Len(waiters) :
        waiters[i].overtaken <= MaxSkips * (waiters[i].ahead + 1)

(* A waiter that names no budget is a barrier: whatever affinity does,     *)
(* nobody who queued after it is served before it (apiLock.ts, grantNext). *)
BarrierNeverOvertaken ==
    \A i \in 1..Len(waiters) :
        waiters[i].budget = NoBudget => waiters[i].overtaken = 0

(* Order within one budget is kept: nobody is granted while an older       *)
(* waiter on the same budget stays queued (apiLock.ts "The OLDEST waiter   *)
(* on the loaded budget, so ordering within a budget is preserved").       *)
SameBudgetInOrder ==
    [][\A i, j \in 1..Len(waiters) :
          (/\ i < j
           /\ waiters[i].budget = waiters[j].budget
           /\ pc'[waiters[j].who] = "granted")
              => pc'[waiters[i].who] # "waiting"]_vars

(* Every queued acquisition is granted, however the others keep coming and *)
(* whatever budget stays loaded.                                           *)
NoStarvation == \A c \in Callers : pc[c] = "waiting" ~> pc[c] \in Owning

(* The affinity lock implements the abstract mutex, fairness included.     *)
Mutex == INSTANCE ApiMutex WITH
            holders <- {c \in Callers : pc[c] \in Owning},
            waiting <- {c \in Callers : pc[c] = "waiting"}

ImplementsMutex == Mutex!MutexSpec
=============================================================================
