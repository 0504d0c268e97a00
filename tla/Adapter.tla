------------------------------ MODULE Adapter -------------------------------
(***************************************************************************)
(* Many sessions over one @actual-app/api singleton.  The singleton is     *)
(* process-global and has one budget open; src/lib/apiState.ts records     *)
(* whether it is live and which budget it holds, budgetLoader.ts tracks    *)
(* the loads that move it, actual-adapter.ts runs operations against it    *)
(* under the api mutex, and ActualConnectionPool.ts opens and closes the   *)
(* sessions' pool entries.                                                 *)
(*                                                                         *)
(* The lock is ApiMutex, which ApiLock is shown to implement.  A step is   *)
(* the code between two awaits that matter; a step that needs a reply from *)
(* upstream, a timer or a new request waits until the callers that only    *)
(* have microtasks left to run have run them (Quiet).                      *)
(***************************************************************************)
EXTENDS Integers, FiniteSets

CONSTANTS Callers,        \* concurrent asynchronous calls
          Sessions,
          SessionOf,      \* the session each caller works for
          Budgets,        \* configured sync ids
          NoBudget,       \* no budget
          Imported,       \* the `imported:` sentinel
          DefaultBudget,  \* ACTUAL_BUDGET_SYNC_ID
          ServerOf,       \* serverUrl and credentials of a budget
          NoEntry,        \* no pool entry
          MaxSessions,    \* MAX_CONCURRENT_SESSIONS
          Stdio,          \* MCP_STDIO_MODE
          Faults          \* what may go wrong upstream

FaultKinds == {"init_fails", "load_fails", "load_stalls", "op_fails",
               "op_stalls", "shutdown_fails", "shutdown_stalls"}

ASSUME AdapterAssumption ==
    /\ SessionOf \in [Callers -> Sessions]
    /\ NoBudget \notin Budgets /\ Imported \notin Budgets /\ NoBudget # Imported
    /\ DefaultBudget \in Budgets
    /\ Stdio \in BOOLEAN
    /\ Faults \subseteq FaultKinds

VARIABLES holders, waiting,  \* the api mutex
          live,              \* _apiInitialized
          record,            \* _loadedBudgetSyncId
          loads,             \* _pendingBudgetLoads
          open,              \* upstream: the budget the singleton has open
          lateShutdown,      \* upstream: a shutdown that outran its bound
          strays,            \* upstream: operations that outran their bound
          entry,             \* the pool's connections
          slot,              \* the active budget of each session
          pc, kind, want     \* each caller: where, doing what, on which budget

lock     == <<holders, waiting>>
api      == <<live, record, loads>>
upstream == <<open, lateShutdown, strays>>
pool     == <<entry, slot>>
call     == <<kind, want>>
vars     == <<lock, api, upstream, pool, pc, call>>

Mutex == INSTANCE ApiMutex

Target == Budgets \cup {Imported}

\* A tracked load: upstream closes the open budget, opens the target, and the
\* post-condition probe runs before the record is written.
Load == [by : Callers, target : Target,
         stage : {"closing", "opening", "probing"}, abandoned : BOOLEAN]

Servers == {ServerOf[b] : b \in Budgets}

Entry == [server : Servers, syncId : Target]

\* Waiting, inside the lock, for its own load.
Loading == {"selecting", "initialising", "importing"}

\* Callers here have only microtasks left before their next await.
Continuing == {"selected", "initialised", "failed", "broken", "opened", "retreat", "cleared",
               "reloaded", "rebind", "closed", "unlocked"}

Phases == {"idle", "locking", "inside", "diagnosing", "op", "done",
           "dropping", "stopping", "tearing"} \cup Loading \cup Continuing

Kinds == {"pooled", "legacy", "open", "cleanup", "close", "evict", "rebind", "reload"}

TypeOK ==
    /\ holders \in SUBSET Callers /\ waiting \in SUBSET Callers
    /\ live \in BOOLEAN
    /\ record \in Target \cup {NoBudget}
    /\ loads \in SUBSET Load
    /\ open \in Target \cup {NoBudget}
    /\ lateShutdown \in BOOLEAN
    /\ strays \in SUBSET Budgets
    /\ entry \in [Sessions -> Entry \cup {NoEntry}]
    /\ slot \in [Sessions -> Budgets]
    /\ pc \in [Callers -> Phases]
    /\ kind \in [Callers -> Kinds]
    /\ want \in [Callers -> Budgets]

Init ==
    /\ Mutex!MutexInit
    /\ live = FALSE /\ record = NoBudget /\ loads = {}
    /\ open = NoBudget /\ lateShutdown = FALSE /\ strays = {}
    /\ entry = [s \in Sessions |-> NoEntry]
    /\ slot \in [Sessions -> Budgets]
    /\ pc = [c \in Callers |-> "idle"]
    /\ kind = [c \in Callers |-> "legacy"]
    /\ want = [c \in Callers |-> DefaultBudget]
-----------------------------------------------------------------------------
Quiet == \A c \in Callers : pc[c] \notin Continuing

HasEntry(s) == entry[s] # NoEntry

Entries == {s \in Sessions : HasEntry(s)}

\* A call that is over leaves no locals behind.
Goes(c, next) ==
    /\ pc' = [pc EXCEPT ![c] = next]
    /\ kind' = IF next = "idle" THEN [kind EXCEPT ![c] = "legacy"] ELSE kind
    /\ want' = IF next = "idle" THEN [want EXCEPT ![c] = DefaultBudget] ELSE want

\* acquire: take the free mutex or queue for it.
Enter(c, k, b) ==
    /\ Mutex!Take(c) \/ Mutex!Wait(c)
    /\ pc' = [pc EXCEPT ![c] = "locking"]
    /\ kind' = [kind EXCEPT ![c] = k]
    /\ want' = [want EXCEPT ![c] = b]

\* grantNext: release the mutex or hand it to some waiter.
Leave(c, next) ==
    /\ Mutex!Release(c) \/ \E w \in Callers : Mutex!HandOver(c, w)
    /\ Goes(c, next)

Stay(c, next) == Goes(c, next) /\ UNCHANGED lock

\* setApiInitialized(false) clears the record too.
NotLive == live' = FALSE /\ record' = NoBudget

Forget(s) == entry' = [entry EXCEPT ![s] = NoEntry]
-----------------------------------------------------------------------------
(* Requests arrive.                                                        *)

\* withActualApi and withActualApiWrite: the branch is chosen before the lock.
StartOp(c) ==
    /\ pc[c] = "idle" /\ Quiet
    /\ LET pooled == live /\ HasEntry(SessionOf[c])
       IN  Enter(c, IF pooled THEN "pooled" ELSE "legacy", DefaultBudget)
    /\ UNCHANGED <<api, upstream, pool>>

Room == Cardinality(Entries) < MaxSessions

\* getConnection for a new session; the capacity is checked here only.
StartOpen(c) ==
    /\ pc[c] = "idle" /\ Quiet
    /\ ~Stdio /\ ~HasEntry(SessionOf[c]) /\ Room
    /\ Enter(c, "open", DefaultBudget)
    /\ UNCHANGED <<api, upstream, pool>>

\* shutdownConnection, for session_close ("close") and the idle sweep ("evict").
StartClose(c, k) ==
    /\ pc[c] = "idle" /\ Quiet
    /\ HasEntry(SessionOf[c])
    /\ Enter(c, k, DefaultBudget)
    /\ UNCHANGED <<api, upstream, pool>>

SameAuth(s, b) == HasEntry(s) /\ entry[s].server = ServerOf[b]

\* switchBudget, already on the target: only the slot is written.
SwitchNoOp(c, b) ==
    LET s == SessionOf[c] IN
    /\ pc[c] = "idle" /\ Quiet
    /\ SameAuth(s, b) /\ entry[s].syncId = b
    /\ slot' = [slot EXCEPT ![s] = b]
    /\ UNCHANGED <<lock, api, upstream, entry, pc, call>>

\* switchBudget on the same server (fast path) or another one (slow path).
StartSwitch(c, b) ==
    LET s == SessionOf[c] IN
    /\ pc[c] = "idle" /\ Quiet
    /\ SameAuth(s, b) => entry[s].syncId # b
    /\ Enter(c, IF SameAuth(s, b) THEN "reload" ELSE "rebind", b)
    /\ UNCHANGED <<api, upstream, pool>>
-----------------------------------------------------------------------------
(* withApiLock: settle the pending loads, or throw.                        *)

\* Mutant: the lock does not wait for abandoned loads.
SettleUnchecked(c) ==
    /\ pc[c] = "locking" /\ c \in holders
    /\ Stay(c, "inside")
    /\ UNCHANGED <<api, upstream, pool>>

Settle(c) ==
    /\ pc[c] = "locking" /\ c \in holders
    /\ loads = {}
    /\ Stay(c, "inside")
    /\ UNCHANGED <<api, upstream, pool>>

\* Where a caller goes whose acquisition threw.
Refused(k) ==
    CASE k \in {"pooled", "legacy", "reload"} -> "idle"
      [] k = "open" -> "retreat"
      [] k = "cleanup" -> "cleared"
      [] OTHER -> "unlocked"

\* Mutant: a refused acquisition leaks the lock.
SettleTimesOutLeaks(c) ==
    /\ pc[c] = "locking" /\ c \in holders /\ Quiet
    /\ "load_stalls" \in Faults /\ loads # {}
    /\ Stay(c, Refused(kind[c]))
    /\ UNCHANGED <<api, upstream, pool>>

SettleTimesOut(c) ==
    /\ pc[c] = "locking" /\ c \in holders /\ Quiet
    /\ "load_stalls" \in Faults /\ loads # {}
    /\ Leave(c, Refused(kind[c]))
    /\ UNCHANGED <<api, upstream, pool>>
-----------------------------------------------------------------------------
(* Selecting a budget: ensureLoadedBudgetMatchesSession,                   *)
(* initActualApiForOperation, getConnection and trackBudgetMutation.       *)

Needs(c) == IF kind[c] \in {"pooled", "legacy"} THEN slot[SessionOf[c]] ELSE want[c]

\* The budget is read inside the lock.
Picks(c, next) ==
    /\ want' = [want EXCEPT ![c] = Needs(c)]
    /\ pc' = [pc EXCEPT ![c] = next]
    /\ UNCHANGED <<lock, kind>>

\* Mutant: a live singleton is trusted to hold this session's budget.
MatchesUnchecked(c) ==
    /\ pc[c] = "inside" /\ kind[c] \in {"pooled", "legacy"}
    /\ live
    /\ Picks(c, "op")
    /\ UNCHANGED <<api, upstream, pool>>

\* The precondition holds: the record names the session's budget.
Matches(c) ==
    /\ pc[c] = "inside" /\ kind[c] \in {"pooled", "legacy"}
    /\ live /\ record = Needs(c)
    /\ Picks(c, "op")
    /\ UNCHANGED <<api, upstream, pool>>

\* Mutant: the record is only written on success.
TrackKeepsRecord(c, target) ==
    /\ loads' = loads \cup
          {[by |-> c, target |-> target, stage |-> "closing", abandoned |-> FALSE]}
    /\ UNCHANGED record

\* The record is cleared before the load starts.
Track(c, target) ==
    /\ record' = NoBudget
    /\ loads' = loads \cup
          {[by |-> c, target |-> target, stage |-> "closing", abandoned |-> FALSE]}

Select(c) ==
    /\ pc[c] = "inside"
    /\ \/ kind[c] = "reload"
       \/ kind[c] \in {"pooled", "legacy"} /\ live /\ record # Needs(c)
    /\ Picks(c, "selecting")
    /\ Track(c, Needs(c))
    /\ UNCHANGED <<live, upstream, pool>>

Initialises(c) ==
    \/ kind[c] = "open"
    \/ kind[c] \in {"pooled", "legacy"} /\ ~live

\* api.init() succeeded, and the download starts.
Initialise(c) ==
    /\ pc[c] = "inside" /\ Initialises(c)
    /\ Picks(c, "initialising")
    /\ Track(c, Needs(c))
    /\ UNCHANGED <<live, upstream, pool>>

Failure == {"failed", "broken"}

InitFails(c) ==
    /\ pc[c] = "inside" /\ Initialises(c) /\ Quiet
    /\ "init_fails" \in Faults
    /\ \E f \in Failure : Stay(c, f)
    /\ UNCHANGED <<api, upstream, pool>>

\* Mutant: the import moves the sessions' slots along.
StartImportMovesSlots(c) ==
    /\ pc[c] = "op"
    /\ slot' = [s \in Sessions |-> Imported]
    /\ Track(c, Imported)
    /\ Stay(c, "importing")
    /\ UNCHANGED <<live, upstream, entry>>

\* The body of an importBudget operation: no pool entry may go on naming the
\* budget that was loaded before.
StartImport(c) ==
    /\ pc[c] = "op"
    /\ entry' = [s \in Sessions |->
                    IF HasEntry(s) THEN [entry[s] EXCEPT !.syncId = Imported] ELSE NoEntry]
    /\ Track(c, Imported)
    /\ Stay(c, "importing")
    /\ UNCHANGED <<live, upstream, slot>>
-----------------------------------------------------------------------------
(* A tracked load runs whether or not its caller still waits for it.       *)

MovesTo(l, stage) == loads' = (loads \ {l}) \cup {[l EXCEPT !.stage = stage]}

\* Tell the caller, unless it has given up.
Reports(l, next) ==
    /\ pc' = IF l.abandoned THEN pc ELSE [pc EXCEPT ![l.by] = next]
    /\ UNCHANGED <<lock, call>>

\* Every upstream load first closes the budget that is open.
LoadCloses(l) ==
    /\ l.stage = "closing" /\ Quiet
    /\ MovesTo(l, "opening")
    /\ open' = NoBudget
    /\ UNCHANGED <<lock, live, record, lateShutdown, strays, pool, pc, call>>

\* The download resolved, possibly without opening anything (#396).
Downloaded(l) ==
    /\ l.stage = "opening" /\ l.target # Imported /\ Quiet
    /\ open' \in {l.target} \cup (IF "load_fails" \in Faults THEN {NoBudget} ELSE {})
    /\ IF l.abandoned THEN loads' = loads \ {l} ELSE MovesTo(l, "probing")
    /\ UNCHANGED <<lock, live, record, lateShutdown, strays, pool, pc, call>>

\* assertBudgetOpen passed: the record is written, unless the caller has left.
Recorded(l) ==
    /\ l.stage = "probing" /\ Quiet
    /\ open # NoBudget
    /\ record' = IF l.abandoned THEN record ELSE l.target
    /\ loads' = loads \ {l}
    /\ Reports(l, IF pc[l.by] = "initialising" THEN "initialised" ELSE "selected")
    /\ UNCHANGED <<live, upstream, pool>>

\* An import needs no probe, and the pool entries are invalidated once more.
ImportLands(l) ==
    /\ l.stage = "opening" /\ l.target = Imported /\ Quiet
    /\ open' = Imported
    /\ record' = IF l.abandoned THEN record ELSE Imported
    /\ loads' = loads \ {l}
    /\ entry' = IF l.abandoned THEN entry
                ELSE [s \in Sessions |->
                        IF HasEntry(s) THEN [entry[s] EXCEPT !.syncId = Imported] ELSE NoEntry]
    /\ Reports(l, "done")
    /\ UNCHANGED <<live, lateShutdown, strays, slot>>

\* A load that rejects, or whose probe finds no budget, poisons the singleton.
LoadFails(l) ==
    /\ Quiet
    /\ \/ "load_fails" \in Faults
       \/ l.stage = "probing" /\ (open = NoBudget \/ l.abandoned)
    /\ NotLive
    /\ loads' = loads \ {l}
    /\ \E f \in Failure : Reports(l, f)
    /\ UNCHANGED <<upstream, pool>>

\* loadBudgetTracked asks why no budget is open: the diagnostic load is
\* registered like any other, and its outcome is never recorded.
Diagnose(l) ==
    /\ l.stage = "probing" /\ open = NoBudget /\ ~l.abandoned /\ Quiet
    /\ NotLive
    /\ loads' = (loads \ {l}) \cup {[l EXCEPT !.stage = "closing", !.abandoned = TRUE]}
    /\ Stay(l.by, "diagnosing")
    /\ UNCHANGED <<upstream, pool>>

\* The diagnostic load settled, or its bound expired.
Diagnosed(c) ==
    /\ pc[c] = "diagnosing" /\ Quiet
    /\ loads = {} \/ "load_stalls" \in Faults
    /\ record' = NoBudget
    /\ \E f \in Failure : Stay(c, f)
    /\ UNCHANGED <<live, loads, upstream, pool>>

\* A time-out is an infrastructure error, which drops the session's pool entry; but a
\* write that runs in a drain keeps it.
InfraFailures(c) == {f \in Failure : f = "failed" => kind[c] = "pooled"}

\* The bound expires: the load stays registered.
LoadTimesOut(l) ==
    /\ ~l.abandoned /\ "load_stalls" \in Faults /\ Quiet
    /\ loads' = (loads \ {l}) \cup {[l EXCEPT !.abandoned = TRUE]}
    /\ \E f \in InfraFailures(l.by) : Stay(l.by, f)
    /\ UNCHANGED <<live, record, upstream, pool>>

\* The selection returned to its caller.
Selected(c) ==
    /\ pc[c] = "selected"
    /\ IF kind[c] = "reload" THEN Leave(c, "reloaded") ELSE Stay(c, "op")
    /\ UNCHANGED <<api, upstream, pool>>

\* The init path marks the singleton live only after the download (#270).
Initialised(c) ==
    /\ pc[c] = "initialised"
    /\ live' = TRUE
    /\ IF kind[c] = "open" THEN Leave(c, "opened") ELSE Stay(c, "op")
    /\ UNCHANGED <<record, loads, upstream, pool>>
-----------------------------------------------------------------------------
(* The operation itself, and what follows it inside the lock.              *)

OpEnds(c) ==
    /\ pc[c] = "op" /\ Quiet
    /\ \E p \in {"done"} \cup (IF "op_fails" \in Faults THEN Failure ELSE {}) : Stay(c, p)
    /\ UNCHANGED <<api, upstream, pool>>

\* withOpTimeout rejects; the operation itself goes on.
OpTimesOut(c) ==
    /\ pc[c] = "op" /\ Quiet
    /\ "op_stalls" \in Faults
    /\ strays' = strays \cup {want[c]}
    /\ \E f \in InfraFailures(c) : Stay(c, f)
    /\ UNCHANGED <<api, open, lateShutdown, pool>>

StrayEnds ==
    /\ Quiet
    /\ \E b \in strays : strays' = strays \ {b}
    /\ UNCHANGED <<lock, api, open, lateShutdown, pool, pc, call>>

\* A body that has nothing left to tear down releases the lock.
Finish(c) ==
    /\ \/ kind[c] = "pooled" /\ pc[c] \in {"done", "failed"} /\ Leave(c, "idle")
       \/ kind[c] = "reload" /\ pc[c] \in Failure /\ Leave(c, "idle")
       \/ kind[c] = "open" /\ pc[c] \in Failure /\ Leave(c, "retreat")
    /\ UNCHANGED <<api, upstream, pool>>

\* Mutant: the sessions that have an entry are forgotten.
KeepsStdioOnly(c) == Stdio /\ pc[c] # "broken"

KeepsSingleton(c) == Entries # {} \/ (Stdio /\ pc[c] # "broken")

\* shutdownActualApi, sync-only.
KeepAlive(c) ==
    /\ kind[c] = "legacy" /\ pc[c] \in {"done"} \cup Failure
    /\ KeepsSingleton(c)
    /\ Leave(c, "idle")
    /\ UNCHANGED <<api, upstream, pool>>

\* shutdownActualApi, tearing the singleton down.
Stop(c) ==
    /\ kind[c] = "legacy" /\ pc[c] \in {"done"} \cup Failure
    /\ ~KeepsSingleton(c)
    /\ Stay(c, "stopping")
    /\ UNCHANGED <<api, upstream, pool>>

\* api.shutdown() settled: the budget is closed unless it threw.
ShutdownSettles ==
    /\ open' \in {NoBudget} \cup (IF "shutdown_fails" \in Faults THEN {open} ELSE {})
    /\ UNCHANGED <<lateShutdown, strays>>

Stopped(c) ==
    /\ pc[c] = "stopping" /\ Quiet
    /\ ShutdownSettles
    /\ NotLive
    /\ Leave(c, "idle")
    /\ UNCHANGED <<loads, pool>>

\* The bound expires: the call returns and the shutdown goes on.
StopTimesOut(c) ==
    /\ pc[c] = "stopping" /\ Quiet
    /\ "shutdown_stalls" \in Faults
    /\ lateShutdown' = TRUE
    /\ NotLive
    /\ Leave(c, "idle")
    /\ UNCHANGED <<loads, open, strays, pool>>

LateShutdownLands ==
    /\ lateShutdown /\ Quiet
    /\ lateShutdown' = FALSE
    /\ open' = NoBudget
    /\ UNCHANGED <<lock, api, strays, pool, pc, call>>
-----------------------------------------------------------------------------
(* shutdownConnectionLocked, and the cleanup after a failed open.          *)

\* Inside the lock, about to drop the session's entry.
Drops(c) ==
    \/ pc[c] = "inside" /\ kind[c] \in {"close", "evict", "rebind"}
    \/ pc[c] = "broken" /\ kind[c] = "pooled"

\* Where a caller goes whose teardown is over.
After(k) ==
    CASE k = "close" -> "closed"
      [] k = "rebind" -> "rebind"
      [] k = "cleanup" -> "cleared"
      [] OTHER -> "idle"

\* The entry is gone, or the sweep finds that its session came back.
Spared(c) == ~HasEntry(SessionOf[c]) \/ kind[c] = "evict"

NothingToDrop(c) ==
    /\ Drops(c) /\ Spared(c)
    /\ Leave(c, After(kind[c]))
    /\ UNCHANGED <<api, upstream, pool>>

\* The singleton is already torn down (#164): only the entry goes.
DropEntry(c) ==
    /\ Drops(c) /\ HasEntry(SessionOf[c]) /\ ~live
    /\ NotLive /\ Forget(SessionOf[c])
    /\ Leave(c, After(kind[c]))
    /\ UNCHANGED <<loads, upstream, slot>>

\* api.shutdown() under the lock, without a bound.
StartDrop(c) ==
    /\ \/ Drops(c) /\ HasEntry(SessionOf[c]) /\ live
       \/ pc[c] = "inside" /\ kind[c] = "cleanup"
    /\ Stay(c, "dropping")
    /\ UNCHANGED <<api, upstream, pool>>

\* Mutant: the drop forgets to clear the flag.
DroppedKeepsFlag(c) ==
    /\ pc[c] = "dropping" /\ kind[c] # "cleanup" /\ Quiet
    /\ ShutdownSettles
    /\ Forget(SessionOf[c])
    /\ Leave(c, After(kind[c]))
    /\ UNCHANGED <<api, slot>>

Dropped(c) ==
    /\ pc[c] = "dropping" /\ kind[c] # "cleanup" /\ Quiet
    /\ ShutdownSettles
    /\ NotLive /\ Forget(SessionOf[c])
    /\ Leave(c, After(kind[c]))
    /\ UNCHANGED <<loads, slot>>

\* The cleanup releases the lock before it clears the flag.
CleanedUp(c) ==
    /\ pc[c] = "dropping" /\ kind[c] = "cleanup" /\ Quiet
    /\ ShutdownSettles
    /\ Leave(c, After(kind[c]))
    /\ UNCHANGED <<api, pool>>

\* The lock refused: the entry is torn down without it.
NothingToTear(c) ==
    /\ pc[c] = "unlocked" /\ Spared(c)
    /\ Stay(c, After(kind[c]))
    /\ UNCHANGED <<api, upstream, pool>>

TearEntry(c) ==
    /\ pc[c] = "unlocked" /\ HasEntry(SessionOf[c]) /\ ~live
    /\ NotLive /\ Forget(SessionOf[c])
    /\ Stay(c, After(kind[c]))
    /\ UNCHANGED <<loads, upstream, slot>>

StartTear(c) ==
    /\ pc[c] = "unlocked" /\ HasEntry(SessionOf[c]) /\ live
    /\ Stay(c, "tearing")
    /\ UNCHANGED <<api, upstream, pool>>

TornDown(c) ==
    /\ pc[c] = "tearing" /\ Quiet
    /\ ShutdownSettles
    /\ NotLive /\ Forget(SessionOf[c])
    /\ Stay(c, After(kind[c]))
    /\ UNCHANGED <<loads, slot>>
-----------------------------------------------------------------------------
(* What a caller does after it has released the lock.                      *)

Opened(c) ==
    /\ pc[c] = "opened"
    /\ entry' = [entry EXCEPT ![SessionOf[c]] =
                    [server |-> ServerOf[want[c]], syncId |-> want[c]]]
    /\ Stay(c, "idle")
    /\ UNCHANGED <<api, upstream, slot>>

\* getConnection failed: take the lock again for api.shutdown().
Retreat(c) ==
    /\ pc[c] = "retreat"
    /\ Enter(c, "cleanup", DefaultBudget)
    /\ UNCHANGED <<api, upstream, pool>>

Cleared(c) ==
    /\ pc[c] = "cleared"
    /\ NotLive /\ Forget(SessionOf[c])
    /\ Stay(c, "idle")
    /\ UNCHANGED <<loads, upstream, slot>>

Reloaded(c) ==
    LET s == SessionOf[c] IN
    /\ pc[c] = "reloaded"
    /\ entry' = IF HasEntry(s) THEN [entry EXCEPT ![s].syncId = want[c]] ELSE entry
    /\ slot' = [slot EXCEPT ![s] = want[c]]
    /\ Stay(c, "idle")
    /\ UNCHANGED <<api, upstream>>

\* switchBudget's slow path: the slot, then a fresh pool entry if there is
\* room and none was made meanwhile.
Rebind(c) ==
    /\ pc[c] = "rebind"
    /\ slot' = [slot EXCEPT ![SessionOf[c]] = want[c]]
    /\ IF Stdio \/ HasEntry(SessionOf[c]) \/ ~Room
       THEN Stay(c, "idle")
       ELSE Enter(c, "open", want[c])
    /\ UNCHANGED <<api, upstream, entry>>

\* session_close clears the slot: the preference or the default applies again.
Closed(c) ==
    /\ pc[c] = "closed"
    /\ \E b \in Budgets : slot' = [slot EXCEPT ![SessionOf[c]] = b]
    /\ Stay(c, "idle")
    /\ UNCHANGED <<api, upstream, entry>>
-----------------------------------------------------------------------------
Request(c) ==
    \/ StartOp(c) \/ StartOpen(c)
    \/ \E k \in {"close", "evict"} : StartClose(c, k)
    \/ \E b \in Budgets : SwitchNoOp(c, b) \/ StartSwitch(c, b)

Selection(c) ==
    \/ Settle(c) \/ SettleTimesOut(c)
    \/ Matches(c) \/ Select(c) \/ Initialise(c) \/ InitFails(c) \/ StartImport(c)
    \/ Diagnosed(c) \/ Selected(c) \/ Initialised(c)

LoadStep(l) ==
    \/ LoadCloses(l) \/ Downloaded(l) \/ Recorded(l) \/ ImportLands(l)
    \/ LoadFails(l) \/ Diagnose(l) \/ LoadTimesOut(l)

Operation(c) ==
    \/ OpEnds(c) \/ OpTimesOut(c) \/ Finish(c)
    \/ KeepAlive(c) \/ Stop(c) \/ Stopped(c) \/ StopTimesOut(c)

Teardown(c) ==
    \/ NothingToDrop(c) \/ DropEntry(c) \/ StartDrop(c)
    \/ NothingToTear(c) \/ TearEntry(c) \/ StartTear(c)

\* The replies to the pool's unbounded api.shutdown() calls.
ShutdownReply(c) == Dropped(c) \/ CleanedUp(c) \/ TornDown(c)

Unlocked(c) ==
    \/ Opened(c) \/ Retreat(c) \/ Cleared(c) \/ Reloaded(c) \/ Rebind(c) \/ Closed(c)

\* What a call does once it has arrived, apart from waiting for those.
Proceeds(c) == Selection(c) \/ Operation(c) \/ Teardown(c) \/ Unlocked(c)

Next ==
    \/ \E c \in Callers : Request(c) \/ Proceeds(c) \/ ShutdownReply(c)
    \/ \E l \in loads : LoadStep(l)
    \/ StrayEnds \/ LateShutdownLands

Spec == Init /\ [][Next]_vars

\* The load a caller is waiting for lands, fails or times out; an abandoned
\* one may never land.
AwaitedLoad(c) == \E l \in loads : l.by = c /\ ~l.abandoned /\ LoadStep(l)

\* The event loop runs what is ready, timers bound what they bound, and the
\* mutex hands itself to every waiter in turn.
Fairness ==
    \A c \in Callers :
        /\ SF_vars(Proceeds(c))
        /\ SF_vars(AwaitedLoad(c))
        /\ SF_vars(Next /\ Mutex!Served(c))

TimerSpec == Spec /\ Fairness

\* ... and upstream answers the pool's shutdowns.
FairSpec == TimerSpec /\ \A c \in Callers : SF_vars(ShutdownReply(c))
-----------------------------------------------------------------------------
(* No operation ever runs on another session's budget: while a call is in  *)
(* its operation it holds the mutex, no load is in flight, and the budget  *)
(* open upstream is its own or none at all, whatever opens, switches,      *)
(* imports, timeouts and late landings the others cause (#390, #393).      *)
Isolation ==
    \A c \in Callers : pc[c] = "op" =>
        /\ holders = {c}
        /\ loads = {}
        /\ open \in {want[c], NoBudget}

(* The record never names a budget the singleton has moved away from: when *)
(* it names one, no load is in flight and that budget or none is open.     *)
(* A wrong name is what would let the precondition pass on someone else's  *)
(* budget (trackBudgetMutation).                                           *)
RecordHonest ==
    record # NoBudget => loads = {} /\ open \in {record, NoBudget}

(* At most one budget load is ever in flight, abandoned ones included.     *)
OneLoad == \A l, m \in loads : l = m

(* A call without a pool entry never tears the singleton down under a      *)
(* session that has one (shutdownActualApi's active-session keep-alive).   *)
SingletonKept == \A c \in Callers : pc[c] = "stopping" => Entries = {}

(* An operation finds its own budget open, not merely nobody else's: a     *)
(* shutdown never leaves a stale claim behind for the next caller to trust *)
(* (apiState.ts).                                                          *)
OpHasBudget == \A c \in Callers : pc[c] = "op" => open = want[c]

(* Every call returns, however loads and operations stall, if upstream at  *)
(* least answers the shutdowns (#270, #393).                               *)
EveryCallReturns == \A c \in Callers : pc[c] # "idle" ~> pc[c] = "idle"
=============================================================================
