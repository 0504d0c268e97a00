----------------------------- MODULE WriteQueue -----------------------------
(***************************************************************************)
(* The write queue of src/lib/actual-adapter.ts.  queueWriteOperation      *)
(* appends an entry and re-arms a debounce timer; the timer starts         *)
(* processWriteQueue, which takes every queued entry, acquires the api     *)
(* mutex once and runs the entries one after the other.                    *)
(*                                                                         *)
(* An entry's `residencyTimer` plays two parts: with the operation timeout *)
(* on it bounds how long the entry may sit in the queue, with it off how   *)
(* long the entry may wait inside a batch for an operation ahead of it.    *)
(* A promise that is settled stays as it is, however often it is settled   *)
(* again.                                                                  *)
(***************************************************************************)
EXTENDS Integers, FiniteSets, SequencesExt

CONSTANTS Writes,  \* the calls of queueWriteOperation, one entry each
          None     \* no entry

ASSUME QueueAssumption == None \notin Writes

VARIABLES queue,         \* writeQueue, oldest first
          debounce,      \* writeSessionTimeout is armed
          processing,    \* isProcessingWrites
          timers,        \* the entries whose residencyTimer is armed
          batch,         \* the entries the drain has not reached yet
          current,       \* the entry the drain has reached
          stage,         \* where processWriteQueue stands
          settledEarly,  \* the entries marked so
          stuck,         \* stuckLoadError is set
          pending,       \* an abandoned budget load is outstanding
          outcome,       \* what each caller has been told
          began,         \* the entries whose operation was invoked (history)
          ticket,        \* the order of arrival (history)
          arrivals,
          opTimeout      \* ACTUAL_OP_TIMEOUT_MS > 0, read once at the start

drain   == <<processing, batch, current, stage, stuck>>
entries == <<timers, settledEarly, outcome>>
history == <<began, ticket, arrivals>>
vars    == <<queue, debounce, pending, drain, entries, history, opTimeout>>

Stages == {"idle", "locking", "looping", "settling", "running", "closing"}

\* "failed": the operation itself threw or outran its bound.  "refused": every
\* rejection of an entry whose operation was not invoked.
Outcomes == {"new", "pending", "resolved", "failed", "refused"}

TypeOK ==
    /\ queue \in Seq(Writes) /\ batch \in Seq(Writes)
    /\ debounce \in BOOLEAN /\ processing \in BOOLEAN
    /\ stuck \in BOOLEAN /\ pending \in BOOLEAN
    /\ timers \in SUBSET Writes /\ settledEarly \in SUBSET Writes
    /\ current \in Writes \cup {None}
    /\ stage \in Stages
    /\ outcome \in [Writes -> Outcomes]
    /\ began \in SUBSET Writes /\ opTimeout \in BOOLEAN
    /\ ticket \in [Writes -> Nat] /\ arrivals \in Nat

Init ==
    /\ queue = <<>> /\ debounce = FALSE /\ pending = FALSE
    /\ processing = FALSE /\ batch = <<>> /\ current = None
    /\ stage = "idle" /\ stuck = FALSE
    /\ timers = {} /\ settledEarly = {}
    /\ outcome = [w \in Writes |-> "new"]
    /\ began = {} /\ opTimeout \in BOOLEAN
    /\ ticket = [w \in Writes |-> 0] /\ arrivals = 0
-----------------------------------------------------------------------------
Told(w, o) == outcome' = [outcome EXCEPT ![w] = IF @ = "pending" THEN o ELSE @]

\* batch.forEach(reject)
RejectAll(S) ==
    outcome' = [w \in Writes |->
                   IF w \in S /\ outcome[w] = "pending" THEN "refused" ELSE outcome[w]]

\* Mutant: the newest entry goes first.
EnqueueFirst(w) ==
    /\ outcome[w] = "new"
    /\ outcome' = [outcome EXCEPT ![w] = "pending"]
    /\ queue' = <<w>> \o queue
    /\ timers' = IF opTimeout THEN timers \cup {w} ELSE timers
    /\ debounce' = TRUE
    /\ arrivals' = arrivals + 1
    /\ ticket' = [ticket EXCEPT ![w] = arrivals + 1]
    /\ UNCHANGED <<pending, drain, settledEarly, began, opTimeout>>

\* queueWriteOperation and scheduleWriteQueueDrain.
Enqueue(w) ==
    /\ outcome[w] = "new"
    /\ outcome' = [outcome EXCEPT ![w] = "pending"]
    /\ queue' = Append(queue, w)
    /\ timers' = IF opTimeout THEN timers \cup {w} ELSE timers
    /\ debounce' = TRUE
    /\ arrivals' = arrivals + 1
    /\ ticket' = [ticket EXCEPT ![w] = arrivals + 1]
    /\ UNCHANGED <<pending, drain, settledEarly, began, opTimeout>>

\* Mutant: the rejected entry stays in the queue.
ResidencyKeepsEntry(w) ==
    /\ w \in timers
    /\ \E i \in 1..Len(queue) : queue[i] = w
    /\ timers' = timers \ {w}
    /\ Told(w, "refused")
    /\ UNCHANGED <<queue, debounce, pending, drain, settledEarly, history, opTimeout>>

\* The entry was not dispatched within its bound.
ResidencyExpires(w) ==
    /\ w \in timers
    /\ \E i \in 1..Len(queue) : queue[i] = w /\ queue' = RemoveAt(queue, i)
    /\ timers' = timers \ {w}
    /\ Told(w, "refused")
    /\ UNCHANGED <<debounce, pending, drain, settledEarly, history, opTimeout>>
-----------------------------------------------------------------------------
(* processWriteQueue                                                       *)

\* Mutant: a batch is not given its stranded bound.
DispatchUnbounded ==
    /\ processing' = TRUE
    /\ batch' = queue /\ queue' = <<>>
    /\ timers' = timers \ ToSet(queue)
    /\ stage' = "locking" /\ stuck' = FALSE
    /\ UNCHANGED current

\* Every queued entry is taken, its residency bound is cleared and, with the
\* operation timeout off, its stranded bound is armed.
Dispatch ==
    /\ processing' = TRUE
    /\ batch' = queue /\ queue' = <<>>
    /\ timers' = IF opTimeout THEN timers \ ToSet(queue) ELSE ToSet(queue)
    /\ stage' = "locking" /\ stuck' = FALSE
    /\ UNCHANGED current

\* Mutant: a drain that is running does not keep another one from starting.
DebounceIgnoresDrain ==
    /\ debounce
    /\ debounce' = FALSE
    /\ IF queue = <<>> THEN UNCHANGED <<queue, timers, drain>> ELSE Dispatch
    /\ UNCHANGED <<pending, settledEarly, outcome, history, opTimeout>>

DebounceFires ==
    /\ debounce
    /\ debounce' = FALSE
    /\ IF processing \/ queue = <<>> THEN UNCHANGED <<queue, timers, drain>> ELSE Dispatch
    /\ UNCHANGED <<pending, settledEarly, outcome, history, opTimeout>>

\* clearStrandedBounds and the finally.
EndDrain ==
    /\ processing' = FALSE /\ stage' = "idle" /\ batch' = <<>>
    /\ timers' = timers \cap ToSet(queue)
    /\ debounce' = (debounce \/ queue # <<>>)
    /\ UNCHANGED <<queue, current, stuck>>

\* The mutex is granted once no load is pending; the legacy branch initialises
\* the singleton, the pool branch does not.
LockGranted ==
    /\ stage = "locking" /\ ~pending
    /\ stage' = "looping"
    /\ UNCHANGED <<queue, debounce, pending, processing, batch, current, stuck, entries,
                   history, opTimeout>>

\* A fatal error before the loop: the whole batch is rejected.
InitFails ==
    /\ stage = "locking" /\ ~pending
    /\ RejectAll(ToSet(batch))
    /\ batch' = <<>> /\ stage' = "closing"
    /\ pending' \in {FALSE, opTimeout}
    /\ UNCHANGED <<queue, debounce, processing, current, stuck, timers, settledEarly,
                   history, opTimeout>>

\* Mutant: nobody tells the batch.
LockRefusedSilently ==
    /\ stage = "locking" /\ pending /\ opTimeout
    /\ EndDrain
    /\ UNCHANGED <<outcome, pending, settledEarly, history, opTimeout>>

\* The bounded wait for an abandoned load throws: withApiLock rejects.
LockRefused ==
    /\ stage = "locking" /\ pending /\ opTimeout
    /\ RejectAll(ToSet(batch))
    /\ EndDrain
    /\ UNCHANGED <<pending, settledEarly, history, opTimeout>>

Acquires == LockGranted \/ InitFails \/ LockRefused

\* The loop reaches its next entry, and the bound of the others starts again.
Reaches(w) ==
    /\ stage = "looping" /\ batch # <<>> /\ w = Head(batch)
    /\ batch' = Tail(batch)
    /\ timers' = IF opTimeout THEN timers \ {w}
                 ELSE (timers \ {w}) \cup (ToSet(Tail(batch)) \ settledEarly)

Skips(w) == w \in settledEarly

FailsFast(w) == ~Skips(w) /\ stuck /\ pending

SkipEntry(w) ==
    /\ Reaches(w) /\ Skips(w)
    /\ UNCHANGED <<queue, debounce, pending, processing, current, stage, stuck,
                   settledEarly, outcome, history, opTimeout>>

\* hasPendingBudgetLoad() after a wait that timed out.
FailFast(w) ==
    /\ Reaches(w) /\ FailsFast(w)
    /\ Told(w, "refused")
    /\ UNCHANGED <<queue, debounce, pending, processing, current, stage, stuck,
                   settledEarly, history, opTimeout>>

StartEntry(w) ==
    /\ Reaches(w) /\ ~Skips(w) /\ ~FailsFast(w)
    /\ current' = w /\ stage' = "settling"
    /\ UNCHANGED <<queue, debounce, pending, processing, stuck, settledEarly, outcome,
                   history, opTimeout>>

\* The entry is done with, and told so.
Finishes(o) ==
    /\ Told(current, o)
    /\ current' = None /\ stage' = "looping"
    /\ UNCHANGED <<queue, debounce, processing, batch, timers, settledEarly>>

\* awaitAbandonedBudgetLoad, bounded.
SettleTimesOut ==
    /\ stage = "settling" /\ pending /\ opTimeout
    /\ stuck' = TRUE
    /\ Finishes("refused")
    /\ UNCHANGED <<pending, history, opTimeout>>

\* ensureLoadedBudgetMatchesSession threw, perhaps abandoning its load.
SelectFails ==
    /\ stage = "settling" /\ ~pending
    /\ pending' \in {FALSE, opTimeout}
    /\ Finishes("refused")
    /\ UNCHANGED <<stuck, history, opTimeout>>

\* Mutant: the operation does not wait for an abandoned load.
SelectsUnsettled ==
    /\ stage = "settling"
    /\ stage' = "running"
    /\ began' = began \cup {current}
    /\ UNCHANGED <<queue, debounce, pending, processing, batch, current, stuck, entries,
                   ticket, arrivals, opTimeout>>

\* No load is pending and the budget is this entry's: the operation starts.
Selects ==
    /\ stage = "settling" /\ ~pending
    /\ stage' = "running"
    /\ began' = began \cup {current}
    /\ UNCHANGED <<queue, debounce, pending, processing, batch, current, stuck, entries,
                   ticket, arrivals, opTimeout>>

OpEnds ==
    /\ stage = "running"
    /\ \E o \in {"resolved", "failed"} : Finishes(o)
    /\ UNCHANGED <<pending, stuck, began, ticket, arrivals, opTimeout>>

\* withOpTimeout rejects and cancels nothing.  An import has a bound of its
\* own, and leaves its load behind.
OpTimesOut ==
    /\ stage = "running"
    /\ pending' \in {TRUE} \cup (IF opTimeout THEN {pending} ELSE {})
    /\ Finishes("failed")
    /\ UNCHANGED <<stuck, history, opTimeout>>

Serves == SettleTimesOut \/ SelectFails \/ Selects \/ OpEnds \/ OpTimesOut

LoopEnds ==
    /\ stage = "looping" /\ batch = <<>>
    /\ stage' = "closing"
    /\ UNCHANGED <<queue, debounce, pending, processing, batch, current, stuck, entries,
                   history, opTimeout>>

\* The trailing sync and, on the legacy branch, the shutdown.
Closes ==
    /\ stage = "closing"
    /\ EndDrain
    /\ UNCHANGED <<pending, settledEarly, outcome, history, opTimeout>>
-----------------------------------------------------------------------------
(* Timers and the world outside.                                           *)

\* An operation ahead of this entry has run for the whole bound.
StrandedExpires(w) ==
    /\ ~opTimeout /\ w \in timers
    /\ timers' = timers \ {w}
    /\ Told(w, "refused")
    /\ settledEarly' = settledEarly \cup {w}
    /\ UNCHANGED <<queue, debounce, pending, drain, history, opTimeout>>

LoadLands ==
    /\ pending
    /\ pending' = FALSE
    /\ UNCHANGED <<queue, debounce, drain, entries, history, opTimeout>>

\* Another holder of the mutex abandons a load.
LoadLeft ==
    /\ stage \in {"idle", "locking"} /\ ~pending
    /\ pending' = TRUE
    /\ UNCHANGED <<queue, debounce, drain, entries, history, opTimeout>>

-----------------------------------------------------------------------------
Loops(w) == SkipEntry(w) \/ FailFast(w) \/ StartEntry(w)

Expires(w) == ResidencyExpires(w) \/ StrandedExpires(w)

Next ==
    \/ \E w \in Writes : Enqueue(w) \/ Loops(w) \/ Expires(w)
    \/ DebounceFires
    \/ Acquires \/ Serves \/ LoopEnds \/ Closes
    \/ LoadLands \/ LoadLeft

Spec == Init /\ [][Next]_vars

\* Timers fire and the loop goes on.  With the operation timeout on, the mutex
\* comes (Adapter's EveryCallReturns) and every wait of an operation is bounded.
\* Nothing bounds the pool's shutdown at the end, so Closes is not fair.
Fairness ==
    /\ WF_vars(DebounceFires) /\ WF_vars(LoopEnds)
    /\ \A w \in Writes : WF_vars(Expires(w)) /\ WF_vars(Loops(w))
    /\ WF_vars(opTimeout /\ Acquires) /\ WF_vars(opTimeout /\ Serves)

FairSpec == Spec /\ Fairness
-----------------------------------------------------------------------------
(* A caller that was told its write did not run can retry it safely: the   *)
(* operation was not invoked before and never will be (the residency       *)
(* error promises that no data was modified).                              *)
NeverRanHonest == \A w \in Writes : outcome[w] = "refused" => w \notin began

(* Operations start in the order their calls arrived, and only when every  *)
(* earlier one has been settled: what the read-then-write guards of the    *)
(* adapter rely on (#378).                                                 *)
InOrder ==
    \A v, w \in Writes :
        w \in began /\ v # w /\ 0 < ticket[v] /\ ticket[v] < ticket[w]
            => outcome[v] # "pending"

(* A queued entry always has something that will dispatch it: the debounce *)
(* timer, or a drain whose end schedules one (the lost wakeup of #278).    *)
NoLostWakeup == queue # <<>> => debounce \/ processing

(* A call whose promise is open is still somewhere the queue will meet it. *)
NobodyForgotten ==
    \A w \in Writes : outcome[w] = "pending" =>
        w \in ToSet(queue) \cup ToSet(batch) \cup {current}

(* No operation of a batch runs while a load that an earlier one abandoned *)
(* is still to move the singleton (#406).                                  *)
NoLoadUnderOperation == stage = "running" => ~pending

(* With the operation timeout on, every write is settled, whatever stalls. *)
EveryWriteSettles ==
    \A w \in Writes : opTimeout /\ outcome[w] = "pending" ~> outcome[w] # "pending"

(* An entry of a batch is reached by the loop or rejected, however long    *)
(* the operation ahead of it runs, with the operation timeout off too      *)
(* (#389).                                                                 *)
BatchNeverStranded ==
    \A w \in Writes : w \in ToSet(batch) ~> (w \notin ToSet(batch) \/ outcome[w] # "pending")
=============================================================================
