--------------------------- MODULE AdapterProofs ----------------------------
(***************************************************************************)
(* Theorems about Adapter for every set of callers, sessions and budgets,  *)
(* every assignment of servers and every set of upstream faults.           *)
(*                                                                         *)
(* Isolation, RecordHonest and OneLoad rest on one inductive invariant     *)
(* with four parts: who owns the mutex (Owned), what a load in flight      *)
(* means for everybody (LoadsTracked), what the record means (RecordHonest *)
(* itself) and what a call knows once its budget was selected (Chosen).    *)
(*                                                                         *)
(* OpHasBudget does not hold under every fault; the last section proves it *)
(* under those it holds under (Calm).                                      *)
(***************************************************************************)
EXTENDS Adapter, TLAPS

\* The phases a call passes inside the mutex, once it has settled.
InLock == Loading \cup {"inside", "diagnosing", "selected", "initialised", "op", "done",
                        "failed", "broken", "stopping", "dropping"}

\* The phases in which no load can be in flight.
Settled == {"inside", "selected", "initialised", "op", "done"}

\* The phases after the call has selected its own budget.
OnBudget == {"selected", "initialised", "op"}

Owned ==
    /\ \A c, d \in holders : c = d
    /\ \A c \in Callers : pc[c] \in InLock => holders = {c}

LoadsTracked ==
    /\ \A l, m \in loads : l = m
    /\ \A c \in Callers : pc[c] \in Settled => loads = {}
    /\ \A l \in loads : ~l.abandoned =>
          /\ pc[l.by] \in Loading
          /\ l.target = IF pc[l.by] = "importing" THEN Imported ELSE want[l.by]
    /\ \A l \in loads : l.stage = "probing" =>
          l.target # Imported /\ open \in {l.target, NoBudget}

Chosen ==
    \A c \in Callers : pc[c] \in OnBudget => open \in {want[c], NoBudget}

IInv == Owned /\ LoadsTracked /\ RecordHonest /\ Chosen

\* The phases a call only reaches in the mutex after a reply from upstream.
Replied == {"selected", "initialised", "diagnosing", "done", "failed", "broken", "stopping"}

\* Nobody is about to add a pool entry while another call is that far.
NoneOpening ==
    \A c, d \in Callers : pc[c] = "opened" => pc[d] \notin Replied

KInv == NoneOpening /\ SingletonKept
-----------------------------------------------------------------------------
(* How the helpers move a call: only c's phase and locals change, and the  *)
(* mutex stays owned as its phases say.                                    *)

\* c goes to the phase `next`, and the others keep their budget.
Step(c, next) ==
    /\ pc' = [pc EXCEPT ![c] = next]
    /\ \A d \in Callers : d # c => want'[d] = want[d]
    /\ next # "idle" => want'[c] = want[c]

LEMMA GoesStep ==
    ASSUME TypeOK, NEW c \in Callers, NEW next, Goes(c, next)
    PROVE  Step(c, next)
BY DEF Goes, Step, TypeOK

LEMMA EnterStep ==
    ASSUME TypeOK, Owned, NEW c \in Callers, NEW k, NEW b, Enter(c, k, b)
    PROVE  /\ pc' = [pc EXCEPT ![c] = "locking"]
           /\ \A d \in Callers : d # c => want'[d] = want[d]
           /\ Owned'
<1>1. \/ holders = {} /\ holders' = {c}
      \/ holders' = holders
  BY DEF Enter, Mutex!Take, Mutex!Wait
<1>2. pc' = [pc EXCEPT ![c] = "locking"] /\ "locking" \notin InLock
  BY DEF Enter, InLock, Loading
<1> QED
  BY <1>1, <1>2 DEF Enter, Owned, TypeOK

LEMMA LeaveStep ==
    ASSUME TypeOK, Owned, NEW c \in Callers, NEW next, next \notin InLock, Leave(c, next)
    PROVE  Step(c, next) /\ Owned'
<1>1. holders = {c} /\ (holders' = {} \/ \E w \in Callers : holders' = {w})
  BY DEF Leave, Mutex!Release, Mutex!HandOver
<1>2. Goes(c, next)
  BY DEF Leave
<1> QED
  BY <1>1, <1>2, GoesStep DEF Goes, Owned, TypeOK

LEMMA StayStep ==
    ASSUME TypeOK, Owned, NEW c \in Callers, NEW next, Stay(c, next),
           next \in InLock => holders = {c}
    PROVE  Step(c, next) /\ Owned'
<1>1. Goes(c, next) /\ holders' = holders
  BY DEF Stay, lock
<1> QED
  BY <1>1, GoesStep DEF Goes, Owned, TypeOK

LEMMA PicksStep ==
    ASSUME TypeOK, Owned, NEW c \in Callers, NEW next, Picks(c, next), holders = {c}
    PROVE  /\ pc' = [pc EXCEPT ![c] = next]
           /\ want' = [want EXCEPT ![c] = Needs(c)]
           /\ Owned'
<1>1. holders' = holders
  BY DEF Picks, lock
<1> QED
  BY <1>1 DEF Picks, Owned, TypeOK
-----------------------------------------------------------------------------
(* What a step has to respect for the invariant to survive it.             *)

\* A step that leaves the loads alone, and at most clears the record or
\* closes the budget.
LEMMA CallMoves ==
    ASSUME TypeOK, IInv, Owned', NEW c \in Callers, NEW next,
           pc' = [pc EXCEPT ![c] = next],
           \A d \in Callers : d # c => want'[d] = want[d],
           loads' = loads, record' \in {record, NoBudget}, open' \in {open, NoBudget},
           pc[c] \notin Loading, next \notin Loading,
           next \in Settled => loads = {},
           next \in OnBudget => open \in {want'[c], NoBudget}
    PROVE  IInv'
<1>1. LoadsTracked'
  <2>1. \A d \in Callers : pc'[d] \in Settled => loads' = {}
    BY DEF TypeOK, IInv, LoadsTracked
  <2>2. \A l \in loads' : ~l.abandoned => l.by \in Callers /\ l.by # c
    BY DEF TypeOK, IInv, LoadsTracked, Load
  <2> QED
    BY <2>1, <2>2 DEF TypeOK, IInv, LoadsTracked
<1>2. RecordHonest'
  BY DEF IInv, RecordHonest
<1>3. Chosen'
  BY DEF TypeOK, IInv, Chosen
<1> QED
  BY <1>1, <1>2, <1>3 DEF IInv

\* A step that changes no part of the state the invariant is about.
LEMMA NothingMoves ==
    ASSUME IInv, UNCHANGED <<holders, pc, loads, record, want>>, open' \in {open, NoBudget}
    PROVE  IInv'
BY DEF IInv, Owned, LoadsTracked, RecordHonest, Chosen

\* A step of the mutex's owner that starts a load: nobody else is past Settle.
LEMMA TrackMoves ==
    ASSUME TypeOK, IInv, Owned', NEW c \in Callers, NEW next \in Loading, NEW target,
           pc[c] \in Settled, pc' = [pc EXCEPT ![c] = next],
           \A d \in Callers : d # c => want'[d] = want[d],
           target = IF next = "importing" THEN Imported ELSE want'[c],
           Track(c, target), open' = open
    PROVE  IInv'
<1> DEFINE new == [by |-> c, target |-> target, stage |-> "closing", abandoned |-> FALSE]
<1>1. loads' = {new} /\ record' = NoBudget
  BY DEF IInv, LoadsTracked, Track
<1>2. \A d \in Callers : d # c => pc'[d] \notin InLock
  BY DEF TypeOK, IInv, Owned, InLock, Settled
<1>3. pc'[c] = next /\ next \notin Settled /\ next \notin OnBudget
  BY DEF TypeOK, Loading, Settled, OnBudget
<1>4. LoadsTracked'
  BY <1>1, <1>2, <1>3 DEF LoadsTracked, InLock, Settled
<1>5. RecordHonest'
  BY <1>1 DEF RecordHonest
<1>6. Chosen'
  BY <1>2, <1>3 DEF Chosen, InLock, OnBudget
<1> QED
  BY <1>4, <1>5, <1>6 DEF IInv
-----------------------------------------------------------------------------
(* The steps of a load keep the invariant.                                 *)

\* While a load is in flight it is the only one, nobody is past Settle, and
\* the mutex belongs to the call that waits for it, if that call still does.
LEMMA InFlight ==
    ASSUME TypeOK, IInv, NEW l \in loads
    PROVE  /\ loads = {l} /\ l \in Load /\ l.by \in Callers /\ record = NoBudget
           /\ \A c \in Callers : pc[c] \notin Settled
           /\ ~l.abandoned =>
                 /\ pc[l.by] \in Loading /\ holders = {l.by}
                 /\ l.target = IF pc[l.by] = "importing" THEN Imported ELSE want[l.by]
           /\ l.stage = "probing" => l.target # Imported /\ open \in {l.target, NoBudget}
<1>1. l \in Load /\ l.by \in Callers
  BY DEF TypeOK, Load
<1>2. loads = {l} /\ record = NoBudget
  BY DEF IInv, LoadsTracked, RecordHonest
<1> QED
  BY <1>1, <1>2 DEF IInv, LoadsTracked, Owned, InLock

\* The load goes on: it keeps its caller and its target, and the record stays
\* empty.  The caller stays where it is unless the load is abandoned.
LEMMA LoadGoesOn ==
    ASSUME TypeOK, IInv, Owned', NEW l \in loads, NEW m,
           loads' = {m}, m.by = l.by, m.target = l.target,
           m.stage = "probing" => l.target # Imported /\ open' \in {l.target, NoBudget},
           ~m.abandoned => ~l.abandoned /\ pc' = pc,
           \A c \in Callers : pc'[c] \notin Settled,
           record' = NoBudget, want' = want
    PROVE  IInv'
<1>1. LoadsTracked'
  BY InFlight DEF LoadsTracked
<1>2. RecordHonest' /\ Chosen'
  BY DEF RecordHonest, Chosen, OnBudget, Settled
<1> QED
  BY <1>1, <1>2 DEF IInv

\* The load is over, and at most its own caller learns of it.
LEMMA LoadEnds ==
    ASSUME TypeOK, IInv, Owned', NEW l \in loads,
           loads' = {}, want' = want,
           record' # NoBudget => open' \in {record', NoBudget},
           \A c \in Callers : pc'[c] \in OnBudget =>
               c = l.by /\ open' \in {want[c], NoBudget}
    PROVE  IInv'
BY DEF IInv, LoadsTracked, RecordHonest, Chosen

LEMMA ReportsOwned ==
    ASSUME TypeOK, IInv, NEW l \in loads, NEW next, Reports(l, next)
    PROVE  /\ Owned' /\ want' = want
           /\ \A c \in Callers : pc'[c] \in Settled => c = l.by /\ ~l.abandoned /\ next = pc'[c]
<1>1. holders' = holders /\ want' = want
  BY DEF Reports, lock, call
<1> QED
  BY <1>1, InFlight DEF Reports, IInv, Owned, TypeOK

LEMMA LoadStepKeeps ==
    ASSUME TypeOK, IInv, NEW l \in loads, LoadStep(l)
    PROVE  IInv'
<1> USE InFlight
<1>1. CASE LoadCloses(l)
  <2> DEFINE m == [l EXCEPT !.stage = "opening"]
  <2>1. /\ loads' = {m} /\ open' = NoBudget
        /\ UNCHANGED <<holders, pc, record, want>>
    BY <1>1 DEF LoadCloses, MovesTo, lock, call
  <2>2. m.by = l.by /\ m.target = l.target /\ m.stage = "opening" /\ m.abandoned = l.abandoned
    BY DEF Load
  <2>3. Owned'
    BY <2>1 DEF IInv, Owned
  <2> HIDE DEF m
  <2> QED
    BY <2>1, <2>2, <2>3, LoadGoesOn
<1>2. CASE Downloaded(l)
  <2> DEFINE m == [l EXCEPT !.stage = "probing"]
  <2>1. /\ l.target # Imported /\ open' \in {l.target, NoBudget}
        /\ UNCHANGED <<holders, pc, record, want>>
    BY <1>2 DEF Downloaded, lock, call
  <2>2. m.by = l.by /\ m.target = l.target /\ m.abandoned = l.abandoned
    BY DEF Load
  <2>3. Owned'
    BY <2>1 DEF IInv, Owned
  <2>4. CASE l.abandoned
    <3>1. loads' = {}
      BY <1>2, <2>4 DEF Downloaded
    <3> QED
      BY <2>1, <2>3, <3>1, LoadEnds DEF OnBudget, Settled
  <2>5. CASE ~l.abandoned
    <3>1. loads' = {m}
      BY <1>2, <2>5 DEF Downloaded, MovesTo
    <3> HIDE DEF m
    <3> QED
      BY <2>1, <2>2, <2>3, <2>5, <3>1, LoadGoesOn
  <2> QED
    BY <2>4, <2>5
<1>3. CASE Recorded(l)
  <2> DEFINE next == IF pc[l.by] = "initialising" THEN "initialised" ELSE "selected"
  <2>1. /\ l.target # Imported /\ open = l.target /\ open' = open
        /\ record' = (IF l.abandoned THEN record ELSE l.target)
        /\ loads' = {} /\ Reports(l, next)
    BY <1>3 DEF Recorded, upstream
  <2>2. \A c \in Callers : pc'[c] \in OnBudget => c = l.by /\ open' = want[c]
    BY <2>1, ReportsOwned DEF OnBudget, Settled
  <2> QED
    BY <2>1, <2>2, ReportsOwned, LoadEnds
<1>4. CASE ImportLands(l)
  <2>1. /\ open' = Imported /\ record' \in {record, Imported}
        /\ loads' = {} /\ Reports(l, "done")
    BY <1>4 DEF ImportLands
  <2>2. \A c \in Callers : pc'[c] \notin OnBudget
    BY <2>1, ReportsOwned DEF OnBudget, Settled
  <2> QED
    BY <2>1, <2>2, ReportsOwned, LoadEnds
<1>5. CASE LoadFails(l)
  <2>1. record' = NoBudget /\ loads' = {} /\ \E f \in Failure : Reports(l, f)
    BY <1>5 DEF LoadFails, NotLive
  <2>2. PICK f \in Failure : Reports(l, f)
    BY <2>1
  <2>3. \A c \in Callers : pc'[c] \notin OnBudget
    BY <2>2, ReportsOwned DEF OnBudget, Settled, Failure
  <2> QED
    BY <2>1, <2>2, <2>3, ReportsOwned, LoadEnds
<1>6. CASE Diagnose(l)
  <2> DEFINE m == [l EXCEPT !.stage = "closing", !.abandoned = TRUE]
  <2>1. /\ loads' = {m} /\ record' = NoBudget /\ ~l.abandoned
        /\ Stay(l.by, "diagnosing")
    BY <1>6 DEF Diagnose, NotLive
  <2>2. m.by = l.by /\ m.target = l.target /\ m.stage = "closing" /\ m.abandoned
    BY DEF Load
  <2>3. Step(l.by, "diagnosing") /\ Owned'
    BY <2>1, StayStep DEF IInv
  <2>4. want' = want /\ \A c \in Callers : pc'[c] \notin Settled
    BY <2>1, <2>3 DEF Stay, Goes, Step, TypeOK, Settled
  <2> HIDE DEF m
  <2> QED
    BY <2>1, <2>2, <2>3, <2>4, LoadGoesOn
<1>7. CASE LoadTimesOut(l)
  <2> DEFINE m == [l EXCEPT !.abandoned = TRUE]
  <2>1. /\ loads' = {m} /\ ~l.abandoned /\ UNCHANGED <<record, open>>
        /\ \E f \in Failure : Stay(l.by, f)
    BY <1>7 DEF LoadTimesOut, InfraFailures, upstream
  <2>2. m.by = l.by /\ m.target = l.target /\ m.stage = l.stage /\ m.abandoned
    BY DEF Load
  <2>3. PICK f \in Failure : Stay(l.by, f)
    BY <2>1
  <2>4. Step(l.by, f) /\ Owned'
    BY <2>1, <2>3, StayStep DEF IInv
  <2>5. want' = want /\ \A c \in Callers : pc'[c] \notin Settled
    BY <2>3, <2>4 DEF Stay, Goes, Step, TypeOK, Settled, Failure
  <2> HIDE DEF m
  <2> QED
    BY <2>1, <2>2, <2>4, <2>5, LoadGoesOn
<1> QED
  BY <1>1, <1>2, <1>3, <1>4, <1>5, <1>6, <1>7 DEF LoadStep
-----------------------------------------------------------------------------
(* The steps of the calls keep the invariant.                              *)

LEMMA EnterMoves ==
    ASSUME TypeOK, IInv, NEW c \in Callers, NEW k, NEW b, Enter(c, k, b),
           pc[c] \notin Loading, UNCHANGED <<loads, record, open>>
    PROVE  IInv'
<1>1. "locking" \notin Loading \cup Settled \cup OnBudget
  BY DEF Loading, Settled, OnBudget
<1> QED
  BY <1>1, EnterStep, CallMoves DEF IInv

LEMMA LeaveMoves ==
    ASSUME TypeOK, IInv, NEW c \in Callers, NEW next, next \notin InLock, Leave(c, next),
           pc[c] \notin Loading, loads' = loads,
           record' \in {record, NoBudget}, open' \in {open, NoBudget}
    PROVE  IInv'
<1>1. next \notin Loading \cup Settled \cup OnBudget
  BY DEF Loading, Settled, OnBudget, InLock
<1> QED
  BY <1>1, LeaveStep, CallMoves DEF IInv, Step

LEMMA StayMoves ==
    ASSUME TypeOK, IInv, NEW c \in Callers, NEW next, Stay(c, next),
           pc[c] \notin Loading, next \notin Loading,
           next \in InLock => holders = {c},
           next \in Settled => loads = {},
           next \in OnBudget => open \in {want[c], NoBudget},
           loads' = loads, record' \in {record, NoBudget}, open' \in {open, NoBudget}
    PROVE  IInv'
<1>1. next \in OnBudget => next # "idle"
  BY DEF OnBudget
<1> QED
  BY <1>1, StayStep, CallMoves DEF IInv, Step

LEMMA RequestKeeps ==
    ASSUME TypeOK, IInv, NEW c \in Callers, Request(c)
    PROVE  IInv'
<1> USE DEF Loading
<1>1. CASE StartOp(c)
  BY <1>1, EnterMoves DEF StartOp, api, upstream
<1>2. CASE StartOpen(c)
  BY <1>2, EnterMoves DEF StartOpen, api, upstream
<1>3. ASSUME NEW k, StartClose(c, k) PROVE IInv'
  BY <1>3, EnterMoves DEF StartClose, api, upstream
<1>4. ASSUME NEW b, SwitchNoOp(c, b) PROVE IInv'
  BY <1>4, NothingMoves DEF SwitchNoOp, lock, api, upstream, call
<1>5. ASSUME NEW b, StartSwitch(c, b) PROVE IInv'
  BY <1>5, EnterMoves DEF StartSwitch, api, upstream
<1> QED
  BY <1>1, <1>2, <1>3, <1>4, <1>5 DEF Request

\* What the invariant says of a single call.
LEMMA AtWork ==
    ASSUME TypeOK, IInv, NEW c \in Callers
    PROVE  /\ pc[c] \in InLock => holders = {c}
           /\ c \in holders => holders = {c}
           /\ pc[c] \in Settled => loads = {}
           /\ pc[c] \in OnBudget => open \in {want[c], NoBudget}
BY DEF IInv, Owned, LoadsTracked, Chosen

LEMMA NeedsBudget ==
    ASSUME TypeOK, NEW c \in Callers
    PROVE  Needs(c) \in Budgets /\ Needs(c) # NoBudget
BY AdapterAssumption DEF TypeOK, Needs

\* The mutex is not held where a refused call or a finished teardown goes on.
LEMMA OutOfLock == \A k : Refused(k) \notin InLock /\ After(k) \notin InLock
BY DEF Refused, After, InLock, Loading

LEMMA SelectionKeeps ==
    ASSUME TypeOK, IInv, NEW c \in Callers, Selection(c)
    PROVE  IInv'
<1> USE AtWork
<1>1. CASE Settle(c)
  BY <1>1, StayMoves DEF Settle, api, upstream, Loading, OnBudget
<1>2. CASE SettleTimesOut(c)
  BY <1>2, LeaveMoves, OutOfLock DEF SettleTimesOut, api, upstream, Loading
<1>3. CASE Matches(c)
  <2>1. /\ pc[c] = "inside" /\ record = Needs(c) /\ Picks(c, "op")
        /\ UNCHANGED <<loads, record, open>>
    BY <1>3 DEF Matches, api, upstream
  <2>2. holders = {c} /\ loads = {} /\ open \in {Needs(c), NoBudget}
    BY <2>1, NeedsBudget DEF InLock, Settled, IInv, RecordHonest
  <2>3. /\ pc' = [pc EXCEPT ![c] = "op"] /\ want' = [want EXCEPT ![c] = Needs(c)]
        /\ Owned'
    BY <2>1, <2>2, PicksStep DEF IInv
  <2>4. want'[c] = Needs(c) /\ \A d \in Callers : d # c => want'[d] = want[d]
    BY <2>3 DEF TypeOK
  <2> QED
    BY <2>1, <2>2, <2>3, <2>4, CallMoves DEF Loading
<1>4. ASSUME NEW next \in {"selecting", "initialising"},
             pc[c] = "inside", Picks(c, next), Track(c, Needs(c)), open' = open
      PROVE  IInv'
  <2>1. holders = {c} /\ pc[c] \in Settled
    BY <1>4 DEF InLock, Settled
  <2>2. /\ pc' = [pc EXCEPT ![c] = next] /\ want' = [want EXCEPT ![c] = Needs(c)]
        /\ Owned'
    BY <1>4, <2>1, PicksStep DEF IInv
  <2>3. want'[c] = Needs(c) /\ \A d \in Callers : d # c => want'[d] = want[d]
    BY <2>2 DEF TypeOK
  <2>4. next \in Loading /\ next # "importing"
    BY DEF Loading
  <2> QED
    BY <1>4, <2>1, <2>2, <2>3, <2>4, TrackMoves
<1>5. CASE Select(c)
  BY <1>5, <1>4 DEF Select, upstream
<1>6. CASE Initialise(c)
  BY <1>6, <1>4 DEF Initialise, upstream
<1>7. CASE InitFails(c)
  <2>1. PICK f \in Failure : Stay(c, f)
    BY <1>7 DEF InitFails
  <2>2. holders = {c} /\ pc[c] = "inside"
    BY <1>7 DEF InitFails, InLock
  <2> QED
    BY <1>7, <2>1, <2>2, StayMoves
    DEF InitFails, api, upstream, Failure, Loading, Settled, OnBudget
<1>8. CASE StartImport(c)
  <2>1. /\ pc[c] = "op" /\ Track(c, Imported) /\ Stay(c, "importing") /\ open' = open
    BY <1>8 DEF StartImport, upstream
  <2>2. holders = {c} /\ pc[c] \in Settled
    BY <2>1 DEF InLock, Settled
  <2>3. Step(c, "importing") /\ Owned'
    BY <2>1, <2>2, StayStep DEF IInv
  <2> QED
    BY <2>1, <2>2, <2>3, TrackMoves DEF Step, Loading
<1>9. CASE Diagnosed(c)
  <2>1. PICK f \in Failure : Stay(c, f)
    BY <1>9 DEF Diagnosed
  <2>2. holders = {c} /\ pc[c] = "diagnosing"
    BY <1>9 DEF Diagnosed, InLock
  <2> QED
    BY <1>9, <2>1, <2>2, StayMoves
    DEF Diagnosed, upstream, Failure, Loading, Settled, OnBudget
<1>10. CASE Selected(c)
  <2>1. pc[c] = "selected" /\ UNCHANGED <<loads, record, open>>
    BY <1>10 DEF Selected, api, upstream
  <2>2. holders = {c} /\ loads = {} /\ open \in {want[c], NoBudget}
    BY <2>1 DEF InLock, Settled, OnBudget
  <2>3. Leave(c, "reloaded") \/ Stay(c, "op")
    BY <1>10 DEF Selected
  <2> QED
    BY <2>1, <2>2, <2>3, LeaveMoves, StayMoves DEF InLock, Loading
<1>11. CASE Initialised(c)
  <2>1. pc[c] = "initialised" /\ UNCHANGED <<loads, record, open>>
    BY <1>11 DEF Initialised, upstream
  <2>2. holders = {c} /\ loads = {} /\ open \in {want[c], NoBudget}
    BY <2>1 DEF InLock, Settled, OnBudget
  <2>3. Leave(c, "opened") \/ Stay(c, "op")
    BY <1>11 DEF Initialised
  <2> QED
    BY <2>1, <2>2, <2>3, LeaveMoves, StayMoves DEF InLock, Loading
<1> QED
  BY <1>1, <1>2, <1>3, <1>5, <1>6, <1>7, <1>8, <1>9, <1>10, <1>11 DEF Selection

LEMMA OperationKeeps ==
    ASSUME TypeOK, IInv, NEW c \in Callers, Operation(c)
    PROVE  IInv'
<1> USE AtWork
<1>1. CASE OpEnds(c)
  <2>1. PICK p \in {"done"} \cup Failure : Stay(c, p)
    BY <1>1 DEF OpEnds
  <2>2. pc[c] = "op" /\ UNCHANGED <<loads, record, open>>
    BY <1>1 DEF OpEnds, api, upstream
  <2>3. holders = {c} /\ loads = {}
    BY <2>2 DEF InLock, Settled
  <2> QED
    BY <2>1, <2>2, <2>3, StayMoves DEF Failure, Loading, OnBudget
<1>2. CASE OpTimesOut(c)
  <2>1. PICK p \in Failure : Stay(c, p)
    BY <1>2 DEF OpTimesOut, InfraFailures
  <2>2. pc[c] = "op" /\ UNCHANGED <<loads, record, open>>
    BY <1>2 DEF OpTimesOut, api
  <2> QED
    BY <2>1, <2>2, StayMoves DEF Failure, InLock, Loading, Settled, OnBudget
<1>3. CASE Finish(c)
  <2>1. /\ pc[c] \in {"done"} \cup Failure /\ UNCHANGED <<loads, record, open>>
        /\ Leave(c, "idle") \/ Leave(c, "retreat")
    BY <1>3 DEF Finish, Failure, api, upstream
  <2> QED
    BY <2>1, LeaveMoves DEF Failure, Loading, InLock
<1>4. CASE KeepAlive(c)
  <2>1. /\ pc[c] \in {"done"} \cup Failure /\ UNCHANGED <<loads, record, open>>
        /\ Leave(c, "idle")
    BY <1>4 DEF KeepAlive, api, upstream
  <2> QED
    BY <2>1, LeaveMoves DEF Failure, Loading, InLock
<1>5. CASE Stop(c)
  <2>1. /\ pc[c] \in {"done"} \cup Failure /\ UNCHANGED <<loads, record, open>>
        /\ Stay(c, "stopping")
    BY <1>5 DEF Stop, api, upstream
  <2> QED
    BY <2>1, StayMoves DEF Failure, Loading, InLock, Settled, OnBudget
<1>6. CASE Stopped(c)
  <2>1. /\ pc[c] = "stopping" /\ Leave(c, "idle") /\ loads' = loads
        /\ record' = NoBudget /\ open' \in {open, NoBudget}
    BY <1>6 DEF Stopped, ShutdownSettles, NotLive
  <2> QED
    BY <2>1, LeaveMoves DEF Loading, InLock
<1>7. CASE StopTimesOut(c)
  <2>1. /\ pc[c] = "stopping" /\ Leave(c, "idle") /\ loads' = loads
        /\ record' = NoBudget /\ open' = open
    BY <1>7 DEF StopTimesOut, NotLive
  <2> QED
    BY <2>1, LeaveMoves DEF Loading, InLock
<1> QED
  BY <1>1, <1>2, <1>3, <1>4, <1>5, <1>6, <1>7 DEF Operation

LEMMA TeardownKeeps ==
    ASSUME TypeOK, IInv, NEW c \in Callers, Teardown(c) \/ ShutdownReply(c)
    PROVE  IInv'
<1> USE AtWork, OutOfLock
<1>0. /\ Drops(c) => pc[c] \in {"inside", "broken"}
      /\ {"inside", "broken", "dropping"} \subseteq InLock \ Loading
      /\ "dropping" \notin Settled \cup OnBudget
      /\ {"unlocked", "tearing"} \cap (InLock \cup Loading \cup Settled \cup OnBudget) = {}
  BY DEF Drops, InLock, Loading, Settled, OnBudget
<1>1. CASE NothingToDrop(c)
  BY <1>0, <1>1, LeaveMoves DEF NothingToDrop, api, upstream
<1>2. CASE DropEntry(c)
  BY <1>0, <1>2, LeaveMoves DEF DropEntry, NotLive, upstream
<1>3. CASE StartDrop(c)
  <2>1. pc[c] \in {"inside", "broken"} /\ UNCHANGED <<loads, record, open>>
    BY <1>0, <1>3 DEF StartDrop, api, upstream
  <2> QED
    BY <1>0, <1>3, <2>1, StayMoves DEF StartDrop
<1>4. CASE Dropped(c)
  BY <1>0, <1>4, LeaveMoves DEF Dropped, ShutdownSettles, NotLive
<1>5. CASE CleanedUp(c)
  BY <1>0, <1>5, LeaveMoves DEF CleanedUp, ShutdownSettles, api
<1>6. After(kind[c]) \notin Loading \cup Settled \cup OnBudget
  BY DEF InLock, Loading, Settled, OnBudget
<1>7. CASE NothingToTear(c)
  BY <1>0, <1>6, <1>7, StayMoves DEF NothingToTear, api, upstream
<1>8. CASE TearEntry(c)
  BY <1>0, <1>6, <1>8, StayMoves DEF TearEntry, NotLive, upstream
<1>9. CASE StartTear(c)
  BY <1>0, <1>9, StayMoves DEF StartTear, api, upstream
<1>10. CASE TornDown(c)
  BY <1>0, <1>6, <1>10, StayMoves DEF TornDown, ShutdownSettles, NotLive
<1> QED
  BY <1>1, <1>2, <1>3, <1>4, <1>5, <1>7, <1>8, <1>9, <1>10 DEF Teardown, ShutdownReply

LEMMA UnlockedKeeps ==
    ASSUME TypeOK, IInv, NEW c \in Callers, Unlocked(c)
    PROVE  IInv'
<1>0. "idle" \notin InLock \cup Loading \cup Settled \cup OnBudget
  BY DEF InLock, Loading, Settled, OnBudget
<1> USE DEF Loading
<1>1. CASE Opened(c)
  BY <1>0, <1>1, StayMoves DEF Opened, api, upstream
<1>2. CASE Retreat(c)
  BY <1>2, EnterMoves DEF Retreat, api, upstream
<1>3. CASE Cleared(c)
  BY <1>0, <1>3, StayMoves DEF Cleared, NotLive, upstream
<1>4. CASE Reloaded(c)
  BY <1>0, <1>4, StayMoves DEF Reloaded, api, upstream
<1>5. CASE Rebind(c)
  BY <1>0, <1>5, StayMoves, EnterMoves DEF Rebind, api, upstream
<1>6. CASE Closed(c)
  BY <1>0, <1>6, StayMoves DEF Closed, api, upstream
<1> QED
  BY <1>1, <1>2, <1>3, <1>4, <1>5, <1>6 DEF Unlocked

LEMMA NextKeeps ==
    ASSUME TypeOK, IInv, [Next]_vars
    PROVE  IInv'
<1>1. CASE StrayEnds
  BY <1>1, NothingMoves DEF StrayEnds, lock, api, call
<1>2. CASE LateShutdownLands
  BY <1>2, NothingMoves DEF LateShutdownLands, lock, api, call
<1>3. CASE UNCHANGED vars
  BY <1>3, NothingMoves DEF vars, lock, api, upstream, call
<1> QED
  BY <1>1, <1>2, <1>3, RequestKeeps, SelectionKeeps, OperationKeeps, TeardownKeeps,
     UnlockedKeeps, LoadStepKeeps DEF Next, Proceeds
-----------------------------------------------------------------------------
(* Types.                                                                  *)

CallTypes ==
    /\ holders \in SUBSET Callers /\ waiting \in SUBSET Callers
    /\ pc \in [Callers -> Phases] /\ kind \in [Callers -> Kinds]
    /\ want \in [Callers -> Budgets]

ApiTypes ==
    /\ live \in BOOLEAN /\ record \in Target \cup {NoBudget} /\ loads \in SUBSET Load

UpstreamTypes ==
    /\ open \in Target \cup {NoBudget} /\ lateShutdown \in BOOLEAN /\ strays \in SUBSET Budgets

PoolTypes ==
    /\ entry \in [Sessions -> Entry \cup {NoEntry}] /\ slot \in [Sessions -> Budgets]

LEMMA TypeParts ==
    /\ TypeOK => CallTypes /\ ApiTypes /\ UpstreamTypes /\ PoolTypes
    /\ CallTypes' /\ ApiTypes' /\ UpstreamTypes' /\ PoolTypes' => TypeOK'
BY DEF TypeOK, CallTypes, ApiTypes, UpstreamTypes, PoolTypes

LEMMA SameTypes ==
    /\ CallTypes /\ UNCHANGED <<lock, pc, call>> => CallTypes'
    /\ ApiTypes /\ UNCHANGED api => ApiTypes'
    /\ UpstreamTypes /\ UNCHANGED upstream => UpstreamTypes'
    /\ PoolTypes /\ UNCHANGED pool => PoolTypes'
BY DEF CallTypes, ApiTypes, UpstreamTypes, PoolTypes, lock, call, api, upstream, pool

LEMMA GoesTypes ==
    ASSUME CallTypes, NEW c \in Callers, NEW next \in Phases, Goes(c, next)
    PROVE  /\ pc' \in [Callers -> Phases] /\ kind' \in [Callers -> Kinds]
           /\ want' \in [Callers -> Budgets]
BY AdapterAssumption DEF CallTypes, Goes, Kinds

LEMMA EnterTypes ==
    ASSUME CallTypes, NEW c \in Callers, NEW k \in Kinds, NEW b \in Budgets, Enter(c, k, b)
    PROVE  CallTypes'
<1>1. holders' \in SUBSET Callers /\ waiting' \in SUBSET Callers
  BY DEF CallTypes, Enter, Mutex!Take, Mutex!Wait
<1>2. "locking" \in Phases
  BY DEF Phases
<1> QED
  BY <1>1, <1>2 DEF CallTypes, Enter

LEMMA LeaveTypes ==
    ASSUME CallTypes, NEW c \in Callers, NEW next \in Phases, Leave(c, next)
    PROVE  CallTypes'
<1>1. holders' \in SUBSET Callers /\ waiting' \in SUBSET Callers
  BY DEF CallTypes, Leave, Mutex!Release, Mutex!HandOver
<1> QED
  BY <1>1, GoesTypes DEF CallTypes, Leave

LEMMA StayTypes ==
    ASSUME CallTypes, NEW c \in Callers, NEW next \in Phases, Stay(c, next)
    PROVE  CallTypes'
BY GoesTypes DEF CallTypes, Stay, lock

LEMMA PicksTypes ==
    ASSUME TypeOK, NEW c \in Callers, NEW next \in Phases, Picks(c, next)
    PROVE  CallTypes'
BY NeedsBudget DEF TypeOK, CallTypes, Picks, lock

LEMMA PhaseTypes == \A k : Refused(k) \in Phases /\ After(k) \in Phases
BY DEF Refused, After, Phases, Continuing

LEMMA NotLiveTypes == NotLive /\ loads' \in SUBSET Load => ApiTypes'
BY DEF NotLive, ApiTypes

LEMMA TrackTypes ==
    ASSUME ApiTypes, NEW c \in Callers, NEW target \in Target, Track(c, target), live' = live
    PROVE  ApiTypes'
<1> DEFINE new == [by |-> c, target |-> target, stage |-> "closing", abandoned |-> FALSE]
<1>1. new \in Load
  BY DEF Load
<1>2. loads' = loads \cup {new} /\ record' = NoBudget
  BY DEF Track
<1> HIDE DEF new
<1> QED
  BY <1>1, <1>2 DEF ApiTypes

LEMMA EntryTypes ==
    ASSUME PoolTypes, slot' = slot,
           \/ \E s \in Sessions : Forget(s)
           \/ entry' = [s \in Sessions |->
                  IF HasEntry(s) THEN [entry[s] EXCEPT !.syncId = Imported] ELSE NoEntry]
    PROVE  PoolTypes'
BY DEF PoolTypes, Forget, Entry, HasEntry, Target

LEMMA ShutdownTypes == UpstreamTypes /\ ShutdownSettles => UpstreamTypes'
BY DEF UpstreamTypes, ShutdownSettles

LEMMA RequestTypes ==
    ASSUME TypeOK, NEW c \in Callers, Request(c)
    PROVE  TypeOK'
<1> USE TypeParts, SameTypes, AdapterAssumption
<1>0. Kinds = {"pooled", "legacy", "open", "cleanup", "close", "evict", "rebind", "reload"}
  BY DEF Kinds
<1>1. CASE StartOp(c)
  BY <1>0, <1>1, EnterTypes DEF StartOp
<1>2. CASE StartOpen(c)
  BY <1>0, <1>2, EnterTypes DEF StartOpen
<1>3. ASSUME NEW k \in {"close", "evict"}, StartClose(c, k) PROVE TypeOK'
  BY <1>0, <1>3, EnterTypes DEF StartClose
<1>4. ASSUME NEW b \in Budgets, SwitchNoOp(c, b) PROVE TypeOK'
  <2>1. PoolTypes'
    BY <1>4 DEF SwitchNoOp, PoolTypes
  <2> QED
    BY <1>4, <2>1 DEF SwitchNoOp
<1>5. ASSUME NEW b \in Budgets, StartSwitch(c, b) PROVE TypeOK'
  BY <1>0, <1>5, EnterTypes DEF StartSwitch
<1> QED
  BY <1>1, <1>2, <1>3, <1>4, <1>5 DEF Request

LEMMA SelectionTypes ==
    ASSUME TypeOK, NEW c \in Callers, Selection(c)
    PROVE  TypeOK'
<1> USE TypeParts, SameTypes, AdapterAssumption
<1>0. Failure \cup {"inside", "op", "selecting", "initialising", "importing", "reloaded",
                    "opened"} \subseteq Phases
  BY DEF Failure, Phases, Loading, Continuing
<1>1. CASE Settle(c)
  BY <1>0, <1>1, StayTypes DEF Settle
<1>2. CASE SettleTimesOut(c)
  BY <1>2, LeaveTypes, PhaseTypes DEF SettleTimesOut
<1>3. CASE Matches(c)
  BY <1>0, <1>3, PicksTypes DEF Matches
<1>4. CASE Select(c)
  BY <1>0, <1>4, PicksTypes, TrackTypes, NeedsBudget DEF Select, Target
<1>5. CASE Initialise(c)
  BY <1>0, <1>5, PicksTypes, TrackTypes, NeedsBudget DEF Initialise, Target
<1>6. CASE InitFails(c)
  BY <1>0, <1>6, StayTypes DEF InitFails
<1>7. CASE StartImport(c)
  <2>1. CallTypes' /\ ApiTypes' /\ UpstreamTypes'
    BY <1>0, <1>7, StayTypes, TrackTypes DEF StartImport, Target
  <2>2. PoolTypes'
    BY <1>7, EntryTypes DEF StartImport
  <2> QED
    BY <2>1, <2>2
<1>8. CASE Diagnosed(c)
  <2>1. ApiTypes'
    BY <1>8 DEF Diagnosed, ApiTypes
  <2> QED
    BY <1>0, <1>8, <2>1, StayTypes DEF Diagnosed
<1>9. CASE Selected(c)
  BY <1>0, <1>9, StayTypes, LeaveTypes DEF Selected
<1>10. CASE Initialised(c)
  <2>1. ApiTypes'
    BY <1>10 DEF Initialised, ApiTypes
  <2> QED
    BY <1>0, <1>10, <2>1, StayTypes, LeaveTypes DEF Initialised
<1> QED
  BY <1>1, <1>2, <1>3, <1>4, <1>5, <1>6, <1>7, <1>8, <1>9, <1>10 DEF Selection

LEMMA ReportsTypes ==
    ASSUME TypeOK, NEW l \in loads, NEW next \in Phases, Reports(l, next)
    PROVE  CallTypes'
BY DEF TypeOK, CallTypes, Reports, lock, call, Load

\* A load in flight is of its type, and so is what a step makes of it.
LEMMA LoadTypes ==
    ASSUME TypeOK, NEW l \in loads
    PROVE  /\ l \in Load /\ l.by \in Callers /\ l.target \in Target
           /\ [l EXCEPT !.stage = "opening"] \in Load
           /\ [l EXCEPT !.stage = "probing"] \in Load
           /\ [l EXCEPT !.stage = "closing", !.abandoned = TRUE] \in Load
           /\ [l EXCEPT !.abandoned = TRUE] \in Load
<1>1. l \in Load
  BY DEF TypeOK
<1> QED
  BY <1>1 DEF Load

LEMMA LoadStepTypes ==
    ASSUME TypeOK, NEW l \in loads, LoadStep(l)
    PROVE  TypeOK'
<1> USE TypeParts, SameTypes
<1>a. l \in Load /\ l.by \in Callers /\ l.target \in Target
  BY LoadTypes
<1>0. Failure \cup {"done", "diagnosing", "initialised", "selected"} \subseteq Phases
  BY DEF Failure, Phases, Continuing
<1>1. \A m \in Load : (loads \ {l}) \cup {m} \in SUBSET Load
  BY DEF ApiTypes
<1>2. CASE LoadCloses(l)
  <2>1. ApiTypes' /\ UpstreamTypes'
    BY <1>1, <1>2, LoadTypes DEF LoadCloses, MovesTo, ApiTypes, UpstreamTypes
  <2> QED
    BY <1>2, <2>1 DEF LoadCloses
<1>3. CASE Downloaded(l)
  <2>1. loads' \in SUBSET Load
    BY <1>1, <1>3, LoadTypes DEF Downloaded, MovesTo, ApiTypes
  <2>2. ApiTypes' /\ UpstreamTypes'
    BY <1>a, <1>3, <2>1 DEF Downloaded, ApiTypes, UpstreamTypes
  <2> QED
    BY <1>3, <2>2 DEF Downloaded
<1>4. CASE Recorded(l)
  <2>1. ApiTypes'
    BY <1>a, <1>4 DEF Recorded, ApiTypes
  <2> QED
    BY <1>0, <1>4, <2>1, ReportsTypes DEF Recorded
<1>5. CASE ImportLands(l)
  <2>1. ApiTypes' /\ UpstreamTypes'
    BY <1>5 DEF ImportLands, ApiTypes, UpstreamTypes, Target
  <2>2. PoolTypes'
    BY <1>5, EntryTypes DEF ImportLands, PoolTypes
  <2> QED
    BY <1>0, <1>5, <2>1, <2>2, ReportsTypes DEF ImportLands
<1>6. CASE LoadFails(l)
  <2>1. ApiTypes'
    BY <1>6, NotLiveTypes DEF LoadFails, ApiTypes
  <2> QED
    BY <1>0, <1>6, <2>1, ReportsTypes DEF LoadFails
<1>7. CASE Diagnose(l)
  <2>1. ApiTypes'
    BY <1>1, <1>7, LoadTypes, NotLiveTypes DEF Diagnose
  <2> QED
    BY <1>0, <1>a, <1>7, <2>1, StayTypes DEF Diagnose
<1>8. CASE LoadTimesOut(l)
  <2>1. ApiTypes'
    BY <1>1, <1>8, LoadTypes DEF LoadTimesOut, ApiTypes
  <2> QED
    BY <1>0, <1>a, <1>8, <2>1, StayTypes DEF LoadTimesOut, InfraFailures, Failure
<1> QED
  BY <1>2, <1>3, <1>4, <1>5, <1>6, <1>7, <1>8 DEF LoadStep

LEMMA OperationTypes ==
    ASSUME TypeOK, NEW c \in Callers, Operation(c)
    PROVE  TypeOK'
<1> USE TypeParts, SameTypes
<1>0. Failure \cup {"idle", "done", "broken", "retreat", "stopping"} \subseteq Phases
  BY DEF Failure, Phases, Continuing
<1>1. CASE OpEnds(c)
  BY <1>0, <1>1, StayTypes DEF OpEnds
<1>2. CASE OpTimesOut(c)
  <2>1. UpstreamTypes'
    BY <1>2 DEF OpTimesOut, UpstreamTypes, CallTypes
  <2> QED
    BY <1>0, <1>2, <2>1, StayTypes DEF OpTimesOut, InfraFailures, Failure
<1>3. CASE Finish(c)
  BY <1>0, <1>3, LeaveTypes DEF Finish
<1>4. CASE KeepAlive(c)
  BY <1>0, <1>4, LeaveTypes DEF KeepAlive
<1>5. CASE Stop(c)
  BY <1>0, <1>5, StayTypes DEF Stop
<1>6. CASE Stopped(c)
  <2>1. ApiTypes'
    BY <1>6, NotLiveTypes DEF Stopped, ApiTypes
  <2> QED
    BY <1>0, <1>6, <2>1, ShutdownTypes, LeaveTypes DEF Stopped
<1>7. CASE StopTimesOut(c)
  <2>1. ApiTypes' /\ UpstreamTypes'
    BY <1>7, NotLiveTypes DEF StopTimesOut, ApiTypes, UpstreamTypes
  <2> QED
    BY <1>0, <1>7, <2>1, LeaveTypes DEF StopTimesOut
<1> QED
  BY <1>1, <1>2, <1>3, <1>4, <1>5, <1>6, <1>7 DEF Operation

LEMMA TeardownTypes ==
    ASSUME TypeOK, NEW c \in Callers, Teardown(c) \/ ShutdownReply(c)
    PROVE  TypeOK'
<1> USE TypeParts, SameTypes, PhaseTypes, AdapterAssumption
<1>0. "dropping" \in Phases /\ "tearing" \in Phases
  BY DEF Phases
<1>1. loads' = loads /\ NotLive => ApiTypes'
  BY NotLiveTypes DEF ApiTypes
<1>2. Forget(SessionOf[c]) /\ slot' = slot => PoolTypes'
  BY EntryTypes
<1>3. CASE NothingToDrop(c)
  BY <1>3, LeaveTypes DEF NothingToDrop
<1>4. CASE DropEntry(c)
  BY <1>1, <1>2, <1>4, LeaveTypes DEF DropEntry
<1>5. CASE StartDrop(c)
  BY <1>0, <1>5, StayTypes DEF StartDrop
<1>6. CASE Dropped(c)
  BY <1>1, <1>2, <1>6, ShutdownTypes, LeaveTypes DEF Dropped
<1>7. CASE CleanedUp(c)
  BY <1>7, ShutdownTypes, LeaveTypes DEF CleanedUp
<1>8. CASE NothingToTear(c)
  BY <1>8, StayTypes DEF NothingToTear
<1>9. CASE TearEntry(c)
  BY <1>1, <1>2, <1>9, StayTypes DEF TearEntry
<1>10. CASE StartTear(c)
  BY <1>0, <1>10, StayTypes DEF StartTear
<1>11. CASE TornDown(c)
  BY <1>1, <1>2, <1>11, ShutdownTypes, StayTypes DEF TornDown
<1> QED
  BY <1>3, <1>4, <1>5, <1>6, <1>7, <1>8, <1>9, <1>10, <1>11 DEF Teardown, ShutdownReply

LEMMA UnlockedTypes ==
    ASSUME TypeOK, NEW c \in Callers, Unlocked(c)
    PROVE  TypeOK'
<1> USE TypeParts, SameTypes, AdapterAssumption
<1>0. /\ "idle" \in Phases /\ "open" \in Kinds /\ "cleanup" \in Kinds
      /\ SessionOf[c] \in Sessions /\ want[c] \in Budgets
  BY DEF Phases, Kinds, CallTypes
<1>1. CASE Opened(c)
  <2>1. [server |-> ServerOf[want[c]], syncId |-> want[c]] \in Entry
    BY <1>0 DEF Entry, Servers, Target
  <2>2. PoolTypes'
    BY <1>0, <1>1, <2>1 DEF Opened, PoolTypes
  <2> QED
    BY <1>0, <1>1, <2>2, StayTypes DEF Opened
<1>2. CASE Retreat(c)
  BY <1>0, <1>2, EnterTypes DEF Retreat
<1>3. CASE Cleared(c)
  <2>1. ApiTypes'
    BY <1>3, NotLiveTypes DEF Cleared, ApiTypes
  <2>2. PoolTypes'
    BY <1>0, <1>3, EntryTypes DEF Cleared
  <2> QED
    BY <1>0, <1>3, <2>1, <2>2, StayTypes DEF Cleared
<1>4. CASE Reloaded(c)
  <2> DEFINE s == SessionOf[c]
  <2>1. HasEntry(s) => [entry[s] EXCEPT !.syncId = want[c]] \in Entry
    BY <1>0 DEF PoolTypes, HasEntry, Entry, Target
  <2>2. entry' = IF HasEntry(s)
                 THEN [entry EXCEPT ![s] = [entry[s] EXCEPT !.syncId = want[c]]] ELSE entry
    BY <1>4 DEF Reloaded
  <2>3. PoolTypes'
    BY <1>0, <1>4, <2>1, <2>2 DEF Reloaded, PoolTypes
  <2> QED
    BY <1>0, <1>4, <2>3, StayTypes DEF Reloaded
<1>5. CASE Rebind(c)
  <2>1. PoolTypes'
    BY <1>0, <1>5 DEF Rebind, PoolTypes
  <2> QED
    BY <1>0, <1>5, <2>1, StayTypes, EnterTypes DEF Rebind
<1>6. CASE Closed(c)
  <2>1. PoolTypes'
    BY <1>0, <1>6 DEF Closed, PoolTypes
  <2> QED
    BY <1>0, <1>6, <2>1, StayTypes DEF Closed
<1> QED
  BY <1>1, <1>2, <1>3, <1>4, <1>5, <1>6 DEF Unlocked

LEMMA NextTypes ==
    ASSUME TypeOK, [Next]_vars
    PROVE  TypeOK'
<1> USE TypeParts, SameTypes
<1>1. CASE StrayEnds
  <2>1. UpstreamTypes'
    BY <1>1 DEF StrayEnds, UpstreamTypes
  <2> QED
    BY <1>1, <2>1 DEF StrayEnds
<1>2. CASE LateShutdownLands
  <2>1. UpstreamTypes'
    BY <1>2 DEF LateShutdownLands, UpstreamTypes
  <2> QED
    BY <1>2, <2>1 DEF LateShutdownLands
<1>3. CASE UNCHANGED vars
  BY <1>3 DEF vars, TypeOK, lock, api, upstream, pool, call
<1> QED
  BY <1>1, <1>2, <1>3, RequestTypes, SelectionTypes, OperationTypes, TeardownTypes,
     UnlockedTypes, LoadStepTypes DEF Next, Proceeds
-----------------------------------------------------------------------------
(* The invariants of Adapter hold in every reachable state.                *)

LEMMA InitTypes == Init => TypeOK
<1> SUFFICES ASSUME Init PROVE TypeOK
  OBVIOUS
<1>1. "idle" \in Phases /\ "legacy" \in Kinds
  BY DEF Phases, Kinds
<1> QED
  BY <1>1, AdapterAssumption DEF Init, TypeOK, Mutex!MutexInit

LEMMA InitInv == Init => IInv
BY DEF Init, IInv, Owned, LoadsTracked, RecordHonest, Chosen, Mutex!MutexInit,
       InLock, Settled, OnBudget, Loading

(* Every variable of the adapter keeps its type, whatever the sessions do  *)
(* and whatever fails upstream.                                            *)
THEOREM AdapterTypeOK == Spec => []TypeOK
<1>1. TypeOK /\ [Next]_vars => TypeOK'
  BY NextTypes
<1> QED
  BY <1>1, InitTypes, PTL DEF Spec

(* The four parts of the invariant hold together in every reachable state. *)
THEOREM AdapterInv == Spec => []IInv
<1>1. TypeOK /\ IInv /\ [Next]_vars => IInv'
  BY NextKeeps
<1> QED
  BY <1>1, InitInv, AdapterTypeOK, PTL DEF Spec

(* No operation ever runs on another session's budget (ensureLoadedBudget- *)
(* MatchesSession under withApiLock): its caller owns the mutex, no load   *)
(* is in flight, and upstream has its own budget open or none.             *)
THEOREM AdapterIsolation == Spec => []Isolation
<1>1. IInv => Isolation
  BY DEF IInv, Owned, LoadsTracked, Chosen, Isolation, InLock, Settled, OnBudget
<1> QED
  BY <1>1, AdapterInv, PTL

(* The record trackBudgetMutation keeps never names a budget upstream has  *)
(* moved away from.                                                        *)
THEOREM AdapterRecordHonest == Spec => []RecordHonest
<1>1. IInv => RecordHonest
  BY DEF IInv
<1> QED
  BY <1>1, AdapterInv, PTL

(* Of all the loads trackBudgetMutation tracks, abandoned ones included,   *)
(* at most one is ever in flight.                                          *)
THEOREM AdapterOneLoad == Spec => []OneLoad
<1>1. IInv => OneLoad
  BY DEF IInv, LoadsTracked, OneLoad
<1> QED
  BY <1>1, AdapterInv, PTL
-----------------------------------------------------------------------------
(* A session's singleton is kept.  The keep-alive is decided when a call   *)
(* without an entry leaves its operation, and an entry is only made after  *)
(* the lock was released: what carries the proof is that no call can be    *)
(* that far while another one is about to make its entry (NoneOpening).    *)

\* A step that adds no pool entry, moves c alone, and moves it neither past an
\* opening call nor into a teardown that is not due.
LEMMA KMoves ==
    ASSUME TypeOK, KInv, NEW c \in Callers, NEW next, pc' = [pc EXCEPT ![c] = next],
           next = "opened" => \A d \in Callers : d # c => pc[d] \notin Replied,
           next \in Replied => Quiet \/ pc[c] \in Replied,
           next = "stopping" => Entries' = {},
           Entries' \subseteq Entries \/ pc[c] = "opened"
    PROVE  KInv'
<1>1. Quiet => \A d \in Callers : pc[d] # "opened"
  BY DEF Quiet, Continuing
<1>2. "opened" \notin Replied /\ "stopping" \in Replied
  BY DEF Replied
<1>3. \A d \in Callers : pc'[d] = IF d = c THEN next ELSE pc[d]
  BY DEF TypeOK
<1>4. NoneOpening'
  BY <1>1, <1>2, <1>3 DEF KInv, NoneOpening
<1>5. SingletonKept'
  <2> SUFFICES ASSUME NEW d \in Callers, d # c, pc[d] = "stopping" PROVE Entries' = {}
    BY <1>3 DEF SingletonKept
  <2>1. pc[c] # "opened" /\ Entries = {}
    BY <1>2 DEF KInv, NoneOpening, SingletonKept
  <2> QED
    BY <2>1
<1> QED
  BY <1>4, <1>5 DEF KInv

\* Every other step leaves the phases alone, or reports to a waiting caller.
LEMMA KStays ==
    ASSUME KInv, pc' = pc, Entries' \subseteq Entries
    PROVE  KInv'
BY DEF KInv, NoneOpening, SingletonKept

LEMMA EntriesKept ==
    ASSUME TypeOK,
           \/ entry' = entry
           \/ \E s \in Sessions : Forget(s)
           \/ entry' = [s \in Sessions |->
                  IF HasEntry(s) THEN [entry[s] EXCEPT !.syncId = Imported] ELSE NoEntry]
    PROVE  Entries' \subseteq Entries
BY DEF TypeOK, Forget, Entries, HasEntry

LEMMA KEnter ==
    ASSUME TypeOK, KInv, NEW c \in Callers, NEW k, NEW b, Enter(c, k, b), entry' = entry
    PROVE  KInv'
<1>1. pc' = [pc EXCEPT ![c] = "locking"] /\ "locking" \notin Replied
  BY DEF Enter, Replied
<1> QED
  BY <1>1, EntriesKept, KMoves

LEMMA KGoes ==
    ASSUME TypeOK, KInv, NEW c \in Callers, NEW next, Stay(c, next) \/ Leave(c, next),
           next # "opened" /\ next # "stopping",
           next \in Replied => Quiet \/ pc[c] \in Replied,
           Entries' \subseteq Entries \/ pc[c] = "opened"
    PROVE  KInv'
<1>1. pc' = [pc EXCEPT ![c] = next]
  BY DEF Stay, Leave, Goes
<1> QED
  BY <1>1, KMoves

LEMMA RequestSingleton ==
    ASSUME TypeOK, KInv, NEW c \in Callers, Request(c)
    PROVE  KInv'
<1>1. CASE StartOp(c)
  BY <1>1, KEnter DEF StartOp, pool
<1>2. CASE StartOpen(c)
  BY <1>2, KEnter DEF StartOpen, pool
<1>3. ASSUME NEW k, StartClose(c, k) PROVE KInv'
  BY <1>3, KEnter DEF StartClose, pool
<1>4. ASSUME NEW b, SwitchNoOp(c, b) PROVE KInv'
  BY <1>4, KStays, EntriesKept DEF SwitchNoOp
<1>5. ASSUME NEW b, StartSwitch(c, b) PROVE KInv'
  BY <1>5, KEnter DEF StartSwitch, pool
<1> QED
  BY <1>1, <1>2, <1>3, <1>4, <1>5 DEF Request

\* Where a refusal or a teardown leads makes no entry and is decided before.
LEMMA OutOfReach ==
    \A k : {Refused(k), After(k)} \cap (Replied \cup {"opened", "stopping"}) = {}
BY DEF Refused, After, Replied

LEMMA SelectionSingleton ==
    ASSUME TypeOK, IInv, KInv, NEW c \in Callers, Selection(c)
    PROVE  KInv'
<1> USE EntriesKept DEF pool
<1>0. /\ {"inside", "op", "selecting", "initialising", "importing", "reloaded"}
             \cap (Replied \cup {"opened", "stopping"}) = {}
      /\ Failure \cap {"opened", "stopping"} = {}
  BY DEF Replied, Failure
<1>1. CASE Settle(c)
  BY <1>0, <1>1, KGoes DEF Settle
<1>2. CASE SettleTimesOut(c)
  BY <1>2, KGoes, OutOfReach DEF SettleTimesOut
<1>3. ASSUME NEW next \in {"op", "selecting", "initialising"}, Picks(c, next), entry' = entry
      PROVE  KInv'
  BY <1>0, <1>3, KMoves DEF Picks
<1>4. CASE Matches(c)
  BY <1>3, <1>4 DEF Matches
<1>5. CASE Select(c)
  BY <1>3, <1>5 DEF Select
<1>6. CASE Initialise(c)
  BY <1>3, <1>6 DEF Initialise
<1>7. CASE InitFails(c)
  BY <1>0, <1>7, KGoes DEF InitFails
<1>8. CASE StartImport(c)
  BY <1>0, <1>8, KGoes DEF StartImport
<1>9. CASE Diagnosed(c)
  BY <1>0, <1>9, KGoes DEF Diagnosed
<1>10. CASE Selected(c)
  BY <1>0, <1>10, KGoes DEF Selected
<1>11. CASE Initialised(c)
  <2>1. CASE Leave(c, "opened")
    <3>1. pc[c] \in InLock /\ pc' = [pc EXCEPT ![c] = "opened"] /\ entry' = entry
      BY <1>11, <2>1 DEF Initialised, Leave, Goes, InLock
    <3>2. \A d \in Callers : d # c => pc[d] \notin Replied
      BY <3>1, AtWork DEF Replied, InLock
    <3>3. "opened" \notin Replied
      BY DEF Replied
    <3> QED
      BY <3>1, <3>2, <3>3, KMoves
  <2>2. CASE Stay(c, "op")
    BY <1>0, <1>11, <2>2, KGoes DEF Initialised
  <2> QED
    BY <1>11, <2>1, <2>2 DEF Initialised
<1> QED
  BY <1>1, <1>2, <1>4, <1>5, <1>6, <1>7, <1>8, <1>9, <1>10, <1>11 DEF Selection

LEMMA LoadStepSingleton ==
    ASSUME TypeOK, KInv, NEW l \in loads, LoadStep(l)
    PROVE  KInv'
<1> USE EntriesKept DEF pool
<1>0. l.by \in Callers
  BY LoadTypes
<1>1. ASSUME NEW next \in {"selected", "initialised", "done"} \cup Failure, Quiet,
             Reports(l, next), Entries' \subseteq Entries
      PROVE  KInv'
  <2>1. next \notin {"opened", "stopping"}
    BY DEF Failure
  <2>2. CASE l.abandoned
    BY <1>1, <2>2, KStays DEF Reports
  <2>3. CASE ~l.abandoned
    <3>1. pc' = [pc EXCEPT ![l.by] = next]
      BY <1>1, <2>3 DEF Reports
    <3> QED
      BY <1>0, <1>1, <2>1, <3>1, KMoves
  <2> QED
    BY <2>2, <2>3
<1>2. CASE LoadCloses(l)
  BY <1>2, KStays DEF LoadCloses
<1>3. CASE Downloaded(l)
  BY <1>3, KStays DEF Downloaded
<1>4. CASE Recorded(l)
  BY <1>1, <1>4 DEF Recorded
<1>5. CASE ImportLands(l)
  BY <1>1, <1>5 DEF ImportLands
<1>6. CASE LoadFails(l)
  BY <1>1, <1>6 DEF LoadFails
<1>7. CASE Diagnose(l)
  BY <1>0, <1>7, KGoes DEF Diagnose
<1>8. CASE LoadTimesOut(l)
  BY <1>0, <1>8, KGoes DEF LoadTimesOut, InfraFailures, Failure
<1> QED
  BY <1>2, <1>3, <1>4, <1>5, <1>6, <1>7, <1>8 DEF LoadStep

LEMMA OperationSingleton ==
    ASSUME TypeOK, KInv, NEW c \in Callers, Operation(c)
    PROVE  KInv'
<1> USE EntriesKept DEF pool
<1>0. {"idle", "retreat"} \cap (Replied \cup {"opened", "stopping"}) = {}
  BY DEF Replied
<1>1. CASE OpEnds(c)
  BY <1>1, KGoes DEF OpEnds, Failure
<1>2. CASE OpTimesOut(c)
  BY <1>2, KGoes DEF OpTimesOut, InfraFailures, Failure
<1>3. CASE Finish(c)
  BY <1>0, <1>3, KGoes DEF Finish
<1>4. CASE KeepAlive(c)
  BY <1>0, <1>4, KGoes DEF KeepAlive
<1>5. CASE Stop(c)
  <2>1. pc[c] \in Replied /\ Entries = {} /\ entry' = entry
    BY <1>5 DEF Stop, KeepsSingleton, Replied, Failure
  <2>2. pc' = [pc EXCEPT ![c] = "stopping"]
    BY <1>5 DEF Stop, Stay, Goes
  <2> QED
    BY <2>1, <2>2, KMoves
<1>6. CASE Stopped(c)
  BY <1>0, <1>6, KGoes DEF Stopped
<1>7. CASE StopTimesOut(c)
  BY <1>0, <1>7, KGoes DEF StopTimesOut
<1> QED
  BY <1>1, <1>2, <1>3, <1>4, <1>5, <1>6, <1>7 DEF Operation

LEMMA TeardownSingleton ==
    ASSUME TypeOK, KInv, NEW c \in Callers, Teardown(c) \/ ShutdownReply(c)
    PROVE  KInv'
<1> USE EntriesKept, OutOfReach, KGoes, AdapterAssumption DEF pool
<1>0. {"dropping", "tearing"} \cap (Replied \cup {"opened", "stopping"}) = {}
  BY DEF Replied
<1>1. CASE NothingToDrop(c)
  BY <1>1 DEF NothingToDrop
<1>2. CASE DropEntry(c)
  BY <1>2 DEF DropEntry
<1>3. CASE StartDrop(c)
  BY <1>0, <1>3 DEF StartDrop
<1>4. CASE Dropped(c)
  BY <1>4 DEF Dropped
<1>5. CASE CleanedUp(c)
  BY <1>5 DEF CleanedUp
<1>6. CASE NothingToTear(c)
  BY <1>6 DEF NothingToTear
<1>7. CASE TearEntry(c)
  BY <1>7 DEF TearEntry
<1>8. CASE StartTear(c)
  BY <1>0, <1>8 DEF StartTear
<1>9. CASE TornDown(c)
  BY <1>9 DEF TornDown
<1> QED
  BY <1>1, <1>2, <1>3, <1>4, <1>5, <1>6, <1>7, <1>8, <1>9 DEF Teardown, ShutdownReply

LEMMA UnlockedSingleton ==
    ASSUME TypeOK, KInv, NEW c \in Callers, Unlocked(c)
    PROVE  KInv'
<1> USE EntriesKept DEF pool
<1>0. "idle" \notin Replied /\ SessionOf[c] \in Sessions
  BY AdapterAssumption DEF Replied
<1>1. CASE Opened(c)
  BY <1>0, <1>1, KGoes DEF Opened
<1>2. CASE Retreat(c)
  BY <1>2, KEnter DEF Retreat
<1>3. CASE Cleared(c)
  BY <1>0, <1>3, KGoes DEF Cleared
<1>4. CASE Reloaded(c)
  <2>1. Entries' \subseteq Entries
    BY <1>4 DEF Reloaded, Entries, HasEntry, TypeOK
  <2> QED
    BY <1>0, <1>4, <2>1, KGoes DEF Reloaded
<1>5. CASE Rebind(c)
  BY <1>0, <1>5, KGoes, KEnter DEF Rebind
<1>6. CASE Closed(c)
  BY <1>0, <1>6, KGoes DEF Closed
<1> QED
  BY <1>1, <1>2, <1>3, <1>4, <1>5, <1>6 DEF Unlocked

(* A call without a pool entry never tears the singleton down under a      *)
(* session that has one (shutdownActualApi's active-session keep-alive).   *)
THEOREM AdapterSingletonKept == Spec => []SingletonKept
<1>1. Init => KInv
  BY DEF Init, KInv, NoneOpening, SingletonKept
<1>2. TypeOK /\ IInv /\ KInv /\ [Next]_vars => KInv'
  <2> SUFFICES ASSUME TypeOK, IInv, KInv, [Next]_vars PROVE KInv'
    OBVIOUS
  <2>1. CASE StrayEnds
    BY <2>1, KStays, EntriesKept DEF StrayEnds, pool
  <2>2. CASE LateShutdownLands
    BY <2>2, KStays, EntriesKept DEF LateShutdownLands, pool
  <2>3. CASE UNCHANGED vars
    BY <2>3, KStays, EntriesKept DEF vars, pool
  <2> QED
    BY <2>1, <2>2, <2>3, RequestSingleton, SelectionSingleton, OperationSingleton,
       TeardownSingleton, UnlockedSingleton, LoadStepSingleton DEF Next, Proceeds
<1>3. KInv => SingletonKept
  BY DEF KInv
<1> QED
  BY <1>1, <1>2, <1>3, AdapterTypeOK, AdapterInv, PTL DEF Spec
-----------------------------------------------------------------------------
(* An operation finds its own budget open, and not none, as long as what   *)
(* upstream starts it also answers and no session's connection fails to    *)
(* open.  Both conditions are needed: an abandoned load or shutdown lands  *)
(* under a later operation, and the cleanup after a failed opening clears  *)
(* the flag too late (the run adapter_cleanup_race).  A stdio process has  *)
(* no such cleanup, so there an init or a load may fail.                   *)
Calm ==
    /\ {"load_stalls", "shutdown_stalls"} \cap Faults = {}
    /\ Stdio \/ {"init_fails", "load_fails"} \cap Faults = {}

\* The phases of a teardown outside the lock or after a failed opening.
Tears == {"retreat", "cleared", "unlocked", "tearing"}

\* The phases of a connection that opens.
OpeningUp == {"locking", "inside", "initialising", "initialised", "opened"}

\* Nothing is torn down without the lock, and no opening has failed.
Tidy ==
    /\ ~lateShutdown
    /\ \A c \in Callers :
          /\ pc[c] \notin Tears /\ kind[c] # "cleanup"
          /\ kind[c] = "open" => ~Stdio /\ pc[c] \in OpeningUp

\* A budget that was loaded is open: what is recorded, what a call has selected, and
\* what a load that cannot fail is about to record.
Exact ==
    /\ record # NoBudget => open = record
    /\ \A c \in Callers : pc[c] \in OnBudget => open = want[c]
    /\ \A l \in loads : "load_fails" \in Faults \/
          (~l.abandoned /\ (l.stage = "probing" => open = l.target))

LEMMA TidyGoes ==
    ASSUME TypeOK, Tidy, NEW c \in Callers, NEW next, Stay(c, next) \/ Leave(c, next),
           next \notin Tears, kind[c] = "open" => next \in OpeningUp \cup {"idle"},
           lateShutdown' = lateShutdown
    PROVE  Tidy'
<1>1. pc' = [pc EXCEPT ![c] = next]
      /\ kind' = [kind EXCEPT ![c] = IF next = "idle" THEN "legacy" ELSE kind[c]]
  BY DEF Stay, Leave, Goes, TypeOK
<1> QED
  BY <1>1 DEF Tidy, TypeOK

LEMMA TidyEnter ==
    ASSUME TypeOK, Tidy, NEW c \in Callers, NEW k, NEW b, Enter(c, k, b),
           k # "cleanup", k = "open" => ~Stdio, lateShutdown' = lateShutdown
    PROVE  Tidy'
BY DEF Enter, TypeOK, Tidy, Tears, OpeningUp

LEMMA TidyStays ==
    ASSUME Tidy, UNCHANGED <<pc, kind, lateShutdown>>
    PROVE  Tidy'
BY DEF Tidy

LEMMA TidyPicks ==
    ASSUME TypeOK, Tidy, NEW c \in Callers, NEW next, Picks(c, next), next \notin Tears,
           kind[c] = "open" => next \in OpeningUp, lateShutdown' = lateShutdown
    PROVE  Tidy'
BY DEF Picks, TypeOK, Tidy

\* A step of a call that leaves the loads alone.  The budget may only be closed by the
\* owner of the mutex, and never while the record names it.
LEMMA ExactMoves ==
    ASSUME TypeOK, IInv, Exact, NEW c \in Callers, NEW next,
           pc' = [pc EXCEPT ![c] = next],
           \A d \in Callers : d # c => want'[d] = want[d],
           loads' = loads, record' \in {record, NoBudget},
           open' # open => pc[c] \in {"stopping", "dropping"} /\ record' = NoBudget,
           next \in OnBudget => open' = want'[c]
    PROVE  Exact'
<1>1. CASE open' = open
  BY <1>1 DEF Exact, TypeOK
<1>2. CASE open' # open
  <2>1. pc[c] \in InLock \ Loading /\ holders = {c} /\ record' = NoBudget
    BY <1>2, AtWork DEF InLock, Loading
  <2>2. ASSUME NEW d \in Callers, pc'[d] \in OnBudget
        PROVE  open' = want'[d]
    BY <2>1, <2>2, AtWork DEF TypeOK, OnBudget, InLock
  <2>3. ASSUME NEW l \in loads
        PROVE  "load_fails" \in Faults
    BY <2>1, InFlight DEF Exact
  <2> QED
    BY <2>1, <2>2, <2>3 DEF Exact
<1> QED
  BY <1>1, <1>2

LEMMA ExactGoes ==
    ASSUME TypeOK, IInv, Exact, NEW c \in Callers, NEW next, Stay(c, next) \/ Leave(c, next),
           loads' = loads, record' \in {record, NoBudget},
           open' # open => pc[c] \in {"stopping", "dropping"} /\ record' = NoBudget,
           next \in OnBudget => pc[c] \in OnBudget
    PROVE  Exact'
<1>1. Step(c, next)
  BY GoesStep DEF Stay, Leave
<1>2. next \in OnBudget => open' = want'[c]
  BY <1>1 DEF Exact, Step, OnBudget
<1> QED
  BY <1>1, <1>2, ExactMoves DEF Step

LEMMA ExactEnter ==
    ASSUME TypeOK, IInv, Exact, NEW c \in Callers, NEW k, NEW b, Enter(c, k, b),
           UNCHANGED <<loads, record, open>>
    PROVE  Exact'
<1>1. "locking" \notin OnBudget
  BY DEF OnBudget
<1> QED
  BY <1>1, EnterStep, ExactMoves DEF IInv

LEMMA ExactStays ==
    ASSUME Exact, UNCHANGED <<pc, want, loads, record, open>>
    PROVE  Exact'
BY DEF Exact

\* A load starts with an empty record, when nobody but its caller is past Settle.
LEMMA ExactTrack ==
    ASSUME TypeOK, IInv, Exact, NEW c \in Callers, NEW next \in Loading, NEW target,
           pc[c] \in Settled, pc' = [pc EXCEPT ![c] = next], Track(c, target)
    PROVE  Exact'
<1>1. /\ loads' = {[by |-> c, target |-> target, stage |-> "closing", abandoned |-> FALSE]}
      /\ record' = NoBudget
  BY AtWork DEF Track
<1>2. ASSUME NEW d \in Callers PROVE pc'[d] \notin OnBudget
  BY AtWork DEF TypeOK, InLock, Settled, OnBudget, Loading
<1> QED
  BY <1>1, <1>2 DEF Exact

CInv == Tidy /\ Exact

LEMMA RequestCalm ==
    ASSUME TypeOK, IInv, CInv, NEW c \in Callers, Request(c)
    PROVE  CInv'
<1> USE TidyEnter, ExactEnter DEF CInv, api, upstream
<1>1. CASE StartOp(c)
  BY <1>1 DEF StartOp
<1>2. CASE StartOpen(c)
  BY <1>2 DEF StartOpen
<1>3. ASSUME NEW k \in {"close", "evict"}, StartClose(c, k) PROVE CInv'
  BY <1>3 DEF StartClose
<1>4. ASSUME NEW b, SwitchNoOp(c, b) PROVE CInv'
  BY <1>4, TidyStays, ExactStays DEF SwitchNoOp, call
<1>5. ASSUME NEW b, StartSwitch(c, b) PROVE CInv'
  BY <1>5 DEF StartSwitch
<1> QED
  BY <1>1, <1>2, <1>3, <1>4, <1>5 DEF Request

LEMMA SelectionCalm ==
    ASSUME Calm, TypeOK, IInv, CInv, NEW c \in Callers, Selection(c)
    PROVE  CInv'
<1> USE DEF CInv
<1>1. CASE Settle(c)
  <2>1. {"inside"} \cap (Tears \cup OnBudget) = {} /\ "inside" \in OpeningUp
    BY DEF Tears, OnBudget, OpeningUp
  <2> QED
    BY <1>1, <2>1, TidyGoes, ExactGoes DEF Settle, api, upstream
<1>2. ~SettleTimesOut(c)
  BY DEF SettleTimesOut, Calm
<1>3. CASE Matches(c)
  <2>1. /\ Picks(c, "op") /\ record = Needs(c) /\ kind[c] # "open" /\ open = Needs(c)
        /\ UNCHANGED <<loads, record, open, lateShutdown>>
    BY <1>3, NeedsBudget DEF Matches, api, upstream, Exact
  <2>2. /\ pc' = [pc EXCEPT ![c] = "op"] /\ want'[c] = Needs(c)
        /\ \A d \in Callers : d # c => want'[d] = want[d]
    BY <2>1 DEF Picks, TypeOK
  <2>3. Tidy'
    BY <2>1, TidyPicks DEF Tears
  <2>4. Exact'
    BY <2>1, <2>2, ExactMoves
  <2> QED
    BY <2>3, <2>4
<1>4. ASSUME NEW next \in {"selecting", "initialising"}, Picks(c, next), pc[c] = "inside",
             Track(c, Needs(c)), kind[c] = "open" => next = "initialising",
             lateShutdown' = lateShutdown
      PROVE  CInv'
  <2>1. next \in Loading /\ next \notin Tears /\ pc[c] \in Settled
    BY <1>4 DEF Loading, Tears, Settled
  <2>2. Tidy'
    BY <1>4, <2>1, TidyPicks DEF OpeningUp
  <2>3. Exact'
    BY <1>4, <2>1, ExactTrack DEF Picks
  <2> QED
    BY <2>2, <2>3
<1>5. CASE Select(c)
  BY <1>4, <1>5 DEF Select, upstream
<1>6. CASE Initialise(c)
  BY <1>4, <1>6 DEF Initialise, upstream
<1>7. CASE InitFails(c)
  <2>1. PICK f \in Failure : Stay(c, f)
    BY <1>7 DEF InitFails
  <2>2. Stdio /\ kind[c] # "open"
    BY <1>7 DEF InitFails, Calm, Tidy
  <2>3. f \notin Tears /\ f \notin OnBudget
    BY DEF Failure, Tears, OnBudget
  <2> QED
    BY <1>7, <2>1, <2>2, <2>3, TidyGoes, ExactGoes DEF InitFails, api, upstream
<1>8. CASE StartImport(c)
  <2>1. /\ Stay(c, "importing") /\ pc[c] = "op" /\ Track(c, Imported) /\ kind[c] # "open"
        /\ lateShutdown' = lateShutdown
    BY <1>8 DEF StartImport, Tidy, OpeningUp, upstream
  <2>2. "importing" \in Loading /\ "importing" \notin Tears /\ pc[c] \in Settled
    BY <2>1 DEF Loading, Tears, Settled
  <2>3. Tidy'
    BY <2>1, <2>2, TidyGoes
  <2>4. Exact'
    BY <2>1, <2>2, ExactTrack DEF Stay, Goes
  <2> QED
    BY <2>3, <2>4
<1>9. CASE Diagnosed(c)
  <2>1. PICK f \in Failure : Stay(c, f)
    BY <1>9 DEF Diagnosed
  <2>2. kind[c] # "open"
    BY <1>9 DEF Diagnosed, Tidy, OpeningUp
  <2>3. f \notin Tears /\ f \notin OnBudget
    BY DEF Failure, Tears, OnBudget
  <2> QED
    BY <1>9, <2>1, <2>2, <2>3, TidyGoes, ExactGoes DEF Diagnosed, upstream
<1>10. CASE Selected(c)
  <2>1. {"reloaded", "op"} \cap Tears = {} /\ "reloaded" \notin OnBudget
    BY DEF Tears, OnBudget
  <2>2. pc[c] = "selected" /\ kind[c] # "open" /\ pc[c] \in OnBudget
    BY <1>10 DEF Selected, Tidy, OpeningUp, OnBudget
  <2> QED
    BY <1>10, <2>1, <2>2, TidyGoes, ExactGoes DEF Selected, api, upstream
<1>11. CASE Initialised(c)
  <2>1. /\ {"opened", "op"} \cap Tears = {} /\ "opened" \notin OnBudget
        /\ "opened" \in OpeningUp
    BY DEF Tears, OnBudget, OpeningUp
  <2>2. pc[c] \in OnBudget
    BY <1>11 DEF Initialised, OnBudget
  <2> QED
    BY <1>11, <2>1, <2>2, TidyGoes, ExactGoes DEF Initialised, upstream
<1> QED
  BY <1>1, <1>2, <1>3, <1>5, <1>6, <1>7, <1>8, <1>9, <1>10, <1>11 DEF Selection

\* A load tells its caller, which waits for it and is not there yet.
LEMMA ReportsTidy ==
    ASSUME TypeOK, IInv, Tidy, NEW l \in loads, NEW next, Reports(l, next), next \notin Tears,
           ~l.abandoned /\ kind[l.by] = "open" => next \in OpeningUp,
           lateShutdown' = lateShutdown
    PROVE  Tidy'
<1>1. l.by \in Callers /\ kind' = kind
  BY InFlight DEF Reports, call
<1> QED
  BY <1>1 DEF Reports, Tidy, TypeOK

\* A load that goes on is still the only one, and nobody is past Settle.
LEMMA ExactLoad ==
    ASSUME TypeOK, IInv, Exact, NEW l \in loads, NEW m,
           loads' \subseteq {m},
           "load_fails" \in Faults \/ (~m.abandoned /\ (m.stage = "probing" => open' = m.target)),
           \A c \in Callers : pc'[c] \notin OnBudget,
           record' # NoBudget => open' = record'
    PROVE  Exact'
BY DEF Exact

LEMMA LoadStepCalm ==
    ASSUME Calm, TypeOK, IInv, CInv, NEW l \in loads, LoadStep(l)
    PROVE  CInv'
<1> USE DEF CInv
<1>0. /\ loads = {l} /\ l \in Load /\ record = NoBudget
      /\ \A c \in Callers : pc[c] \notin OnBudget
      /\ "load_fails" \in Faults \/ (~l.abandoned /\ (l.stage = "probing" => open = l.target))
      /\ "load_fails" \in Faults => \A c \in Callers : kind[c] # "open"
  BY InFlight DEF OnBudget, Settled, Exact, Calm, Tidy
<1>1. CASE LoadCloses(l)
  <2> DEFINE m == [l EXCEPT !.stage = "opening"]
  <2>1. loads' = {m} /\ UNCHANGED <<pc, kind, lateShutdown, record>>
    BY <1>0, <1>1 DEF LoadCloses, MovesTo, call
  <2>2. m.stage = "opening" /\ m.abandoned = l.abandoned
    BY <1>0 DEF Load
  <2>3. Tidy'
    BY <2>1, TidyStays
  <2> HIDE DEF m
  <2>4. Exact'
    BY <1>0, <2>1, <2>2, ExactLoad
  <2> QED
    BY <2>3, <2>4
<1>2. CASE Downloaded(l)
  <2> DEFINE m == [l EXCEPT !.stage = "probing"]
  <2>1. loads' \subseteq {m} /\ UNCHANGED <<pc, kind, lateShutdown, record>>
    BY <1>0, <1>2 DEF Downloaded, MovesTo, call
  <2>2. m.target = l.target /\ m.abandoned = l.abandoned
    BY <1>0 DEF Load
  <2>3. "load_fails" \in Faults \/ open' = l.target
    BY <1>2 DEF Downloaded
  <2>4. Tidy'
    BY <2>1, TidyStays
  <2> HIDE DEF m
  <2>5. Exact'
    BY <1>0, <2>1, <2>2, <2>3, ExactLoad
  <2> QED
    BY <2>4, <2>5
<1>3. CASE Recorded(l)
  <2> DEFINE next == IF pc[l.by] = "initialising" THEN "initialised" ELSE "selected"
  <2>1. /\ l.target # Imported /\ open = l.target /\ open' = open /\ lateShutdown' = lateShutdown
        /\ record' = (IF l.abandoned THEN record ELSE l.target)
        /\ loads' = {} /\ Reports(l, next)
    BY <1>0, <1>3, InFlight DEF Recorded, upstream
  <2>2. ~l.abandoned /\ kind[l.by] = "open" => pc[l.by] = "initialising"
    BY <1>0, InFlight DEF Tidy, OpeningUp, Loading
  <2>3. Tidy'
    BY <2>1, <2>2, ReportsTidy DEF Tears, OpeningUp
  <2>4. \A c \in Callers : pc'[c] \in OnBudget => open' = want'[c]
    BY <1>0, <2>1, InFlight, ReportsOwned DEF OnBudget, Settled
  <2>5. Exact'
    BY <1>0, <2>1, <2>4 DEF Exact
  <2> QED
    BY <2>3, <2>5
<1>4. CASE ImportLands(l)
  <2>1. /\ open' = Imported /\ record' \in {record, Imported} /\ lateShutdown' = lateShutdown
        /\ loads' = {} /\ Reports(l, "done")
    BY <1>0, <1>4 DEF ImportLands
  <2>2. ~l.abandoned => kind[l.by] # "open"
    <3>1. ~l.abandoned => l.target = Imported /\ l.by \in Callers
                          /\ l.target = IF pc[l.by] = "importing" THEN Imported ELSE want[l.by]
      BY <1>4, InFlight DEF ImportLands
    <3>2. ~l.abandoned => pc[l.by] = "importing"
      BY <3>1, AdapterAssumption DEF TypeOK
    <3> QED
      BY <3>1, <3>2 DEF Tidy, OpeningUp
  <2>3. Tidy'
    BY <2>1, <2>2, ReportsTidy DEF Tears
  <2>4. \A c \in Callers : pc'[c] \notin OnBudget
    BY <2>1, ReportsOwned DEF OnBudget, Settled
  <2> QED
    BY <1>0, <2>1, <2>3, <2>4 DEF Exact
<1>5. CASE LoadFails(l)
  <2>1. PICK f \in Failure : Reports(l, f)
    BY <1>5 DEF LoadFails
  <2>2. record' = NoBudget /\ loads' = {} /\ lateShutdown' = lateShutdown
    BY <1>0, <1>5 DEF LoadFails, NotLive, upstream
  <2>3. kind[l.by] # "open"
    <3>1. CASE "load_fails" \in Faults
      BY <1>0, <3>1, InFlight
    <3>2. CASE "load_fails" \notin Faults
      <4>1. open = NoBudget /\ open = l.target /\ ~l.abandoned
        BY <1>0, <1>5, <3>2 DEF LoadFails
      <4> QED
        BY <4>1, <1>0, AdapterAssumption DEF Load, Target
    <3> QED
      BY <3>1, <3>2
  <2>4. Tidy'
    BY <2>1, <2>2, <2>3, ReportsTidy DEF Tears, Failure
  <2>5. \A c \in Callers : pc'[c] \notin OnBudget
    BY <2>1, ReportsOwned DEF OnBudget, Settled, Failure
  <2> QED
    BY <2>2, <2>4, <2>5 DEF Exact
<1>6. CASE Diagnose(l)
  <2> DEFINE m == [l EXCEPT !.stage = "closing", !.abandoned = TRUE]
  <2>1. /\ loads' = {m} /\ record' = NoBudget /\ Stay(l.by, "diagnosing")
        /\ lateShutdown' = lateShutdown /\ l.by \in Callers
    BY <1>0, <1>6, InFlight DEF Diagnose, NotLive, upstream
  <2>2. "load_fails" \in Faults
    BY <1>0, <1>6, AdapterAssumption DEF Diagnose, Load, Target
  <2>3. Tidy'
    BY <1>0, <2>1, <2>2, TidyGoes DEF Tears
  <2>4. \A c \in Callers : pc'[c] \notin OnBudget
    BY <1>0, <2>1 DEF Stay, Goes, OnBudget, TypeOK
  <2> QED
    BY <2>1, <2>2, <2>3, <2>4 DEF Exact
<1>7. ~LoadTimesOut(l)
  BY DEF LoadTimesOut, Calm
<1> QED
  BY <1>1, <1>2, <1>3, <1>4, <1>5, <1>6, <1>7 DEF LoadStep

LEMMA OperationCalm ==
    ASSUME Calm, TypeOK, IInv, CInv, NEW c \in Callers, Operation(c)
    PROVE  CInv'
<1> USE TidyGoes, ExactGoes DEF CInv
<1>0. /\ pc[c] \in {"op", "done", "stopping"} \cup Failure => kind[c] # "open"
      /\ ({"idle", "stopping", "done"} \cup Failure) \cap (Tears \cup OnBudget) = {}
  BY DEF Tidy, OpeningUp, Failure, Tears, OnBudget
<1>1. CASE OpEnds(c)
  <2>1. PICK p \in {"done"} \cup Failure : Stay(c, p)
    BY <1>1 DEF OpEnds
  <2> QED
    BY <1>0, <1>1, <2>1 DEF OpEnds, api, upstream
<1>2. CASE OpTimesOut(c)
  BY <1>0, <1>2 DEF OpTimesOut, InfraFailures, api, Failure
<1>3. CASE Finish(c)
  BY <1>0, <1>3 DEF Finish, api, upstream
<1>4. CASE KeepAlive(c)
  BY <1>0, <1>4 DEF KeepAlive, api, upstream
<1>5. CASE Stop(c)
  BY <1>0, <1>5 DEF Stop, api, upstream
<1>6. CASE Stopped(c)
  BY <1>0, <1>6 DEF Stopped, ShutdownSettles, NotLive
<1>7. ~StopTimesOut(c)
  BY DEF StopTimesOut, Calm
<1> QED
  BY <1>1, <1>2, <1>3, <1>4, <1>5, <1>6, <1>7 DEF Operation

LEMMA TeardownCalm ==
    ASSUME TypeOK, IInv, CInv, NEW c \in Callers, Teardown(c) \/ ShutdownReply(c)
    PROVE  CInv'
<1> USE TidyGoes, ExactGoes DEF CInv
<1>0. /\ kind[c] # "cleanup" /\ pc[c] \notin Tears
      /\ Drops(c) \/ pc[c] = "dropping" => kind[c] # "open"
      /\ "dropping" \notin Tears \cup OnBudget
      /\ After(kind[c]) \notin Tears \cup OnBudget
  BY DEF Tidy, Drops, OpeningUp, Tears, OnBudget, After
<1>1. CASE NothingToDrop(c)
  BY <1>0, <1>1 DEF NothingToDrop, api, upstream
<1>2. CASE DropEntry(c)
  BY <1>0, <1>2 DEF DropEntry, NotLive, upstream
<1>3. CASE StartDrop(c)
  BY <1>0, <1>3 DEF StartDrop, api, upstream
<1>4. CASE Dropped(c)
  BY <1>0, <1>4 DEF Dropped, ShutdownSettles, NotLive
<1>5. ~CleanedUp(c) /\ ~NothingToTear(c) /\ ~TearEntry(c) /\ ~StartTear(c) /\ ~TornDown(c)
  BY <1>0 DEF CleanedUp, NothingToTear, TearEntry, StartTear, TornDown, Tears
<1> QED
  BY <1>1, <1>2, <1>3, <1>4, <1>5 DEF Teardown, ShutdownReply

LEMMA UnlockedCalm ==
    ASSUME TypeOK, IInv, CInv, NEW c \in Callers, Unlocked(c)
    PROVE  CInv'
<1> USE TidyGoes, ExactGoes DEF CInv
<1>0. "idle" \notin Tears \cup OnBudget /\ pc[c] \notin Tears
  BY DEF Tears, OnBudget, Tidy
<1>1. CASE Opened(c)
  BY <1>0, <1>1 DEF Opened, api, upstream
<1>2. ~Retreat(c) /\ ~Cleared(c)
  BY <1>0 DEF Retreat, Cleared, Tears
<1>3. CASE Reloaded(c)
  BY <1>0, <1>3 DEF Reloaded, api, upstream
<1>4. CASE Rebind(c)
  BY <1>0, <1>4, TidyEnter, ExactEnter DEF Rebind, api, upstream
<1>5. CASE Closed(c)
  BY <1>0, <1>5 DEF Closed, api, upstream
<1> QED
  BY <1>1, <1>2, <1>3, <1>4, <1>5 DEF Unlocked

(* An operation runs on its own budget and never on none, in every process *)
(* in which nothing stalls past its bound and no opening fails; in a stdio *)
(* process whatever fails at once (apiState.ts).                           *)
THEOREM AdapterOpHasBudget == Calm => (Spec => []OpHasBudget)
<1>1. Init => CInv
  BY DEF Init, CInv, Tidy, Exact, Tears, OnBudget
<1>2. ASSUME Calm, TypeOK, IInv, CInv, [Next]_vars PROVE CInv'
  <2>1. CASE StrayEnds
    BY <1>2, <2>1, TidyStays, ExactStays DEF CInv, StrayEnds, api, call
  <2>2. ~LateShutdownLands
    BY <1>2 DEF LateShutdownLands, CInv, Tidy
  <2>3. CASE UNCHANGED vars
    BY <1>2, <2>3, TidyStays, ExactStays DEF CInv, vars, api, upstream, call
  <2> QED
    BY <1>2, <2>1, <2>2, <2>3, RequestCalm, SelectionCalm, OperationCalm, TeardownCalm,
       UnlockedCalm, LoadStepCalm DEF Next, Proceeds
<1>3. CInv => OpHasBudget
  BY DEF CInv, Exact, OpHasBudget, OnBudget
<1> SUFFICES ASSUME Calm PROVE Spec => []OpHasBudget
  OBVIOUS
<1>4. TypeOK /\ IInv /\ CInv /\ [Next]_vars => CInv'
  BY <1>2
<1> QED
  BY <1>1, <1>3, <1>4, AdapterTypeOK, AdapterInv, PTL DEF Spec
=============================================================================
