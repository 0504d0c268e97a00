--------------------------- MODULE ApiLockProofs ----------------------------
(***************************************************************************)
(* The lock of ApiLock is typed, exclusive, handed on, bounded in its      *)
(* unfairness and order-preserving for any number of callers and budgets   *)
(* and any MaxSkips, and its steps are steps of the abstract ApiMutex.     *)
(***************************************************************************)
EXTENDS ApiLock, SequenceFacts, TLAPS

USE LockAssumption

(* What a hand-over does to the queue, position by position: the chosen    *)
(* waiter leaves, those before it are overtaken once, those after it move  *)
(* up (apiLock.ts, the splice in grantNext).                               *)
LEMMA HandOverQueue ==
    ASSUME TypeOK, NEW c, NEW i \in 1..Len(waiters), HandOver(c, i)
    PROVE  /\ waiters' \in Seq(Waiter)
           /\ Len(waiters') = Len(waiters) - 1
           /\ \A j \in 1..(Len(waiters) - 1) :
                  waiters'[j] = IF j < i THEN [waiters[j] EXCEPT !.overtaken = @ + 1]
                                         ELSE waiters[j + 1]
<1> DEFINE q == OvertakenBy(i)
<1>1. /\ Len(waiters) \in Nat
      /\ \A j \in 1..Len(waiters) : waiters[j] \in Waiter
  BY LenProperties, ElementOfSeq DEF TypeOK
<1>2. \A j \in 1..Len(waiters) :
          (IF j < i THEN [waiters[j] EXCEPT !.overtaken = @ + 1] ELSE waiters[j]) \in Waiter
  BY <1>1 DEF Waiter
<1>3. q \in [1..Len(waiters) -> Waiter]
  BY <1>2 DEF OvertakenBy
<1>4. q \in Seq(Waiter)
  BY <1>1, <1>3
<1>5. Len(q) = Len(waiters)
  BY <1>1, <1>3, <1>4, LenProperties
<1>6. waiters' = RemoveAt(q, i)
  BY DEF HandOver
<1>7. \A j \in 1..Len(waiters) :
          q[j] = IF j < i THEN [waiters[j] EXCEPT !.overtaken = @ + 1] ELSE waiters[j]
  BY DEF OvertakenBy
<1> HIDE DEF q
<1>8. /\ RemoveAt(q, i) \in Seq(Waiter)
      /\ Len(RemoveAt(q, i)) = Len(waiters) - 1
      /\ \A j \in 1..(Len(waiters) - 1) :
             RemoveAt(q, i)[j] = IF j < i THEN q[j] ELSE q[j + 1]
  BY <1>4, <1>5, RemoveAtProperties
<1>9. ASSUME NEW j \in 1..(Len(waiters) - 1)
      PROVE  waiters'[j] = IF j < i THEN [waiters[j] EXCEPT !.overtaken = @ + 1]
                                    ELSE waiters[j + 1]
  <2>1. j \in 1..Len(waiters) /\ j + 1 \in 1..Len(waiters)
    BY <1>1
  <2>2. CASE j < i
    BY <2>1, <2>2, <1>6, <1>7, <1>8
  <2>3. CASE ~(j < i)
    <3>1. q[j + 1] = waiters[j + 1]
      <4>1. ~(j + 1 < i)
        BY <2>3, <1>1
      <4>2. q[j + 1] = IF j + 1 < i THEN [waiters[j + 1] EXCEPT !.overtaken = @ + 1]
                                    ELSE waiters[j + 1]
        BY <2>1, <1>7
      <4> QED
        BY <4>1, <4>2
    <3> QED
      BY <2>3, <3>1, <1>6, <1>8
  <2> QED
    BY <2>2, <2>3
<1> QED
  BY <1>6, <1>8, <1>9

(* What joining the queue does to it (apiLock.ts, acquire).                *)
LEMMA AppendQueue ==
    ASSUME TypeOK, NEW w \in Waiter, waiters' = Append(waiters, w)
    PROVE  /\ waiters' \in Seq(Waiter)
           /\ Len(waiters') = Len(waiters) + 1
           /\ \A j \in 1..Len(waiters) : waiters'[j] = waiters[j]
           /\ waiters'[Len(waiters) + 1] = w
  BY AppendProperties, LenProperties DEF TypeOK

(* The entries of the queue are waiters.                                   *)
LEMMA WaiterTypes ==
    ASSUME TypeOK
    PROVE  /\ Len(waiters) \in Nat
           /\ \A j \in 1..Len(waiters) :
                  /\ waiters[j] \in Waiter
                  /\ waiters[j].who \in Callers
                  /\ waiters[j].ahead \in Nat
                  /\ waiters[j].overtaken \in Nat
<1>1. \A j \in 1..Len(waiters) : waiters[j] \in Waiter
  BY ElementOfSeq DEF TypeOK
<1> QED
  BY <1>1, LenProperties DEF TypeOK, Waiter
-----------------------------------------------------------------------------
(* The state of the lock stays well typed: in particular the skip counter  *)
(* never passes MAX_AFFINITY_SKIPS (apiLock.ts, grantNext).                *)
THEOREM LockTypeOK == Spec => []TypeOK
<1>1. Init => TypeOK
  <2>1. <<>> \in Seq(Waiter)
    BY EmptySeq
  <2>2. 0 \in 0..MaxSkips
    OBVIOUS
  <2> QED
    BY <2>1, <2>2, Zenon DEF Init, TypeOK, Hint, Owning
<1>2. TypeOK /\ [Next]_vars => TypeOK'
  <2> SUFFICES ASSUME TypeOK, [Next]_vars PROVE TypeOK'
    OBVIOUS
  <2>1. ASSUME NEW c \in Callers, NEW b \in Hint, Acquire(c, b) PROVE TypeOK'
    <3>1. CASE ~held
      BY <2>1, <3>1 DEF Acquire, TypeOK, Owning
    <3>2. CASE held
      <4> DEFINE w == [who |-> c, budget |-> b, ahead |-> Len(waiters), overtaken |-> 0]
      <4>1. w \in Waiter
        BY LenProperties DEF Waiter, TypeOK
      <4>2. waiters' = Append(waiters, w)
        BY <2>1, <3>2 DEF Acquire
      <4>3. waiters' \in Seq(Waiter)
        BY <4>1, <4>2, AppendQueue
      <4> QED
        BY <2>1, <3>2, <4>3 DEF Acquire, TypeOK, Owning
    <3> QED
      BY <3>1, <3>2 DEF TypeOK
  <2>2. ASSUME NEW c \in Callers, GrantNext(c), UNCHANGED loaded PROVE TypeOK'
    <3>2. ASSUME NEW i \in 1..Len(waiters), HandOver(c, i) PROVE TypeOK'
      <4>1. waiters' \in Seq(Waiter)
        BY <3>2, HandOverQueue
      <4>2. waiters[i] \in Waiter
        BY ElementOfSeq DEF TypeOK
      <4>3. consecutiveSkips' \in 0..MaxSkips
        BY <3>2 DEF HandOver, Chosen, AffinityMatch, TypeOK
      <4>4. pc' \in [Callers -> {"idle", "waiting"} \cup Owning]
        BY <3>2, <4>2 DEF HandOver, TypeOK, Owning, Waiter
      <4> QED
        BY <2>2, <3>2, <4>1, <4>3, <4>4 DEF HandOver, TypeOK
    <3>1. CASE /\ waiters = <<>> /\ held' = FALSE /\ consecutiveSkips' = 0
               /\ pc' = [pc EXCEPT ![c] = "idle"] /\ UNCHANGED waiters
      <4>1. waiters' \in Seq(Waiter) /\ loaded' \in Hint
        BY <2>2, <3>1 DEF TypeOK
      <4>2. pc' \in [Callers -> {"idle", "waiting"} \cup Owning]
        BY <3>1 DEF TypeOK
      <4>3. consecutiveSkips' \in 0..MaxSkips
        BY <3>1
      <4>4. held' \in BOOLEAN
        BY <3>1
      <4> QED
        BY <4>1, <4>2, <4>3, <4>4 DEF TypeOK
    <3> QED
      BY <2>2, <3>1, <3>2 DEF GrantNext
  <2>3. ASSUME NEW c \in Callers, Settle(c) PROVE TypeOK'
    BY <2>3 DEF Settle, TypeOK, Owning
  <2>4. ASSUME NEW c \in Callers, NEW b \in Hint, Body(c, b) PROVE TypeOK'
    BY <2>4 DEF Body, TypeOK
  <2>5. CASE RecordCleared
    BY <2>5 DEF RecordCleared, TypeOK, Hint
  <2>6. CASE UNCHANGED vars
    BY <2>6 DEF vars, TypeOK
  <2> QED
    BY <2>1, <2>2, <2>3, <2>4, <2>5, <2>6 DEF Next, CallerStep, SettleTimesOut, Finish
<1> QED
  BY <1>1, <1>2, PTL DEF Spec
-----------------------------------------------------------------------------
(* Who a hand-over makes the owner: a waiter, who is not the releaser.     *)
LEMMA HandOverOwner ==
    ASSUME TypeOK, OneOwner, NEW c \in Callers, pc[c] \in Owning,
           NEW i \in 1..Len(waiters), HandOver(c, i)
    PROVE  /\ waiters[i].who \in Callers
           /\ waiters[i].who # c
           /\ pc' = [d \in Callers |-> CASE d = waiters[i].who -> "granted"
                                       [] d = c -> "idle"
                                       [] OTHER -> pc[d]]
<1>1. waiters[i] \in Waiter
  BY ElementOfSeq DEF TypeOK
<1>2. waiters[i].who \in Callers /\ pc[waiters[i].who] = "waiting"
  BY <1>1 DEF Waiter, OneOwner
<1>3. waiters[i].who # c
  BY <1>2 DEF Owning
<1>4. pc' = [pc EXCEPT ![c] = "idle", ![waiters[i].who] = "granted"]
  BY DEF HandOver
<1> QED
  BY <1>2, <1>3, <1>4 DEF TypeOK

(* Releasing keeps exactly one owner and the queue in step with the        *)
(* callers' states (apiLock.ts, grantNext).                                *)
LEMMA GrantNextOneOwner ==
    ASSUME TypeOK, OneOwner, NEW c \in Callers, pc[c] \in Owning, GrantNext(c)
    PROVE  OneOwner'
<1>1. ASSUME /\ waiters = <<>> /\ held' = FALSE
             /\ pc' = [pc EXCEPT ![c] = "idle"] /\ UNCHANGED waiters
      PROVE  OneOwner'
  <2>1. Len(waiters) = 0
    BY <1>1
  <2>2. \A d \in Callers : pc'[d] = IF d = c THEN "idle" ELSE pc[d]
    BY <1>1 DEF TypeOK
  <2>3. \A d \in Callers : pc'[d] \notin Owning /\ pc'[d] # "waiting"
    BY <2>1, <2>2 DEF OneOwner, Owning
  <2> QED
    BY <1>1, <2>1, <2>3 DEF OneOwner
<1>2. ASSUME NEW i \in 1..Len(waiters), HandOver(c, i)
      PROVE  OneOwner'
  <2> DEFINE w == waiters[i].who
             n == Len(waiters)
  <2>1. /\ w \in Callers /\ w # c
        /\ \A d \in Callers : pc'[d] = IF d = w THEN "granted"
                                        ELSE IF d = c THEN "idle" ELSE pc[d]
    BY <1>2, HandOverOwner
  <2>2. n \in Nat /\ Len(waiters') = n - 1
    BY <1>2, HandOverQueue, LenProperties DEF TypeOK
  <2>3. \A j \in 1..n : waiters[j] \in Waiter
    BY ElementOfSeq DEF TypeOK
  <2>4. \A j \in 1..(n - 1) :
            waiters'[j].who = IF j < i THEN waiters[j].who ELSE waiters[j + 1].who
    <3> TAKE j \in 1..(n - 1)
    <3>1. waiters'[j] = IF j < i THEN [waiters[j] EXCEPT !.overtaken = @ + 1]
                                 ELSE waiters[j + 1]
      BY <1>2, HandOverQueue
    <3>2. waiters[j] \in Waiter
      BY <2>2, <2>3
    <3> QED
      BY <3>1, <3>2 DEF Waiter
  <2>5. held' = TRUE
    BY <1>2 DEF HandOver, OneOwner, TypeOK
  <2>6. \A d \in Callers : pc'[d] \in Owning <=> d = w
    BY <2>1 DEF OneOwner, Owning
  <2>7. \A j \in 1..n : waiters[j].who = w => j = i
    BY DEF OneOwner
  <2>8. ASSUME NEW d \in Callers, pc'[d] = "waiting"
        PROVE  \E j \in 1..(n - 1) : waiters'[j].who = d
    <3>1. d # w /\ pc[d] = "waiting"
      BY <2>1, <2>8
    <3>2. PICK k \in 1..n : waiters[k].who = d
      BY <3>1 DEF OneOwner
    <3>3. k # i
      BY <3>1, <3>2
    <3>4. CASE k < i
      BY <2>2, <2>4, <3>2, <3>4
    <3>5. CASE k > i
      <4>1. k - 1 \in 1..(n - 1) /\ ~(k - 1 < i) /\ (k - 1) + 1 = k
        BY <2>2, <3>5
      <4> QED
        BY <2>4, <3>2, <4>1
    <3> QED
      BY <2>2, <3>3, <3>4, <3>5
  <2>9. ASSUME NEW j \in 1..(n - 1)
        PROVE  pc'[waiters'[j].who] = "waiting"
    <3>1. PICK k \in 1..n : k # i /\ waiters'[j].who = waiters[k].who
      BY <2>2, <2>4
    <3>2. waiters[k].who \in Callers /\ pc[waiters[k].who] = "waiting"
      BY <2>3 DEF OneOwner, Waiter
    <3>3. waiters[k].who # w /\ waiters[k].who # c
      BY <2>7, <3>1, <3>2 DEF Owning
    <3> QED
      BY <2>1, <3>1, <3>2, <3>3
  <2>10. ASSUME NEW j \in 1..(n - 1), NEW k \in 1..(n - 1),
                waiters'[j].who = waiters'[k].who
         PROVE  j = k
    <3> DEFINE old(p) == IF p < i THEN p ELSE p + 1
    <3>1. /\ waiters'[j].who = waiters[old(j)].who
          /\ waiters'[k].who = waiters[old(k)].who
          /\ old(j) \in 1..n /\ old(k) \in 1..n
      BY <2>2, <2>4
    <3>2. \A p, q \in 1..n : waiters[p].who = waiters[q].who => p = q
      BY DEF OneOwner
    <3> HIDE DEF old
    <3>3. old(j) = old(k)
      BY <2>10, <3>1, <3>2
    <3> QED
      BY <2>2, <3>3 DEF old
  <2> QED
    BY <2>1, <2>2, <2>5, <2>6, <2>8, <2>9, <2>10 DEF OneOwner
<1> QED
  BY <1>1, <1>2 DEF GrantNext

(* One owner while the lock is held, none otherwise, and no waiter beside  *)
(* a free lock (apiLock.ts, acquire and grantNext).                        *)
THEOREM LockOneOwner == Spec => []OneOwner
<1>1. Init => OneOwner
  <2>1. Len(<<>>) = 0
    BY EmptySeq
  <2> QED
    BY <2>1 DEF Init, OneOwner, Owning
<1>2. TypeOK /\ OneOwner /\ [Next]_vars => OneOwner'
  <2> SUFFICES ASSUME TypeOK, OneOwner, [Next]_vars PROVE OneOwner'
    OBVIOUS
  <2>1. ASSUME NEW c \in Callers, NEW b \in Hint, Acquire(c, b) PROVE OneOwner'
    <3>1. CASE ~held
      <4>1. Len(waiters) = 0 /\ waiters = <<>>
        BY <3>1, EmptySeq DEF OneOwner
      <4>2. /\ held' = TRUE /\ waiters' = waiters
            /\ \A d \in Callers : pc'[d] = IF d = c THEN "granted" ELSE pc[d]
        BY <2>1, <3>1 DEF Acquire, TypeOK
      <4>3. \A d \in Callers : pc[d] \notin Owning /\ pc[d] # "waiting"
        BY <3>1, <4>1 DEF OneOwner
      <4> QED
        BY <4>1, <4>2, <4>3 DEF OneOwner, Owning
    <3>2. CASE held
      <4> DEFINE n == Len(waiters)
                 w == [who |-> c, budget |-> b, ahead |-> n, overtaken |-> 0]
      <4>1. n \in Nat /\ w \in Waiter
        BY LenProperties DEF Waiter, TypeOK
      <4>2. waiters' = Append(waiters, w)
        BY <2>1, <3>2 DEF Acquire
      <4>3. /\ Len(waiters') = n + 1 /\ waiters'[n + 1] = w
            /\ \A j \in 1..n : waiters'[j] = waiters[j]
        BY <4>1, <4>2, AppendQueue
      <4>4. /\ held' = held /\ pc[c] = "idle"
            /\ \A d \in Callers : pc'[d] = IF d = c THEN "waiting" ELSE pc[d]
        BY <2>1, <3>2 DEF Acquire, TypeOK
      <4>5. \A d \in Callers : pc'[d] \in Owning <=> pc[d] \in Owning
        BY <4>4 DEF Owning
      <4>6. \A j \in 1..n : waiters[j].who # c /\ waiters[j].who \in Callers
        BY <4>4, WaiterTypes DEF OneOwner
      <4>7. \A j \in 1..(n + 1) : pc'[waiters'[j].who] = "waiting"
        <5> TAKE j \in 1..(n + 1)
        <5>1. CASE j \in 1..n
          BY <5>1, <4>3, <4>4, <4>6 DEF OneOwner
        <5>2. CASE j = n + 1
          BY <5>2, <4>3, <4>4
        <5> QED
          BY <5>1, <5>2, <4>1
      <4>8. \A d \in Callers : pc'[d] = "waiting" =>
                \E j \in 1..(n + 1) : waiters'[j].who = d
        <5> SUFFICES ASSUME NEW d \in Callers, pc'[d] = "waiting"
                     PROVE  \E j \in 1..(n + 1) : waiters'[j].who = d
          OBVIOUS
        <5>1. CASE d = c
          <6>1. n + 1 \in 1..(n + 1) /\ waiters'[n + 1].who = d
            BY <5>1, <4>1, <4>3
          <6> QED
            BY <6>1
        <5>2. CASE d # c
          <6>1. PICK j \in 1..n : waiters[j].who = d
            BY <5>2, <4>4 DEF OneOwner
          <6>2. j \in 1..(n + 1) /\ waiters'[j].who = d
            BY <6>1, <4>1, <4>3
          <6> QED
            BY <6>2
        <5> QED
          BY <5>1, <5>2
      <4>9. \A j, k \in 1..(n + 1) : waiters'[j].who = waiters'[k].who => j = k
        <5> TAKE j, k \in 1..(n + 1)
        <5>1. CASE j \in 1..n /\ k \in 1..n
          BY <5>1, <4>3 DEF OneOwner
        <5>2. CASE j \in 1..n /\ k = n + 1
          BY <5>2, <4>3, <4>6
        <5>3. CASE j = n + 1 /\ k \in 1..n
          BY <5>3, <4>3, <4>6
        <5> QED
          BY <5>1, <5>2, <5>3, <4>1
      <4>10. /\ held' /\ \E d \in Callers : pc'[d] \in Owning
             /\ \A d, e \in Callers : pc'[d] \in Owning /\ pc'[e] \in Owning => d = e
        BY <3>2, <4>4, <4>5 DEF OneOwner
      <4> QED
        BY <4>3, <4>7, <4>8, <4>9, <4>10 DEF OneOwner
    <3> QED
      BY <3>1, <3>2 DEF TypeOK
  <2>2. ASSUME NEW c \in Callers, Settle(c) PROVE OneOwner'
    <3>1. /\ UNCHANGED <<held, waiters>> /\ pc[c] = "granted"
          /\ \A d \in Callers : pc'[d] = IF d = c THEN "running" ELSE pc[d]
      BY <2>2 DEF Settle, TypeOK
    <3>2. \A d \in Callers : /\ (pc'[d] \in Owning) <=> (pc[d] \in Owning)
                             /\ (pc'[d] = "waiting") <=> (pc[d] = "waiting")
      BY <3>1 DEF Owning
    <3>3. \A j \in 1..Len(waiters) : waiters[j].who \in Callers
      BY WaiterTypes
    <3> QED
      BY <3>1, <3>2, <3>3 DEF OneOwner
  <2>3. ASSUME NEW c \in Callers, pc[c] \in Owning, GrantNext(c) PROVE OneOwner'
    BY <2>3, GrantNextOneOwner
  <2>4. CASE UNCHANGED <<held, waiters, pc>>
    BY <2>4 DEF OneOwner
  <2> QED
    BY <2>1, <2>2, <2>3, <2>4
    DEF Next, CallerStep, SettleTimesOut, Finish, Body, RecordCleared, Owning, vars
<1> QED
  BY <1>1, <1>2, LockTypeOK, PTL DEF Spec
-----------------------------------------------------------------------------
(* Stronger than BoundedOvertaking, and inductive: what a waiter has been  *)
(* overtaken, plus what it can still be overtaken for the waiters in front *)
(* of it, never exceeds what the waiters it found in front allowed, plus   *)
(* the skips the present head has absorbed.                                *)
OvertakingBudget ==
    \A i \in 1..Len(waiters) :
        waiters[i].overtaken + MaxSkips * (i - 1)
            <= MaxSkips * waiters[i].ahead + consecutiveSkips

LEMMA ProductInt == ASSUME NEW x \in Int, NEW y \in Int PROVE x * y \in Int
OBVIOUS

LEMMA HandOverBudget ==
    ASSUME TypeOK, OvertakingBudget, NEW c, NEW i \in 1..Len(waiters), HandOver(c, i)
    PROVE  OvertakingBudget'
<1> DEFINE n == Len(waiters)
<1>1. n \in Nat /\ Len(waiters') = n - 1 /\ consecutiveSkips \in 0..MaxSkips
  BY HandOverQueue, LenProperties DEF TypeOK
<1> SUFFICES ASSUME NEW j \in 1..(n - 1)
             PROVE  waiters'[j].overtaken + MaxSkips * (j - 1)
                        <= MaxSkips * waiters'[j].ahead + consecutiveSkips'
  BY <1>1 DEF OvertakingBudget
<1>2. waiters'[j] = IF j < i THEN [waiters[j] EXCEPT !.overtaken = @ + 1]
                             ELSE waiters[j + 1]
  BY HandOverQueue
<1>3. /\ j \in 1..n /\ j + 1 \in 1..n
      /\ waiters[j] \in Waiter /\ waiters[j + 1] \in Waiter
  BY <1>1, ElementOfSeq DEF TypeOK
<1>4. CASE j < i
  <2> DEFINE o == waiters[j].overtaken
             a == MaxSkips * (j - 1)
             b == MaxSkips * waiters[j].ahead
  <2>1. waiters'[j].overtaken = o + 1 /\ MaxSkips * waiters'[j].ahead = b
    BY <1>2, <1>3, <1>4 DEF Waiter
  <2>2. consecutiveSkips' = consecutiveSkips + 1
    BY <1>4 DEF HandOver
  <2>3. o + a <= b + consecutiveSkips
    BY <1>3 DEF OvertakingBudget
  <2>4. o \in Int /\ a \in Int /\ b \in Int /\ consecutiveSkips \in Int
    <3>1. /\ o \in Int /\ waiters[j].ahead \in Int /\ j - 1 \in Int
          /\ consecutiveSkips \in Int /\ MaxSkips \in Int
      BY <1>1, <1>3, LockAssumption DEF Waiter
    <3> QED
      BY <3>1, ProductInt
  <2> HIDE DEF o, a, b
  <2>5. (o + 1) + a <= b + (consecutiveSkips + 1)
    BY <2>3, <2>4
  <2> QED
    BY <2>1, <2>2, <2>5 DEF a
<1>5. CASE ~(j < i)
  <2> DEFINE o == waiters[j + 1].overtaken
             a == MaxSkips * (j - 1)
             b == MaxSkips * waiters[j + 1].ahead
  <2>1. waiters'[j].overtaken = o /\ MaxSkips * waiters'[j].ahead = b
    BY <1>2, <1>5
  <2>2. o + MaxSkips * ((j + 1) - 1) <= b + consecutiveSkips
    BY <1>3 DEF OvertakingBudget
  <2>3. MaxSkips * ((j + 1) - 1) = a + MaxSkips
    BY <1>3
  <2>4. consecutiveSkips' >= 0 /\ consecutiveSkips' \in Int
    BY <1>1 DEF HandOver
  <2>5. /\ o \in Int /\ a \in Int /\ b \in Int /\ consecutiveSkips \in Int
        /\ consecutiveSkips <= MaxSkips /\ MaxSkips \in Int
    <3>1. /\ o \in Int /\ waiters[j + 1].ahead \in Int /\ j - 1 \in Int
          /\ consecutiveSkips \in Int /\ consecutiveSkips <= MaxSkips /\ MaxSkips \in Int
      BY <1>1, <1>3, LockAssumption DEF Waiter
    <3> QED
      BY <3>1, ProductInt
  <2> HIDE DEF o, a, b
  <2>6. o + (a + MaxSkips) <= b + consecutiveSkips
    BY <2>2, <2>3
  <2>7. o + a <= b + consecutiveSkips'
    <3> SUFFICES ASSUME NEW t \in Int, t >= 0 PROVE o + a <= b + t
      BY <2>4
    <3> QED
      BY <2>5, <2>6
  <2> QED
    BY <2>1, <2>7 DEF a
<1> QED
  BY <1>4, <1>5, <1>1

(* Bounded unfairness, for every MaxSkips and any number of callers        *)
(* (apiLock.ts, MAX_AFFINITY_SKIPS).                                       *)
THEOREM LockBoundedOvertaking == Spec => []BoundedOvertaking
<1>1. Init => OvertakingBudget
  <2>1. Len(<<>>) = 0
    BY EmptySeq
  <2> QED
    BY <2>1 DEF Init, OvertakingBudget
<1>2. TypeOK /\ OvertakingBudget /\ [Next]_vars => OvertakingBudget'
  <2> SUFFICES ASSUME TypeOK, OvertakingBudget, [Next]_vars PROVE OvertakingBudget'
    OBVIOUS
  <2>1. ASSUME NEW c \in Callers, NEW b \in Hint, Acquire(c, b), held
        PROVE  OvertakingBudget'
    <3> DEFINE n == Len(waiters)
               w == [who |-> c, budget |-> b, ahead |-> n, overtaken |-> 0]
    <3>1. n \in Nat /\ w \in Waiter
      BY LenProperties DEF Waiter, TypeOK
    <3>2. waiters' = Append(waiters, w) /\ consecutiveSkips' = consecutiveSkips
      BY <2>1 DEF Acquire
    <3>3. /\ Len(waiters') = n + 1 /\ waiters'[n + 1] = w
          /\ \A j \in 1..n : waiters'[j] = waiters[j]
      BY <3>1, <3>2, AppendQueue
    <3> SUFFICES ASSUME NEW j \in 1..(n + 1)
                 PROVE  waiters'[j].overtaken + MaxSkips * (j - 1)
                            <= MaxSkips * waiters'[j].ahead + consecutiveSkips
      BY <3>2, <3>3 DEF OvertakingBudget
    <3>4. CASE j \in 1..n
      BY <3>3, <3>4 DEF OvertakingBudget
    <3>5. CASE j = n + 1
      <4>1. waiters'[j].overtaken = 0 /\ waiters'[j].ahead = n
        BY <3>3, <3>5
      <4>2. MaxSkips * (j - 1) = MaxSkips * n /\ MaxSkips * n \in Int
        <5>1. j - 1 = n /\ n \in Int /\ MaxSkips \in Int
          BY <3>1, <3>5, LockAssumption
        <5> QED
          BY <5>1, ProductInt
      <4>3. consecutiveSkips >= 0 /\ consecutiveSkips \in Int
        BY DEF TypeOK
      <4> QED
        BY <4>1, <4>2, <4>3
    <3> QED
      BY <3>1, <3>4, <3>5
  <2>2. ASSUME NEW c \in Callers, GrantNext(c) PROVE OvertakingBudget'
    <3>1. CASE waiters = <<>> /\ UNCHANGED waiters
      <4>1. Len(waiters') = 0
        BY <3>1, EmptySeq
      <4> QED
        BY <4>1 DEF OvertakingBudget
    <3>2. ASSUME NEW i \in 1..Len(waiters), HandOver(c, i) PROVE OvertakingBudget'
      BY <3>2, HandOverBudget
    <3> QED
      BY <2>2, <3>1, <3>2 DEF GrantNext
  <2>3. CASE UNCHANGED <<waiters, consecutiveSkips>>
    BY <2>3 DEF OvertakingBudget
  <2> QED
    BY <2>1, <2>2, <2>3
    DEF Next, CallerStep, Acquire, Settle, SettleTimesOut, Finish, Body,
        RecordCleared, vars
<1>3. TypeOK /\ OvertakingBudget => BoundedOvertaking
  <2> SUFFICES ASSUME TypeOK, OvertakingBudget, NEW i \in 1..Len(waiters)
               PROVE  waiters[i].overtaken <= MaxSkips * (waiters[i].ahead + 1)
    BY DEF BoundedOvertaking
  <2>1. waiters[i] \in Waiter /\ consecutiveSkips \in 0..MaxSkips
    BY ElementOfSeq DEF TypeOK
  <2>2. waiters[i].overtaken + MaxSkips * (i - 1)
            <= MaxSkips * waiters[i].ahead + consecutiveSkips
    BY DEF OvertakingBudget
  <2>3. MaxSkips * (i - 1) \in Nat
    BY LenProperties DEF TypeOK
  <2>4. /\ MaxSkips * (waiters[i].ahead + 1) = MaxSkips * waiters[i].ahead + MaxSkips
        /\ MaxSkips * waiters[i].ahead \in Nat /\ waiters[i].overtaken \in Nat
    BY <2>1 DEF Waiter
  <2> QED
    BY <2>1, <2>2, <2>3, <2>4, SMTT(30)
<1> QED
  BY <1>1, <1>2, <1>3, LockTypeOK, PTL DEF Spec
-----------------------------------------------------------------------------
(* A waiter without a hint is never overtaken (apiLock.ts, the barrier in  *)
(* grantNext).                                                             *)
THEOREM LockBarrier == Spec => []BarrierNeverOvertaken
<1>1. Init => BarrierNeverOvertaken
  <2>1. Len(<<>>) = 0
    BY EmptySeq
  <2> QED
    BY <2>1 DEF Init, BarrierNeverOvertaken
<1>2. TypeOK /\ BarrierNeverOvertaken /\ [Next]_vars => BarrierNeverOvertaken'
  <2> SUFFICES ASSUME TypeOK, BarrierNeverOvertaken, [Next]_vars
               PROVE  BarrierNeverOvertaken'
    OBVIOUS
  <2>1. ASSUME NEW c \in Callers, NEW b \in Hint, Acquire(c, b), held
        PROVE  BarrierNeverOvertaken'
    <3> DEFINE n == Len(waiters)
               w == [who |-> c, budget |-> b, ahead |-> n, overtaken |-> 0]
    <3>1. n \in Nat /\ w \in Waiter
      BY WaiterTypes DEF Waiter
    <3>2. waiters' = Append(waiters, w)
      BY <2>1 DEF Acquire
    <3>3. /\ Len(waiters') = n + 1 /\ waiters'[n + 1] = w
          /\ \A j \in 1..n : waiters'[j] = waiters[j]
      BY <3>1, <3>2, AppendQueue
    <3>4. \A j \in 1..(n + 1) : j \in 1..n \/ j = n + 1
      BY <3>1
    <3> QED
      BY <3>3, <3>4 DEF BarrierNeverOvertaken
  <2>2. ASSUME NEW c \in Callers, NEW i \in 1..Len(waiters), HandOver(c, i)
        PROVE  BarrierNeverOvertaken'
    <3>1. Len(waiters) \in Nat /\ Len(waiters') = Len(waiters) - 1
      BY <2>2, HandOverQueue, WaiterTypes
    <3> SUFFICES ASSUME NEW j \in 1..(Len(waiters) - 1), waiters'[j].budget = NoBudget
                 PROVE  waiters'[j].overtaken = 0
      BY <3>1 DEF BarrierNeverOvertaken
    <3>2. waiters'[j] = IF j < i THEN [waiters[j] EXCEPT !.overtaken = @ + 1]
                                 ELSE waiters[j + 1]
      BY <2>2, HandOverQueue
    <3>3. /\ j \in 1..Len(waiters) /\ j + 1 \in 1..Len(waiters)
          /\ waiters[j] \in Waiter
      BY <3>1, WaiterTypes
    <3>4. CASE j < i
      <4>1. waiters[j].budget = NoBudget
        BY <3>2, <3>3, <3>4 DEF Waiter
      <4>2. i > 1 /\ j \in 1..(i - 1)
        BY <3>1, <3>4
      <4>3. waiters[j].budget # NoBudget
        BY <2>2, <4>2 DEF HandOver, Chosen, AffinityMatch
      <4> QED
        BY <4>1, <4>3
    <3>5. CASE ~(j < i)
      BY <3>2, <3>3, <3>5 DEF BarrierNeverOvertaken
    <3> QED
      BY <3>4, <3>5
  <2>3. CASE UNCHANGED waiters
    BY <2>3 DEF BarrierNeverOvertaken
  <2> QED
    BY <2>1, <2>2, <2>3
    DEF Next, CallerStep, Acquire, Settle, SettleTimesOut, Finish, GrantNext,
        Body, RecordCleared, vars
<1> QED
  BY <1>1, <1>2, LockTypeOK, PTL DEF Spec

(* Nobody is granted while an older waiter on the same budget stays queued *)
(* (apiLock.ts, the findIndex in grantNext).                               *)
THEOREM LockSameBudgetInOrder == Spec => SameBudgetInOrder
<1> DEFINE InOrder == \A i, j \in 1..Len(waiters) :
                         (/\ i < j
                          /\ waiters[i].budget = waiters[j].budget
                          /\ pc'[waiters[j].who] = "granted")
                             => pc'[waiters[i].who] # "waiting"
<1>1. TypeOK /\ OneOwner /\ [Next]_vars => [InOrder]_vars
  <2> SUFFICES ASSUME TypeOK, OneOwner, Next,
                      NEW i \in 1..Len(waiters), NEW j \in 1..Len(waiters),
                      i < j, waiters[i].budget = waiters[j].budget,
                      pc'[waiters[j].who] = "granted"
               PROVE  pc'[waiters[i].who] # "waiting"
    BY DEF vars
  <2>1. /\ waiters[i].who \in Callers /\ waiters[j].who \in Callers
        /\ pc[waiters[j].who] = "waiting" /\ pc[waiters[i].who] = "waiting"
        /\ Len(waiters) \in Nat
    BY WaiterTypes DEF OneOwner
  <2>2. ASSUME NEW c \in Callers, pc[c] \in Owning, NEW k \in 1..Len(waiters),
               HandOver(c, k)
        PROVE  pc'[waiters[i].who] # "waiting"
    <3>1. /\ waiters[k].who \in Callers
          /\ \A d \in Callers : pc'[d] = IF d = waiters[k].who THEN "granted"
                                          ELSE IF d = c THEN "idle" ELSE pc[d]
      BY <2>2, HandOverOwner
    <3>2. waiters[j].who = waiters[k].who
      BY <2>1, <3>1
    <3>3. j = k
      BY <3>2 DEF OneOwner
    <3>4. k > 1 /\ i \in 1..(k - 1)
      BY <2>1, <3>3
    <3>5. waiters[k].budget = loaded /\ waiters[i].budget # loaded
      BY <2>2, <3>4 DEF HandOver, Chosen, AffinityMatch
    <3> QED
      BY <3>3, <3>5
  <2>3. ASSUME NEW c \in Callers, pc[c] = "granted" \/ pc[c] = "running",
               NEW v \in {"running", "idle"}, pc' = [pc EXCEPT ![c] = v]
        PROVE  FALSE
    BY <2>1, <2>3 DEF TypeOK
  <2>4. ASSUME NEW c \in Callers, NEW b \in Hint, Acquire(c, b)
        PROVE  FALSE
    BY <2>1, <2>4 DEF Acquire, TypeOK
  <2>5. pc' # pc
    BY <2>1
  <2>6. PICK c \in Callers : CallerStep(c)
    BY <2>5 DEF Next, RecordCleared
  <2>7. CASE Settle(c)
    BY <2>3, <2>7 DEF Settle
  <2>8. CASE pc[c] \in Owning /\ GrantNext(c)
    <3>1. CASE \E k \in 1..Len(waiters) : HandOver(c, k)
      BY <2>2, <2>8, <3>1
    <3>2. CASE pc' = [pc EXCEPT ![c] = "idle"]
      BY <2>3, <2>8, <3>2 DEF Owning
    <3> QED
      BY <2>8, <3>1, <3>2 DEF GrantNext
  <2> QED
    BY <2>4, <2>5, <2>6, <2>7, <2>8
    DEF CallerStep, Body, SettleTimesOut, Finish, Owning
<1> QED
  BY <1>1, LockTypeOK, LockOneOwner, PTL DEF Spec, SameBudgetInOrder
-----------------------------------------------------------------------------
(* The safety part of the refinement: every step of the affinity lock is a *)
(* step, or a stuttering step, of the abstract mutex.                      *)
THEOREM LockImplementsMutexSafety == Spec => Mutex!MutexSafety
<1> DEFINE hs == {c \in Callers : pc[c] \in Owning}
           ws == {c \in Callers : pc[c] = "waiting"}
<1>1. Init => Mutex!MutexInit
  BY DEF Init, Mutex!MutexInit, Owning
<1>2. TypeOK /\ OneOwner /\ [Next]_vars => [Mutex!MutexNext]_(Mutex!mutexVars)
  <2> SUFFICES ASSUME TypeOK, OneOwner, [Next]_vars
               PROVE  Mutex!MutexNext \/ UNCHANGED <<hs, ws>>
    BY DEF Mutex!mutexVars
  <2>1. ASSUME NEW c \in Callers, NEW b \in Hint, Acquire(c, b)
        PROVE  Mutex!MutexNext
    <3>1. Mutex!Outside(c)
      BY <2>1 DEF Acquire, Mutex!Outside, Owning
    <3>2. CASE ~held
      <4>1. hs = {}
        BY <3>2 DEF OneOwner
      <4>2. \A d \in Callers : pc'[d] = IF d = c THEN "granted" ELSE pc[d]
        BY <2>1, <3>2 DEF Acquire, TypeOK
      <4>3. hs' = {c} /\ ws' = ws
        BY <2>1, <4>1, <4>2 DEF Acquire, Owning
      <4> QED
        BY <3>1, <4>1, <4>3 DEF Mutex!Take, Mutex!MutexNext
    <3>3. CASE held
      <4>1. hs # {}
        BY <3>3 DEF OneOwner
      <4>2. \A d \in Callers : pc'[d] = IF d = c THEN "waiting" ELSE pc[d]
        BY <2>1, <3>3 DEF Acquire, TypeOK
      <4>3. hs' = hs /\ ws' = ws \cup {c}
        BY <2>1, <4>2 DEF Acquire, Owning
      <4> QED
        BY <3>1, <4>1, <4>3 DEF Mutex!Wait, Mutex!MutexNext
    <3> QED
      BY <3>2, <3>3 DEF TypeOK
  <2>2. ASSUME NEW c \in Callers, pc[c] \in Owning, GrantNext(c)
        PROVE  Mutex!MutexNext
    <3>1. hs = {c}
      BY <2>2 DEF OneOwner
    <3>2. CASE waiters = <<>> /\ pc' = [pc EXCEPT ![c] = "idle"]
      <4>1. ws = {}
        BY <3>2, EmptySeq DEF OneOwner
      <4>2. \A d \in Callers : pc'[d] = IF d = c THEN "idle" ELSE pc[d]
        BY <3>2 DEF TypeOK
      <4>3. hs' = {} /\ ws' = ws
        BY <2>2, <3>1, <4>2 DEF Owning
      <4> QED
        BY <3>1, <4>1, <4>3 DEF Mutex!Release, Mutex!MutexNext
    <3>3. ASSUME NEW i \in 1..Len(waiters), HandOver(c, i)
          PROVE  Mutex!MutexNext
      <4>1. PICK w \in Callers : w = waiters[i].who
        BY <2>2, <3>3, HandOverOwner
      <4>2. /\ w # c
            /\ \A d \in Callers : pc'[d] = IF d = w THEN "granted"
                                            ELSE IF d = c THEN "idle" ELSE pc[d]
        BY <2>2, <3>3, <4>1, HandOverOwner
      <4>3. w \in ws
        BY <4>1 DEF OneOwner
      <4>4. hs' = {w} /\ ws' = ws \ {w}
        BY <2>2, <3>1, <4>2 DEF Owning
      <4>5. Mutex!HandOver(c, w)
        BY <3>1, <4>3, <4>4 DEF Mutex!HandOver
      <4> QED
        BY <4>5 DEF Mutex!MutexNext
    <3> QED
      BY <2>2, <3>2, <3>3 DEF GrantNext
  <2>3. ASSUME NEW c \in Callers, Settle(c)
        PROVE  UNCHANGED <<hs, ws>>
    <3>1. /\ pc[c] = "granted"
          /\ \A d \in Callers : pc'[d] = IF d = c THEN "running" ELSE pc[d]
      BY <2>3 DEF Settle, TypeOK
    <3> QED
      BY <3>1 DEF Owning
  <2>4. CASE UNCHANGED pc
    BY <2>4
  <2> QED
    BY <2>1, <2>2, <2>3, <2>4
    DEF Next, CallerStep, SettleTimesOut, Finish, Body, RecordCleared, Owning, vars
<1> QED
  BY <1>1, <1>2, LockTypeOK, LockOneOwner, PTL DEF Spec, Mutex!MutexSafety
=============================================================================
