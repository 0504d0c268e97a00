-------------------------- MODULE WriteQueueProofs --------------------------
(***************************************************************************)
(* The write queue's safety for any number of writes, with the operation   *)
(* timeout on or off.                                                      *)
(*                                                                         *)
(* The invariant orders the places an entry can be in: the entry that is   *)
(* being served, then the rest of the batch, then the queue, each in order *)
(* of arrival.  Every open promise is in one of them, none of those was    *)
(* run before, and a rejected one is marked so that the loop skips it.     *)
(***************************************************************************)
EXTENDS WriteQueue, SequenceFacts, TLAPS

Q == ToSet(queue)
B == ToSet(batch)

Tickets ==
    \A w \in Writes : ticket[w] <= arrivals /\ (outcome[w] = "new" <=> ticket[w] = 0)

Ordered ==
    /\ Increasing(queue, ticket) /\ Increasing(batch, ticket)
    /\ \A v \in B, w \in Q : ticket[v] < ticket[w]
    /\ current # None => \A w \in B \cup Q : ticket[current] < ticket[w]

Queued == \A w \in Q : outcome[w] = "pending" /\ w \notin began

Batched ==
    \A w \in B : /\ w \notin began
                 /\ outcome[w] = "pending" \/ (outcome[w] = "refused" /\ w \in settledEarly)

Reached ==
    current # None => outcome[current] = "pending" /\ (current \in began => stage = "running")

Timed ==
    \A w \in timers : IF opTimeout THEN w \in Q ELSE w \in B \/ outcome[w] = "refused"

Marked ==
    /\ \A w \in settledEarly : outcome[w] = "refused"
    /\ \A w \in began : outcome[w] # "new"

Staged ==
    /\ current # None <=> stage \in {"settling", "running"}
    /\ ~processing => stage = "idle"
    /\ stage \in {"idle", "closing"} => batch = <<>>

QInv ==
    /\ Tickets /\ Ordered /\ Queued /\ Batched /\ Reached /\ Timed /\ Marked /\ Staged
    /\ NeverRanHonest /\ InOrder /\ NobodyForgotten /\ NoLostWakeup
-----------------------------------------------------------------------------
LEMMA InitQInv == Init => TypeOK /\ QInv
<1> SUFFICES ASSUME Init PROVE TypeOK /\ QInv
  OBVIOUS
<1>1. queue = <<>> /\ batch = <<>> /\ Q = {} /\ B = {}
  BY ToSetMember, EmptySeq DEF Init, Q, B
<1>2. Increasing(<<>>, ticket)
  BY EmptySeq DEF Increasing
<1>3. TypeOK
  BY QueueAssumption, EmptySeq DEF Init, TypeOK, Stages, Outcomes
<1>4. NobodyForgotten /\ NoLostWakeup
  BY <1>1 DEF Init, NobodyForgotten, NoLostWakeup
<1> QED
  BY <1>1, <1>2, <1>3, <1>4 DEF Init, QInv, Tickets, Ordered, Queued, Batched, Reached, Timed,
     Marked, Staged, NeverRanHonest, InOrder

LEMMA Elements ==
    ASSUME TypeOK
    PROVE  /\ Q \subseteq Writes /\ B \subseteq Writes
           /\ queue = <<>> => Q = {}
           /\ batch = <<>> => B = {}
           /\ \A w \in Writes : ticket[w] \in Nat
BY ToSetMember DEF TypeOK, Q, B

LEMMA Places ==
    ASSUME TypeOK, QInv
    PROVE  /\ B \cap Q = {}
           /\ None \notin B \cup Q /\ current \notin B \cup Q
<1>1. \A v \in B \cup Q : ~(ticket[v] < ticket[v])
  BY Elements
<1> QED
  BY <1>1, Elements, QueueAssumption DEF QInv, Ordered

LEMMA EnqueueKeeps ==
    ASSUME TypeOK, QInv, NEW w \in Writes, Enqueue(w)
    PROVE  TypeOK' /\ QInv'
<1>1. /\ queue' \in Seq(Writes) /\ Q' = Q \cup {w} /\ B' = B
      /\ outcome[w] = "new" /\ outcome' = [outcome EXCEPT ![w] = "pending"]
      /\ ticket' = [ticket EXCEPT ![w] = arrivals + 1] /\ arrivals' = arrivals + 1
      /\ debounce' = TRUE
      /\ timers' = IF opTimeout THEN timers \cup {w} ELSE timers
      /\ UNCHANGED <<pending, processing, batch, current, stage, stuck,
                     settledEarly, began, opTimeout>>
  BY AppendFacts DEF Enqueue, TypeOK, Q, B, drain
<1>2. TypeOK'
  BY <1>1 DEF TypeOK, Outcomes
<1>3. w \notin Q \cup B \cup {current}
  BY <1>1, QueueAssumption DEF QInv, Queued, Batched, Reached, TypeOK
<1>4. /\ \A v \in Writes : v # w => ticket'[v] = ticket[v] /\ outcome'[v] = outcome[v]
      /\ ticket'[w] = arrivals + 1 /\ outcome'[w] = "pending"
  BY <1>1 DEF TypeOK
<1>5. Increasing(queue', ticket') /\ Increasing(batch', ticket')
  <2>1. Increasing(queue, ticket') /\ Increasing(batch, ticket')
    <3>1. /\ \A i \in 1..Len(queue) : queue[i] \in Q
          /\ \A i \in 1..Len(batch) : batch[i] \in B
      BY ToSetMember DEF TypeOK, Q, B
    <3>2. \A v \in Q \cup B : ticket'[v] = ticket[v]
      BY <1>3, <1>4, Elements
    <3> QED
      BY <1>1, <3>1, <3>2 DEF QInv, Ordered, Increasing
  <2>2. \A v \in Q : ticket'[v] < ticket'[w]
    <3>1. \A v \in Q : v \in Writes /\ v # w /\ ticket[v] \in Nat
      BY <1>3, Elements
    <3>2. \A v \in Q : ticket'[v] = ticket[v] /\ ticket[v] <= arrivals
      BY <1>4, <3>1 DEF QInv, Tickets
    <3>3. arrivals \in Nat
      BY DEF TypeOK
    <3> QED
      BY <1>4, <3>1, <3>2, <3>3
  <2>3. queue' = Append(queue, w) /\ queue \in Seq(Writes)
    BY DEF Enqueue, TypeOK
  <2> QED
    BY <1>1, <2>1, <2>2, <2>3, AppendFacts DEF Q
<1>6. Tickets' /\ Ordered'
  <2>1. Tickets'
    BY <1>1, <1>4 DEF QInv, Tickets, TypeOK
  <2>2. \A v \in B \cup {current} : v # None => ticket'[v] <= arrivals /\ ticket'[v] = ticket[v]
    <3>1. \A v \in B \cup {current} : v # None => v \in Writes /\ v # w
      BY <1>3, Elements DEF TypeOK
    <3> QED
      BY <1>4, <3>1 DEF QInv, Tickets
  <2>3. \A v \in Q : ticket'[v] = ticket[v]
    BY <1>3, <1>4, Elements
  <2>4. \A v \in B, x \in Q' : ticket'[v] < ticket'[x]
    <3> TAKE v \in B, x \in Q'
    <3>1. v # None /\ ticket'[v] = ticket[v] /\ ticket[v] <= arrivals
      BY <2>2, Elements, QueueAssumption
    <3>2. CASE x = w
      BY <1>4, <3>1, <3>2, Elements DEF TypeOK
    <3>3. CASE x \in Q
      BY <2>3, <3>1, <3>3 DEF QInv, Ordered
    <3> QED
      BY <1>1, <3>2, <3>3
  <2>5. ASSUME current # None, NEW x \in B \cup Q'
        PROVE  ticket'[current] < ticket'[x]
    <3>1. /\ ticket'[current] = ticket[current] /\ ticket[current] <= arrivals
          /\ current \in Writes
      BY <2>2, <2>5 DEF TypeOK
    <3>2. CASE x = w
      BY <1>4, <3>1, <3>2, Elements DEF TypeOK
    <3>3. CASE x \in Q
      BY <2>3, <2>5, <3>1, <3>3 DEF QInv, Ordered
    <3>4. CASE x \in B
      BY <2>2, <2>5, <3>1, <3>4, Elements, QueueAssumption DEF QInv, Ordered
    <3> QED
      BY <1>1, <2>5, <3>2, <3>3, <3>4
  <2> QED
    BY <1>1, <1>5, <2>1, <2>4, <2>5 DEF Ordered
<1>7. Queued' /\ Batched' /\ Reached' /\ Marked' /\ NeverRanHonest'
  BY <1>1, <1>3, <1>4, Elements, QueueAssumption
  DEF QInv, Queued, Batched, Reached, Marked, NeverRanHonest, TypeOK
<1>8. Timed' /\ Staged' /\ NoLostWakeup'
  BY <1>1, <1>3, <1>4, Elements DEF QInv, Timed, Staged, NoLostWakeup, TypeOK
<1>9. InOrder'
  BY <1>1, <1>4 DEF QInv, InOrder, Tickets, Marked, TypeOK
<1>10. NobodyForgotten'
  BY <1>1, <1>4 DEF QInv, NobodyForgotten, Q, B
<1> QED
  BY <1>2, <1>6, <1>7, <1>8, <1>9, <1>10 DEF QInv

\* Promises are only settled, never opened or settled twice.
Settling ==
    /\ outcome' \in [Writes -> Outcomes]
    /\ \A v \in Writes : outcome'[v] # outcome[v] =>
           outcome[v] = "pending" /\ outcome'[v] \notin {"new", "pending"}

LEMMA SettlingKeeps ==
    ASSUME TypeOK, QInv, Settling, UNCHANGED <<ticket, arrivals>>
    PROVE  /\ Tickets'
           /\ began' = began => InOrder' /\ \A v \in began' : outcome'[v] # "new"
<1>1. Tickets'
  BY DEF QInv, Tickets, Settling
<1>2. ASSUME began' = began PROVE InOrder' /\ \A v \in began' : outcome'[v] # "new"
  BY <1>2 DEF QInv, InOrder, Marked, Settling, TypeOK
<1> QED
  BY <1>1, <1>2

LEMMA ToldSettles ==
    ASSUME TypeOK, NEW w \in Writes, NEW o \in {"resolved", "failed", "refused"}, Told(w, o)
    PROVE  /\ Settling
           /\ \A v \in Writes : v # w => outcome'[v] = outcome[v]
           /\ outcome[w] = "pending" => outcome'[w] = o
           /\ outcome[w] # "pending" => outcome'[w] = outcome[w]
BY DEF TypeOK, Told, Settling, Outcomes

LEMMA ResidencyKeeps ==
    ASSUME TypeOK, QInv, NEW w \in Writes, ResidencyExpires(w)
    PROVE  TypeOK' /\ QInv'
<1>1. PICK i \in 1..Len(queue) : queue[i] = w /\ queue' = RemoveAt(queue, i)
  BY DEF ResidencyExpires
<1>2. queue' \in Seq(Writes) /\ Q' = Q \ {w} /\ Increasing(queue', ticket)
  <2>1. queue \in Seq(Writes) /\ Increasing(queue, ticket) /\ \A x \in Writes : ticket[x] \in Nat
    BY Elements DEF TypeOK, QInv, Ordered
  <2>2. /\ RemoveAt(queue, i) \in Seq(Writes)
        /\ ToSet(RemoveAt(queue, i)) = ToSet(queue) \ {queue[i]}
        /\ Increasing(RemoveAt(queue, i), ticket)
    BY <2>1, RemoveAtFacts
  <2> QED
    BY <1>1, <2>2 DEF Q
<1>3. w \in Q /\ outcome[w] = "pending" /\ w \notin began
  BY <1>1, ToSetMember DEF TypeOK, Q, QInv, Queued
<1>4. /\ B' = B /\ timers' = timers \ {w}
      /\ UNCHANGED <<debounce, pending, processing, batch, current, stage, stuck,
                     settledEarly, began, ticket, arrivals, opTimeout>>
  BY DEF ResidencyExpires, drain, history, B
<1>5. /\ Settling /\ outcome'[w] = "refused"
      /\ \A v \in Writes : v # w => outcome'[v] = outcome[v]
  BY <1>3, ToldSettles DEF ResidencyExpires
<1>6. TypeOK'
  BY <1>2, <1>4, <1>5 DEF TypeOK, Settling
<1>7. w \notin B /\ w # current
  BY <1>3, Places
<1>8. Tickets' /\ InOrder' /\ Marked'
  BY <1>4, <1>5, SettlingKeeps DEF QInv, Marked, TypeOK
<1>9. Ordered' /\ Queued' /\ Batched' /\ Reached'
  BY <1>2, <1>3, <1>4, <1>5, <1>7, Elements
  DEF QInv, Ordered, Queued, Batched, Reached, TypeOK
<1>10. Timed' /\ Staged' /\ NeverRanHonest'
  BY <1>2, <1>3, <1>4, <1>5, <1>7, Elements
  DEF QInv, Timed, Staged, NeverRanHonest, TypeOK
<1>11. queue # <<>>
  BY <1>1, EmptySeq
<1>12. NobodyForgotten' /\ NoLostWakeup'
  BY <1>2, <1>4, <1>5, <1>11 DEF QInv, NobodyForgotten, NoLostWakeup, Q, B
<1> QED
  BY <1>6, <1>8, <1>9, <1>10, <1>12 DEF QInv

LEMMA StrandedKeeps ==
    ASSUME TypeOK, QInv, NEW w \in Writes, StrandedExpires(w)
    PROVE  TypeOK' /\ QInv'
<1>1. /\ Q' = Q /\ B' = B /\ timers' = timers \ {w} /\ ~opTimeout
      /\ settledEarly' = settledEarly \cup {w}
      /\ UNCHANGED <<queue, debounce, pending, processing, batch, current, stage, stuck,
                     began, ticket, arrivals, opTimeout>>
  BY DEF StrandedExpires, drain, history, Q, B
<1>2. w \in B \/ outcome[w] = "refused"
  BY <1>1 DEF StrandedExpires, QInv, Timed
<1>3. w \notin began /\ outcome'[w] = "refused"
  BY <1>2, ToldSettles DEF StrandedExpires, QInv, Batched, NeverRanHonest
<1>4. Settling /\ \A v \in Writes : v # w => outcome'[v] = outcome[v]
  BY ToldSettles DEF StrandedExpires
<1>5. w \notin Q /\ w # current
  BY <1>2, Places, QueueAssumption DEF QInv, Queued, Reached
<1>6. TypeOK'
  BY <1>1, <1>4 DEF TypeOK, Settling
<1>7. Tickets' /\ InOrder' /\ Marked'
  BY <1>1, <1>3, <1>4, SettlingKeeps DEF QInv, Marked, TypeOK
<1>8. Ordered' /\ Queued' /\ Batched' /\ Reached'
  BY <1>1, <1>3, <1>4, <1>5, Elements
  DEF QInv, Ordered, Queued, Batched, Reached, TypeOK
<1>9. Timed' /\ Staged' /\ NeverRanHonest'
  BY <1>1, <1>3, <1>4, <1>5, Elements
  DEF QInv, Timed, Staged, NeverRanHonest, TypeOK
<1>10. NobodyForgotten' /\ NoLostWakeup'
  BY <1>1, <1>3, <1>4 DEF QInv, NobodyForgotten, NoLostWakeup, Q, B
<1> QED
  BY <1>6, <1>7, <1>8, <1>9, <1>10 DEF QInv

LEMMA DebounceKeeps ==
    ASSUME TypeOK, QInv, DebounceFires
    PROVE  TypeOK' /\ QInv'
<1>1. UNCHANGED <<pending, settledEarly, outcome, began, ticket, arrivals, opTimeout>>
  BY DEF DebounceFires, history
<1>2. CASE processing \/ queue = <<>>
  <2>1. UNCHANGED <<queue, timers, processing, batch, current, stage, stuck>> /\ debounce' = FALSE
    BY <1>2 DEF DebounceFires, drain
  <2>2. Q' = Q /\ B' = B
    BY <2>1 DEF Q, B
  <2>3. TypeOK'
    BY <1>1, <2>1 DEF TypeOK
  <2> QED
    BY <1>1, <1>2, <2>1, <2>2, <2>3
    DEF QInv, Tickets, Ordered, Queued, Batched, Reached, Timed, Marked, Staged,
        NeverRanHonest, InOrder, NobodyForgotten, NoLostWakeup
<1>3. CASE ~(processing \/ queue = <<>>)
  <2>1. Dispatch /\ debounce' = FALSE
    BY <1>3 DEF DebounceFires
  <2>2. batch = <<>> /\ current = None /\ B = {}
    BY <1>3, Elements DEF QInv, Staged
  <2>3. queue' = <<>> /\ batch' = queue /\ Q' = {} /\ B' = Q
    BY <2>1, EmptySeq, ToSetMember DEF Dispatch, Q, B
  <2>4. /\ timers' = IF opTimeout THEN timers \ Q ELSE Q
        /\ processing' = TRUE /\ stage' = "locking" /\ stuck' = FALSE /\ current' = current
    BY <2>1 DEF Dispatch, Q
  <2>5. TypeOK'
    BY <1>1, <2>1, <2>3, <2>4, Elements, EmptySeq DEF TypeOK, Stages
  <2>6. Ordered'
    BY <1>1, <2>2, <2>3, <2>4, EmptySeq DEF QInv, Ordered, Increasing
  <2>7. Tickets' /\ Marked' /\ NeverRanHonest' /\ InOrder'
    BY <1>1 DEF QInv, Tickets, Marked, NeverRanHonest, InOrder
  <2>7a. Queued' /\ Batched' /\ Reached'
    <3>1. /\ \A v \in Q : outcome[v] = "pending" /\ v \notin began
          /\ current' = None
      BY <2>2, <2>4 DEF QInv, Queued
    <3>2. \A v \in B' : outcome'[v] = "pending" /\ v \notin began'
      BY <1>1, <2>3, <3>1
    <3>3. Batched'
      BY <3>2 DEF Batched
    <3> QED
      BY <2>3, <3>1, <3>3 DEF Queued, Reached
  <2>8. Timed' /\ Staged' /\ NoLostWakeup'
    BY <1>1, <2>2, <2>3, <2>4 DEF QInv, Timed, Staged, NoLostWakeup
  <2>9. NobodyForgotten'
    BY <1>1, <2>2, <2>3, <2>4, QueueAssumption DEF QInv, NobodyForgotten, Q, B
  <2> QED
    BY <2>5, <2>6, <2>7, <2>7a, <2>8, <2>9 DEF QInv
<1> QED
  BY <1>2, <1>3

LEMMA FinishesKeeps ==
    ASSUME TypeOK, QInv, NEW o \in {"resolved", "failed", "refused"}, Finishes(o),
           stage \in {"settling", "running"}, o = "refused" => stage = "settling",
           UNCHANGED <<began, ticket, arrivals>>,
           UNCHANGED opTimeout, pending' \in BOOLEAN, stuck' \in BOOLEAN
    PROVE  TypeOK' /\ QInv'
<1>1. /\ Q' = Q /\ B' = B /\ current' = None /\ stage' = "looping"
      /\ UNCHANGED <<queue, debounce, processing, batch, timers, settledEarly>>
  BY DEF Finishes, Q, B
<1>2. /\ current # None /\ current \in Writes /\ outcome[current] = "pending" /\ processing
      /\ stage = "settling" => current \notin began
  BY DEF QInv, Staged, Reached, TypeOK
<1>3. /\ Settling /\ outcome'[current] = o
      /\ \A v \in Writes : v # current => outcome'[v] = outcome[v]
  BY <1>2, ToldSettles DEF Finishes
<1>4. TypeOK'
  BY <1>1, <1>3 DEF TypeOK, Settling, Stages
<1>5. Tickets' /\ InOrder' /\ Marked'
  <2>1. current \notin settledEarly
    BY <1>2 DEF QInv, Marked
  <2>2. settledEarly \subseteq Writes
    BY DEF TypeOK
  <2> QED
    BY <1>1, <1>3, <2>1, <2>2, SettlingKeeps DEF QInv, Marked
<1>6. \A v \in Q \cup B : v \in Writes /\ outcome'[v] = outcome[v]
  BY <1>3, Places, Elements
<1>7. Ordered' /\ Queued' /\ Batched' /\ Reached'
  BY <1>1, <1>6 DEF QInv, Ordered, Queued, Batched, Reached
<1>8. Timed' /\ Staged'
  BY <1>1, <1>2, <1>3 DEF QInv, Timed, Staged, TypeOK
<1>9. NeverRanHonest'
  BY <1>2, <1>3 DEF QInv, NeverRanHonest
<1>10. NobodyForgotten' /\ NoLostWakeup'
  BY <1>1, <1>3 DEF QInv, NobodyForgotten, NoLostWakeup, Q, B
<1> QED
  BY <1>4, <1>5, <1>7, <1>8, <1>9, <1>10 DEF QInv

LEMMA ReachesFacts ==
    ASSUME TypeOK, QInv, NEW w \in Writes, Reaches(w), UNCHANGED <<queue, ticket, opTimeout>>
    PROVE  /\ batch' \in Seq(Writes) /\ w \in B /\ B' = B \ {w} /\ Q' = Q
           /\ Increasing(batch', ticket) /\ \A x \in B' : ticket[w] < ticket[x]
           /\ w \notin began /\ (w \notin settledEarly => outcome[w] = "pending")
           /\ stage = "looping" /\ current = None /\ processing
           /\ timers' \in SUBSET Writes
           /\ \A v \in timers' : (v # w /\ v \in timers) \/ (~opTimeout /\ v \in B')
<1>1. /\ batch \in Seq(Writes) /\ batch # <<>> /\ Increasing(batch, ticket)
      /\ \A x \in Writes : ticket[x] \in Nat
  BY Elements DEF Reaches, TypeOK, QInv, Ordered
<1>2. batch' = Tail(batch) /\ w = Head(batch)
  BY DEF Reaches
<1>3. /\ Tail(batch) \in Seq(Writes)
      /\ ToSet(Tail(batch)) = ToSet(batch) \ {Head(batch)}
      /\ Increasing(Tail(batch), ticket)
      /\ \A x \in ToSet(Tail(batch)) : ticket[Head(batch)] < ticket[x]
  BY <1>1, TailFacts
<1>4. Head(batch) \in ToSet(batch)
  BY <1>1, ToSetMember
<1>5. /\ batch' \in Seq(Writes) /\ w \in B /\ B' = B \ {w} /\ Q' = Q
      /\ Increasing(batch', ticket) /\ \A x \in B' : ticket[w] < ticket[x]
  BY <1>2, <1>3, <1>4 DEF B, Q
<1>6. w \notin began /\ (w \notin settledEarly => outcome[w] = "pending")
  BY <1>5 DEF QInv, Batched
<1>7. stage = "looping" /\ current = None /\ processing
  BY DEF Reaches, QInv, Staged
<1>8. timers' = IF opTimeout THEN timers \ {w} ELSE (timers \ {w}) \cup (B' \ settledEarly)
  BY <1>2 DEF Reaches, B
<1>9. B' \subseteq Writes /\ timers \subseteq Writes
  BY <1>5, Elements DEF TypeOK
<1>10. timers' \in SUBSET Writes
  BY <1>8, <1>9
<1>11. \A v \in timers' : (v # w /\ v \in timers) \/ (~opTimeout /\ v \in B')
  BY <1>5, <1>8
<1> QED
  BY <1>5, <1>6, <1>7, <1>10, <1>11

LEMMA LoopsKeeps ==
    ASSUME TypeOK, QInv, NEW w \in Writes, Loops(w)
    PROVE  TypeOK' /\ QInv'
<1>1. /\ Reaches(w)
      /\ UNCHANGED <<queue, debounce, pending, processing, stuck, settledEarly, began,
                     ticket, arrivals, opTimeout>>
  BY DEF Loops, SkipEntry, FailFast, StartEntry, history
<1>2. /\ batch' \in Seq(Writes) /\ w \in B /\ B' = B \ {w} /\ Q' = Q
      /\ Increasing(batch', ticket) /\ \A x \in B' : ticket[w] < ticket[x]
      /\ w \notin began /\ (w \notin settledEarly => outcome[w] = "pending")
      /\ stage = "looping" /\ current = None /\ processing
      /\ timers' \in SUBSET Writes
      /\ \A v \in timers' : (v # w /\ v \in timers) \/ (~opTimeout /\ v \in B')
  BY <1>1, ReachesFacts
<1>3. \/ /\ w \in settledEarly /\ outcome[w] = "refused"
         /\ outcome' = outcome /\ current' = None /\ stage' = "looping"
      \/ /\ w \notin settledEarly /\ outcome'[w] = "refused"
         /\ \A v \in Writes : v # w => outcome'[v] = outcome[v]
         /\ Settling /\ current' = None /\ stage' = "looping"
      \/ /\ w \notin settledEarly /\ UNCHANGED outcome
         /\ current' = w /\ stage' = "settling"
  <2>1. CASE SkipEntry(w)
    BY <1>2, <2>1 DEF SkipEntry, Skips, QInv, Marked
  <2>2. CASE FailFast(w)
    BY <1>2, <2>2, ToldSettles DEF FailFast, FailsFast, Skips
  <2>3. CASE StartEntry(w)
    BY <2>3 DEF StartEntry, Skips
  <2> QED
    BY <2>1, <2>2, <2>3 DEF Loops
<1>4. Settling /\ \A v \in Writes : v # w => outcome'[v] = outcome[v]
  BY <1>3 DEF Settling, TypeOK
<1>5. \/ current' = None /\ stage' = "looping"
      \/ current' = w /\ stage' = "settling"
  BY <1>2, <1>3
<1>6. TypeOK'
  BY <1>1, <1>2, <1>4, <1>5 DEF TypeOK, Settling, Stages
<1>7. Tickets' /\ InOrder' /\ Marked'
  <2>1. \A v \in settledEarly : outcome'[v] = "refused"
    BY <1>4 DEF QInv, Marked, Settling, TypeOK
  <2> QED
    BY <1>1, <1>4, <2>1, SettlingKeeps DEF Marked
<1>8. \A v \in Q \cup B' : v \in Writes /\ v # w /\ outcome'[v] = outcome[v]
  BY <1>2, <1>4, Places, Elements
<1>9. Ordered'
  <2>1. \A v \in B, x \in Q : ticket[v] < ticket[x]
    BY DEF QInv, Ordered
  <2>2. Increasing(queue, ticket)
    BY DEF QInv, Ordered
  <2>3. current' # None => \A x \in B' \cup Q' : ticket[current'] < ticket[x]
    BY <1>2, <1>5, <2>1
  <2> QED
    BY <1>1, <1>2, <2>1, <2>2, <2>3 DEF Ordered
<1>10. Queued' /\ Batched'
  BY <1>1, <1>2, <1>8 DEF QInv, Queued, Batched
<1>11. Reached'
  BY <1>1, <1>2, <1>3, <1>5 DEF Reached
<1>12. Timed'
  <2>1. ASSUME NEW v \in timers'
        PROVE  IF opTimeout THEN v \in Q' ELSE v \in B' \/ outcome'[v] = "refused"
    BY <1>2, <1>4, <2>1 DEF QInv, Timed
  <2> QED
    BY <1>1, <2>1 DEF Timed
<1>13. Staged'
  BY <1>1, <1>2, <1>5, QueueAssumption DEF Staged
<1>14. NeverRanHonest'
  BY <1>1, <1>2, <1>4 DEF QInv, NeverRanHonest
<1>15. NoLostWakeup'
  BY <1>1 DEF QInv, NoLostWakeup
<1>16. NobodyForgotten'
  <2>1. ASSUME NEW v \in Writes, outcome'[v] = "pending"
        PROVE  v \in Q' \cup B' \cup {current'}
    <3>1. outcome[v] = "pending"
      BY <1>4, <2>1 DEF Settling
    <3>2. v \in Q \cup B
      BY <1>2, <3>1, QueueAssumption DEF QInv, NobodyForgotten, Q, B
    <3>3. v = w => current' = w
      BY <1>3, <2>1
    <3> QED
      BY <1>2, <3>2, <3>3
  <2> QED
    BY <2>1 DEF NobodyForgotten, Q, B
<1> QED
  BY <1>6, <1>7, <1>9, <1>10, <1>11, <1>12, <1>13, <1>14, <1>15, <1>16 DEF QInv

\* The drain is done with its batch: whoever was still in it is told so.
LEMMA BatchOver ==
    ASSUME TypeOK, QInv, current = None, RejectAll(B), batch' = <<>>,
           UNCHANGED <<queue, current, settledEarly, began, ticket, arrivals, opTimeout>>,
           stage' \in {"idle", "closing"}, ~processing' => stage' = "idle",
           timers' \in SUBSET timers, NoLostWakeup', processing' \in BOOLEAN,
           debounce' \in BOOLEAN, pending' \in BOOLEAN, stuck' \in BOOLEAN
    PROVE  TypeOK' /\ QInv'
<1>1. Q' = Q /\ B' = {} /\ batch' \in Seq(Writes)
  BY EmptySeq, ToSetMember DEF Q, B
<1>2. /\ Settling
      /\ \A v \in Writes : v \notin B => outcome'[v] = outcome[v]
      /\ \A v \in Writes : v \in B => outcome'[v] = "refused"
  BY Elements DEF RejectAll, Settling, TypeOK, Outcomes, QInv, Batched
<1>3. TypeOK'
  BY <1>1, <1>2 DEF TypeOK, Settling, Stages
<1>4. Tickets' /\ InOrder' /\ Marked'
  <2>1. \A v \in settledEarly : outcome'[v] = "refused"
    BY <1>2 DEF QInv, Marked, Settling, TypeOK
  <2> QED
    BY <1>2, <2>1, SettlingKeeps DEF Marked
<1>5. Increasing(batch', ticket)
  BY EmptySeq DEF Increasing
<1>6. Ordered'
  BY <1>1, <1>5 DEF QInv, Ordered
<1>7. Queued' /\ Batched' /\ Reached'
  BY <1>1, <1>2, Places, Elements DEF QInv, Queued, Batched, Reached
<1>8. Timed'
  BY <1>1, <1>2, Elements DEF QInv, Timed, TypeOK
<1>9. Staged'
  BY DEF Staged
<1>10. NeverRanHonest'
  BY <1>2 DEF QInv, NeverRanHonest, Batched
<1>11. NobodyForgotten'
  BY <1>1, <1>2 DEF QInv, NobodyForgotten, Q, B
<1> QED
  BY <1>3, <1>4, <1>6, <1>7, <1>8, <1>9, <1>10, <1>11 DEF QInv

LEMMA EndDrainKeeps ==
    ASSUME TypeOK, QInv, current = None, RejectAll(B), EndDrain,
           UNCHANGED <<pending, settledEarly, history, opTimeout>>
    PROVE  TypeOK' /\ QInv'
<1>1. /\ processing' = FALSE /\ stage' = "idle" /\ batch' = <<>>
      /\ timers' \in SUBSET timers
      /\ UNCHANGED <<queue, current, stuck>>
      /\ debounce' = (debounce \/ queue # <<>>)
  BY DEF EndDrain
<1>2. UNCHANGED <<pending, settledEarly, began, ticket, arrivals, opTimeout>>
  BY DEF history
<1>3. debounce' \in BOOLEAN /\ pending' \in BOOLEAN /\ stuck' \in BOOLEAN
  BY <1>1, <1>2 DEF TypeOK
<1>4. NoLostWakeup'
  BY <1>1 DEF NoLostWakeup
<1> QED
  BY <1>1, <1>2, <1>3, <1>4, BatchOver

\* The steps that only move the loop along, or happen to a load.
LEMMA PassingKeeps ==
    ASSUME TypeOK, QInv, LockGranted \/ LoopEnds \/ LoadLands \/ LoadLeft
                         \/ UNCHANGED vars
    PROVE  TypeOK' /\ QInv'
<1>1. /\ UNCHANGED <<queue, debounce, processing, batch, current, stuck, timers, settledEarly,
                     outcome, began, ticket, arrivals, opTimeout>>
      /\ pending' \in BOOLEAN
  BY DEF LockGranted, LoopEnds, LoadLands, LoadLeft, drain, entries, history, vars,
         TypeOK
<1>3. \/ stage' = stage
      \/ stage \in {"locking", "looping"} /\ stage' = "looping"
      \/ stage \in {"locking", "looping"} /\ stage' = "closing" /\ batch = <<>>
  BY DEF LockGranted, LoopEnds, LoadLands, LoadLeft, drain, vars
<1>4. TypeOK'
  BY <1>1, <1>3 DEF TypeOK, Stages
<1>5. Staged' /\ Reached'
  BY <1>1, <1>3 DEF QInv, Staged, Reached
<1>6. Q' = Q /\ B' = B
  BY <1>1 DEF Q, B
<1>7. Tickets' /\ Marked' /\ NeverRanHonest' /\ InOrder'
  BY <1>1 DEF QInv, Tickets, Marked, NeverRanHonest, InOrder
<1>8. Ordered' /\ Queued' /\ Batched' /\ Timed'
  BY <1>1, <1>6 DEF QInv, Ordered, Queued, Batched, Timed
<1>9. NobodyForgotten' /\ NoLostWakeup'
  BY <1>1 DEF QInv, NobodyForgotten, NoLostWakeup
<1> QED
  BY <1>4, <1>5, <1>7, <1>8, <1>9 DEF QInv

LEMMA SelectsKeeps ==
    ASSUME TypeOK, QInv, Selects
    PROVE  TypeOK' /\ QInv'
<1>1. /\ stage = "settling" /\ stage' = "running"
      /\ began' = began \cup {current}
      /\ UNCHANGED <<queue, debounce, pending, processing, batch, current, stuck, timers,
                     settledEarly, outcome, ticket, arrivals, opTimeout>>
  BY DEF Selects, entries
<1>2. Q' = Q /\ B' = B
  BY <1>1 DEF Q, B
<1>3. /\ current # None /\ current \in Writes /\ outcome[current] = "pending"
      /\ processing
  BY <1>1 DEF QInv, Staged, Reached, TypeOK
<1>4. TypeOK'
  BY <1>1, <1>3 DEF TypeOK, Stages
<1>5. Tickets' /\ Marked' /\ NeverRanHonest'
  BY <1>1, <1>3 DEF QInv, Tickets, Marked, NeverRanHonest
<1>6. Ordered' /\ Timed'
  BY <1>1, <1>2 DEF QInv, Ordered, Timed
<1>7. Queued' /\ Batched'
  BY <1>1, <1>2, Places DEF QInv, Queued, Batched
<1>8. Reached' /\ Staged'
  BY <1>1, <1>3 DEF QInv, Reached, Staged
<1>9. ASSUME NEW v \in Writes, ticket[v] < ticket[current] PROVE outcome[v] # "pending"
  <2>1. v \notin Q \cup B /\ v # current
    BY <1>3, <1>9, Elements DEF QInv, Ordered
  <2> QED
    BY <2>1 DEF QInv, NobodyForgotten, Q, B
<1>10. InOrder'
  BY <1>1, <1>9 DEF QInv, InOrder
<1>11. NobodyForgotten' /\ NoLostWakeup'
  BY <1>1 DEF QInv, NobodyForgotten, NoLostWakeup
<1> QED
  BY <1>4, <1>5, <1>6, <1>7, <1>8, <1>10, <1>11 DEF QInv

LEMMA ServesKeeps ==
    ASSUME TypeOK, QInv, Serves
    PROVE  TypeOK' /\ QInv'
<1>1. CASE SettleTimesOut
  BY <1>1, FinishesKeeps DEF SettleTimesOut, history, TypeOK
<1>2. CASE SelectFails
  BY <1>2, FinishesKeeps DEF SelectFails, history, TypeOK
<1>3. CASE Selects
  BY <1>3, SelectsKeeps
<1>4. CASE OpEnds
  BY <1>4, FinishesKeeps DEF OpEnds, TypeOK
<1>5. CASE OpTimesOut
  BY <1>5, FinishesKeeps DEF OpTimesOut, history, TypeOK
<1> QED
  BY <1>1, <1>2, <1>3, <1>4, <1>5 DEF Serves

LEMMA AcquiresKeeps ==
    ASSUME TypeOK, QInv, Acquires
    PROVE  TypeOK' /\ QInv'
<1>1. CASE LockGranted
  BY <1>1, PassingKeeps
<1>2. current = None /\ processing
  BY DEF Acquires, LockGranted, InitFails, LockRefused, QInv, Staged
<1>3. CASE InitFails
  <2>1. /\ RejectAll(B) /\ batch' = <<>> /\ stage' = "closing"
        /\ pending' \in BOOLEAN
        /\ UNCHANGED <<queue, debounce, processing, current, stuck, timers, settledEarly,
                       began, ticket, arrivals, opTimeout>>
    BY <1>3 DEF InitFails, B, history, TypeOK
  <2>2. NoLostWakeup' /\ processing' \in BOOLEAN /\ debounce' \in BOOLEAN /\ stuck' \in BOOLEAN
    BY <2>1 DEF QInv, NoLostWakeup, TypeOK
  <2> QED
    BY <1>2, <2>1, <2>2, BatchOver
<1>4. CASE LockRefused
  BY <1>2, <1>4, EndDrainKeeps DEF LockRefused, B
<1> QED
  BY <1>1, <1>3, <1>4 DEF Acquires

LEMMA ClosesKeeps ==
    ASSUME TypeOK, QInv, Closes
    PROVE  TypeOK' /\ QInv'
<1>1. current = None /\ B = {}
  BY Elements DEF Closes, QInv, Staged
<1>2. RejectAll(B)
  BY <1>1 DEF Closes, RejectAll, TypeOK
<1> QED
  BY <1>1, <1>2, EndDrainKeeps DEF Closes

LEMMA NextKeeps ==
    ASSUME TypeOK, QInv, [Next]_vars
    PROVE  TypeOK' /\ QInv'
<1>1. CASE Acquires
  BY <1>1, AcquiresKeeps
<1>2. CASE Serves
  BY <1>2, ServesKeeps
<1>3. CASE Closes
  BY <1>3, ClosesKeeps
<1>4. CASE DebounceFires
  BY <1>4, DebounceKeeps
<1>5. CASE LoopEnds \/ LoadLands \/ LoadLeft \/ UNCHANGED vars
  BY <1>5, PassingKeeps
<1>6. ASSUME NEW w \in Writes, Enqueue(w) \/ Loops(w) \/ Expires(w)
      PROVE  TypeOK' /\ QInv'
  BY <1>6, EnqueueKeeps, LoopsKeeps, ResidencyKeeps, StrandedKeeps DEF Expires
<1> QED
  BY <1>1, <1>2, <1>3, <1>4, <1>5, <1>6 DEF Next

THEOREM QueueInv == Spec => [](TypeOK /\ QInv)
BY InitQInv, NextKeeps, PTL DEF Spec
-----------------------------------------------------------------------------
(* Every value the write queue takes is one the code can hold.             *)
THEOREM QueueTypeOK == Spec => []TypeOK
BY QueueInv, PTL

(* A caller told "did not run" - by the residency bound, by the stranded   *)
(* bound, by the fail-fast or by a drain that could not start - is told    *)
(* the truth, now and later.                                               *)
THEOREM QueueNeverRanHonest == Spec => []NeverRanHonest
<1>1. QInv => NeverRanHonest
  BY DEF QInv
<1> QED
  BY <1>1, QueueInv, PTL

(* An operation is started only when every earlier call is settled, across *)
(* batches as well as within one (#378).                                   *)
THEOREM QueueInOrder == Spec => []InOrder
<1>1. QInv => InOrder
  BY DEF QInv
<1> QED
  BY <1>1, QueueInv, PTL

(* No open promise falls between the queue, the batch and the loop,        *)
(* whichever way a drain ends.                                             *)
THEOREM QueueNobodyForgotten == Spec => []NobodyForgotten
<1>1. QInv => NobodyForgotten
  BY DEF QInv
<1> QED
  BY <1>1, QueueInv, PTL

(* A queued entry has an armed debounce timer, or a drain in progress that *)
(* arms one when it ends (#278).                                           *)
THEOREM QueueNoLostWakeup == Spec => []NoLostWakeup
<1>1. QInv => NoLostWakeup
  BY DEF QInv
<1> QED
  BY <1>1, QueueInv, PTL

(* While an operation runs, no abandoned load is outstanding: none is left *)
(* by another holder of the mutex meanwhile, and none of the batch's own   *)
(* is passed over (#406).                                                  *)
THEOREM QueueNoLoadUnderOperation == Spec => []NoLoadUnderOperation
<1>1. Init => NoLoadUnderOperation
  BY DEF Init, NoLoadUnderOperation
<1>2. ASSUME NoLoadUnderOperation, [Next]_vars PROVE NoLoadUnderOperation'
  <2>1. CASE Acquires \/ LoopEnds \/ Closes
    BY <2>1 DEF Acquires, LockGranted, InitFails, LockRefused, LoopEnds, Closes, EndDrain,
                NoLoadUnderOperation
  <2>2. CASE Serves
    BY <2>2 DEF Serves, SettleTimesOut, SelectFails, Selects, OpEnds, OpTimesOut, Finishes,
                NoLoadUnderOperation
  <2>3. CASE DebounceFires
    BY <1>2, <2>3 DEF DebounceFires, Dispatch, drain, NoLoadUnderOperation
  <2>4. CASE LoadLands \/ LoadLeft \/ UNCHANGED vars
    BY <1>2, <2>4 DEF LoadLands, LoadLeft, drain, vars, NoLoadUnderOperation
  <2>5. ASSUME NEW w \in Writes, Enqueue(w) \/ Loops(w) \/ Expires(w)
        PROVE  NoLoadUnderOperation'
    BY <1>2, <2>5 DEF Enqueue, Loops, SkipEntry, FailFast, StartEntry, Expires,
                      ResidencyExpires, StrandedExpires, drain, NoLoadUnderOperation
  <2> QED
    BY <1>2, <2>1, <2>2, <2>3, <2>4, <2>5 DEF Next
<1> QED
  BY <1>1, <1>2, PTL DEF Spec
=============================================================================
