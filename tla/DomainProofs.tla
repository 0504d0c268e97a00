---------------------------- MODULE DomainProofs ----------------------------
(***************************************************************************)
(* What callers and maintainers are told is what happened, for any number  *)
(* of calls, syncs, files, workflows and trains: the reporters of the      *)
(* release train (TrainFailure, TrainStale), a bank sync (BankSync), a     *)
(* connection that fails (Connecting), the rule book (RuleBook) and the    *)
(* budget of a month (BudgetMonth); and access is what was granted         *)
(* (BudgetAcl).  They share no state; each part below is one of them, with *)
(* its invariant.                                                          *)
(***************************************************************************)
EXTENDS TrainFailure, TrainStale, BankSync, Connecting, RuleBook, BudgetMonth,
        BudgetAcl, SequenceFacts, FiniteSetTheorems, TLAPS

-----------------------------------------------------------------------------
(***************************************************************************)
(* TrainFailure.  That an owed failure has an open issue is not inductive: *)
(* the reporter closes issues from a list it read long ago, one request at *)
(* a time.  What keeps it is that the list of a failure spares one open    *)
(* issue, and that the list of a success is only worked off when nothing   *)
(* is owed.                                                                *)
(***************************************************************************)
Job == [phase : {"over", "listing", "open", "count", "close"}, issue : SUBSET Issues,
        closing : SUBSET Issues, sawSteps : BOOLEAN]

\* Something that is owed is on an issue the reporter is not about to close.
Spared ==
    /\ owed => Filed # {}
    /\ job.phase = "count" => job.issue \cap job.closing = {}
    /\ job.phase = "count" /\ owed => Filed \ job.closing # {}
    /\ job.phase = "close" => ~owed

\* Only a success that the steps do not contradict closes.
Corroborated ==
    job.phase = "close" => train.wrote = "success" /\ (train.broke => ~job.sawSteps)

TrainInv ==
    /\ tracker \in [Issues -> Nat \cup {Shut}] /\ job \in Job
    /\ owed \in BOOLEAN /\ train \in TrainRuns
    /\ Spared /\ Corroborated

LEMMA TrainInitInv == TrainInit => TrainInv
<1> SUFFICES ASSUME TrainInit
             PROVE  TrainInv
  OBVIOUS
<1>1. job \in Job /\ job.phase = "over"
  BY DEF TrainInit, NoJob, Job
<1>2. tracker \in [Issues -> Nat \cup {Shut}] /\ owed = FALSE /\ train \in TrainRuns
  BY DEF TrainInit, Shut
<1> QED
  BY <1>1, <1>2 DEF TrainInv, Spared, Corroborated

\* What a job is told to do: a failure spares the oldest open issue.
LEMMA TransitionSpares ==
    ASSUME NEW action, NEW S, S \subseteq Issues
    PROVE  LET t == DecideTransition(action, S)
           IN  /\ t.phase \in {"open", "count", "close", "over"}
               /\ t.issue \subseteq Issues /\ t.closing \subseteq Issues
               /\ t.phase = "count" => t.issue \cap t.closing = {} /\ S \ t.closing # {}
               /\ t.phase = "close" => action = "success"
<1>1. S # {} => Min(S) \in S
  BY LeastIsOne, TrainAssumption
<1>2. CASE action = "failure" /\ S = {}
  BY <1>2 DEF DecideTransition
<1>3. CASE action = "failure" /\ S # {}
  BY <1>1, <1>3 DEF DecideTransition
<1>4. CASE action = "success" /\ S # {}
  BY <1>4 DEF DecideTransition
<1>5. CASE action # "failure" /\ ~(action = "success" /\ S # {})
  BY <1>5 DEF DecideTransition
<1> QED
  BY <1>2, <1>3, <1>4, <1>5

LEMMA ClassifySuccess ==
    ASSUME NEW r \in TrainRuns, NEW saw \in BOOLEAN, ClassifyOutcome(r, saw) = "success"
    PROVE  r.wrote = "success" /\ (r.broke => ~saw)
  BY DEF ClassifyOutcome, TrainRuns

LEMMA RunTrainKeeps == ASSUME TrainInv, RunTrain PROVE TrainInv'
  BY DEF TrainInv, RunTrain, Spared, Corroborated, NoJob, Job, Filed

LEMMA ListTrainKeeps == ASSUME TrainInv, ListOpenIssues PROVE TrainInv'
<1>1. PICK saw \in BOOLEAN :
          LET t == DecideTransition(ClassifyOutcome(train, saw), Filed)
          IN  /\ job' = [phase |-> t.phase, issue |-> t.issue, closing |-> t.closing,
                         sawSteps |-> saw]
              /\ owed' = (owed /\ t.phase # "close")
  BY DEF ListOpenIssues
<1> DEFINE action == ClassifyOutcome(train, saw)
           t == DecideTransition(action, Filed)
<1>2. /\ t.phase \in {"open", "count", "close", "over"}
      /\ t.issue \subseteq Issues /\ t.closing \subseteq Issues
      /\ t.phase = "count" => t.issue \cap t.closing = {} /\ Filed \ t.closing # {}
      /\ t.phase = "close" => action = "success"
  BY TransitionSpares, Filed \subseteq Issues DEF Filed
<1>3. action = "success" => train.wrote = "success" /\ (train.broke => ~saw)
  BY ClassifySuccess DEF TrainInv
<1>4. job' = [phase |-> t.phase, issue |-> t.issue, closing |-> t.closing, sawSteps |-> saw]
      /\ owed' = (owed /\ t.phase # "close")
  BY <1>1
<1> HIDE DEF action, t
<1>5. UNCHANGED <<tracker, train>>
  BY DEF ListOpenIssues
<1>6. Filed' = Filed
  BY <1>5 DEF Filed
<1> QED
  BY <1>2, <1>3, <1>4, <1>5, <1>6 DEF TrainInv, Spared, Corroborated, Job

LEMMA TrainGivesUpKeeps == ASSUME TrainInv, GivesUp PROVE TrainInv'
  BY DEF TrainInv, GivesUp, Spared, Corroborated, NoJob, Job, Filed

LEMMA OpenTrainKeeps == ASSUME TrainInv, OpenFailure PROVE TrainInv'
<1>1. PICK i \in Issues : tracker' = [tracker EXCEPT ![i] = 1]
  BY DEF OpenFailure, Lands
<1>2. i \in Filed'
  BY <1>1 DEF TrainInv, Filed, Shut
<1> QED
  BY <1>1, <1>2 DEF TrainInv, OpenFailure, Spared, Corroborated, NoJob, Job

\* The issue that is counted up is not among the duplicates to be closed, so what is
\* owed from now on has an issue that is spared.
LEMMA CountTrainKeeps ==
    ASSUME TrainInv, CountFailure
    PROVE  TrainInv'
<1>1. PICK i \in job.issue : /\ tracker' = [tracker EXCEPT ![i] = IF @ = Shut THEN @ ELSE @ + 1]
                             /\ owed' = (owed \/ tracker[i] # Shut)
  BY DEF CountFailure, Lands
<1>2. /\ job \in Job /\ job.phase = "count"
      /\ job' = [job EXCEPT !.issue = {}] /\ UNCHANGED train
  BY DEF CountFailure, TrainInv
<1>3. /\ job' \in Job /\ job'.phase = "count" /\ job'.issue = {}
      /\ job'.closing = job.closing /\ job'.sawSteps = job.sawSteps
  BY <1>2 DEF Job
<1>4. i \in Issues /\ i \notin job.closing
  BY <1>2 DEF TrainInv, Spared, Job
<1>5. tracker' \in [Issues -> Nat \cup {Shut}] /\ Filed' = Filed
  BY <1>1, <1>4 DEF TrainInv, Filed, Shut
<1>6. tracker[i] # Shut => i \in Filed \ job.closing
  BY <1>4 DEF Filed
<1>7. Spared'
  BY <1>1, <1>2, <1>3, <1>5, <1>6 DEF TrainInv, Spared
<1> QED
  BY <1>1, <1>2, <1>3, <1>5, <1>7 DEF TrainInv, Corroborated

\* One by one, the duplicates after a failure or everything after a success.
LEMMA CloseTrainKeeps ==
    ASSUME TrainInv, CloseNext
    PROVE  TrainInv'
<1>1. /\ job \in Job /\ UNCHANGED <<train, owed>>
      /\ job.phase = "close" \/ (job.phase = "count" /\ job.issue = {})
  BY DEF CloseNext, TrainInv
<1>2. CASE job.closing = {}
  <2>1. job' = NoJob /\ tracker' = tracker
    BY <1>2 DEF CloseNext, Lands
  <2> QED
    BY <1>1, <2>1 DEF TrainInv, Spared, Corroborated, NoJob, Job, Filed
<1>3. CASE job.closing # {}
  <2> DEFINE i == Min(job.closing)
  <2>1. i \in job.closing /\ i \in Issues
    BY <1>1, <1>3, LeastIsOne, TrainAssumption DEF Job
  <2>2. tracker' = [tracker EXCEPT ![i] = Shut] /\ job' = [job EXCEPT !.closing = @ \ {i}]
    BY <1>3 DEF CloseNext, Lands
  <2> HIDE DEF i
  <2>3. /\ job' \in Job /\ job'.phase = job.phase /\ job'.issue = job.issue
        /\ job'.closing = job.closing \ {i} /\ job'.sawSteps = job.sawSteps
    BY <1>1, <2>2 DEF Job
  <2>4. tracker' \in [Issues -> Nat \cup {Shut}] /\ Filed' = Filed \ {i}
    BY <2>1, <2>2 DEF TrainInv, Filed
  <2>5. Filed' \ job'.closing = Filed \ job.closing
    BY <2>1, <2>3, <2>4
  <2>6. Spared'
    BY <1>1, <2>3, <2>5 DEF TrainInv, Spared
  <2> QED
    BY <1>1, <2>3, <2>4, <2>6 DEF TrainInv, Corroborated
<1> QED
  BY <1>2, <1>3

\* Who closes an issue by hand answers for it; who files one closes nothing.
LEMMA HandKeeps ==
    ASSUME TrainInv, ByHand
    PROVE  TrainInv'
<1>1. PICK i \in Issues :
          \/ tracker' = [tracker EXCEPT ![i] = Shut] /\ owed' = FALSE
          \/ i \notin Filed /\ tracker' = [tracker EXCEPT ![i] = 0] /\ owed' = owed
  BY DEF ByHand, Lands
<1>2. UNCHANGED <<train, job>>
  BY DEF ByHand
<1>3. tracker' \in [Issues -> Nat \cup {Shut}]
  BY <1>1 DEF TrainInv
<1>4. owed' => owed /\ Filed \subseteq Filed'
  BY <1>1 DEF TrainInv, Filed, Shut
<1> QED
  BY <1>1, <1>2, <1>3, <1>4 DEF TrainInv, Spared, Corroborated

LEMMA TrainNextInv ==
    ASSUME TrainInv, [TrainNext]_trainVars
    PROVE  TrainInv'
<1>1. CASE UNCHANGED trainVars
  BY <1>1 DEF trainVars, TrainInv, Spared, Corroborated, Filed
<1>2. CASE TrainNext
  BY <1>2, RunTrainKeeps, ListTrainKeeps, TrainGivesUpKeeps, OpenTrainKeeps, CountTrainKeeps,
     CloseTrainKeeps, HandKeeps DEF TrainNext
<1> QED
  BY <1>1, <1>2

(* What the reporter holds of the trains is consistent with the tracker at  *)
(* every step, whatever requests fail and whatever people do to the issues. *)
THEOREM TrainInvariant == TrainSpec => []TrainInv
<1>1. TrainInit => TrainInv
  BY TrainInitInv
<1>2. TrainInv /\ [TrainNext]_trainVars => TrainInv'
  BY TrainNextInv
<1> QED
  BY <1>1, <1>2, PTL DEF TrainSpec

(* A failure that was filed stays on file until a train succeeds or         *)
(* somebody closes it, and no train that was seen to break is announced as  *)
(* a recovery (report-train-failure.mjs).                                   *)
THEOREM TrainFailureIsTrue == TrainSpec => []FailureIsTrue
<1>1. TrainInv => FailureIsTrue
  BY DEF TrainInv, Spared, Corroborated, FailureIsTrue
<1> QED
  BY <1>1, TrainInvariant, PTL

\* A count is at most the number of trains; of the train that is still to be counted, one
\* less.
ToCount == job.phase \in {"listing", "open"} \/ (job.phase = "count" /\ job.issue # {})

Counted ==
    /\ trains \in 0..MaxTrains
    /\ \A i \in Issues : tracker[i] <= trains
    /\ ToCount => trains >= 1 /\ \A i \in Issues : tracker[i] <= trains - 1

LEMMA CountedKeeps ==
    ASSUME TrainInv, Counted, [TrainNext]_trainVars
    PROVE  Counted'
<1> USE TrainAssumption
<1>1. /\ tracker \in [Issues -> Int] /\ job \in Job
      /\ trains \in Int /\ trains >= 0 /\ trains <= MaxTrains
  BY DEF TrainInv, Counted, Shut
<1>2. CASE RunTrain
  <2>1. trains' = trains + 1 /\ trains' \in 0..MaxTrains /\ tracker' = tracker
    BY <1>1, <1>2 DEF RunTrain
  <2>2. \A i \in Issues : tracker[i] \in Int /\ tracker[i] <= trains
    BY <1>1 DEF Counted
  <2> QED
    BY <1>1, <2>1, <2>2 DEF Counted
<1>3. CASE ListOpenIssues
  BY <1>3 DEF ListOpenIssues, Counted, ToCount
<1>4. CASE GivesUp
  BY <1>4 DEF GivesUp, NoJob, Counted, ToCount
<1>5. CASE OpenFailure
  <2>1. PICK i \in Issues : tracker' = [tracker EXCEPT ![i] = 1]
    BY <1>5 DEF OpenFailure, Lands
  <2>2. job' = NoJob /\ trains' = trains /\ trains >= 1
    BY <1>5 DEF OpenFailure, Counted, ToCount
  <2> QED
    BY <1>1, <2>1, <2>2 DEF NoJob, Counted, ToCount
<1>6. CASE CountFailure
  <2>1. PICK i \in job.issue : tracker' = [tracker EXCEPT ![i] = IF @ = Shut THEN @ ELSE @ + 1]
    BY <1>6 DEF CountFailure, Lands
  <2>2. i \in Issues /\ trains' = trains /\ job' = [job EXCEPT !.issue = {}] /\ ToCount
    BY <1>1, <1>6, <2>1 DEF CountFailure, Job, ToCount
  <2>3. job'.issue = {} /\ job'.phase = "count"
    BY <1>1, <1>6, <2>2 DEF CountFailure, Job
  <2>4. \A x \in Issues : tracker[x] \in Int /\ tracker[x] <= trains - 1
    BY <1>1, <2>2 DEF Counted
  <2>5. \A x \in Issues : tracker'[x] <= trains
    BY <1>1, <2>1, <2>2, <2>4 DEF Shut
  <2> QED
    BY <2>2, <2>3, <2>5 DEF Counted, ToCount
<1>7. CASE CloseNext
  <2>1. trains' = trains /\ ~ToCount /\ ~ToCount'
    <3>1. job' = NoJob \/ (job'.phase = job.phase /\ job'.issue = job.issue)
      BY <1>1, <1>7 DEF CloseNext, Job
    <3> QED
      BY <1>7, <3>1 DEF CloseNext, ToCount, NoJob
  <2>2. tracker' = tracker \/ \E i : tracker' = [tracker EXCEPT ![i] = Shut]
    BY <1>7 DEF CloseNext, Lands
  <2> QED
    BY <1>1, <2>1, <2>2 DEF Counted, Shut
<1>8. CASE ByHand
  <2>1. PICK i \in Issues : \/ tracker' = [tracker EXCEPT ![i] = Shut]
                            \/ tracker' = [tracker EXCEPT ![i] = 0]
    BY <1>8 DEF ByHand, Lands
  <2>2. job' = job /\ trains' = trains
    BY <1>8 DEF ByHand
  <2> QED
    BY <1>1, <2>1, <2>2 DEF Counted, ToCount, Shut
<1>9. CASE UNCHANGED trainVars
  BY <1>9 DEF trainVars, Counted, ToCount
<1> QED
  BY <1>2, <1>3, <1>4, <1>5, <1>6, <1>7, <1>8, <1>9 DEF TrainNext

(* The reporter's state keeps its types, and no issue counts more failures  *)
(* in a row than there were trains.                                         *)
THEOREM TrainTyped == TrainSpec => []TrainTypeOK
<1>1. TrainInit => Counted
  BY TrainAssumption DEF TrainInit, NoJob, Counted, ToCount, Shut
<1>2. TrainInv /\ Counted /\ [TrainNext]_trainVars => Counted'
  BY CountedKeeps
<1>3. TrainInv /\ Counted => TrainTypeOK
  <2> SUFFICES ASSUME TrainInv, Counted
               PROVE  TrainTypeOK
    OBVIOUS
  <2>1. trains \in Nat /\ trains <= MaxTrains /\ MaxTrains \in Nat
    BY TrainAssumption DEF Counted
  <2>2. \A i \in Issues : tracker[i] \in Shut..MaxTrains
    BY <2>1 DEF TrainInv, Counted, Shut
  <2> QED
    BY <2>2 DEF TrainInv, TrainTypeOK, Job
<1> QED
  BY <1>1, <1>2, <1>3, TrainInvariant, PTL DEF TrainSpec

-----------------------------------------------------------------------------
(***************************************************************************)
(* TrainStale.  That an issue is opened for a workflow that did not run    *)
(* rests on what a pass has gathered of each workflow when it decides: a   *)
(* verdict of staleness is backed by the workflow itself or by two pages   *)
(* that lacked its newest run, a clean bill by a workflow that ran, and a  *)
(* workflow that awaits its confirmation has one of the two pages already. *)
(***************************************************************************)
Pages == {"no_recent_run", "never_ran"}
Findings == StaleReasons \cup {"unread", "inconclusive", "ok", "too_young"}

Pass == [phase : {"off", "reading", "confirming", "open", "update", "close"},
         todo : SUBSET Watched, finding : [Watched -> Findings],
         first : Pages \cup {"none"}, at : {{}} \cup {{f} : f \in Watched}, open : SUBSET Nat,
         live : SUBSET Watched, dead : SUBSET Watched, short : [Watched -> Nat]]

\* A schedule: a workflow younger than the window has no run before it.
Crons == {c \in [state : {"active", "disabled", "gone"}, fired : BOOLEAN, past : BOOLEAN,
                 young : BOOLEAN] : c.young => ~c.past}

\* What a pass says of a workflow, and what it saw of it.
Backed(p, f) ==
    /\ p.finding[f] \in StaleReasons => f \in p.dead \/ p.short[f] = 2
    /\ p.finding[f] \in {"ok", "too_young"} => f \in p.live
    /\ p.finding[f] = "unread" => f \in p.todo
    /\ f \in p.todo => p.short[f] = 0 \/ (p.phase = "confirming" /\ f \in p.at)
    /\ p.phase = "confirming" /\ f \in p.at =>
           p.first \in Pages /\ (f \in p.dead \/ p.short[f] = 1)

Announced(p) ==
    /\ p.phase \in {"open", "update"} => \E f \in Watched : p.finding[f] \in StaleReasons
    /\ p.phase = "close" => Watched \subseteq p.live
    /\ p.phase = "open" => issues = {}

StaleInv ==
    /\ cron \in [Watched -> Crons] /\ issues \subseteq {1} /\ news \in 0..MaxNews
    /\ pass \in Pass /\ Announced(pass) /\ \A f \in Watched : Backed(pass, f)

LEMMA NewPassFacts ==
    /\ NewPass \in Pass /\ [NewPass EXCEPT !.phase = "off"] \in Pass
    /\ Announced(NewPass) /\ Announced([NewPass EXCEPT !.phase = "off"])
    /\ \A f \in Watched : Backed(NewPass, f) /\ Backed([NewPass EXCEPT !.phase = "off"], f)
  BY DEF NewPass, Pass, Announced, Backed, StaleReasons, Findings

LEMMA StaleInitInv == StaleInit => StaleInv
<1>1. StaleInit => cron \in [Watched -> Crons]
  <2>1. /\ [state |-> "active", fired |-> TRUE, past |-> TRUE, young |-> FALSE] \in Crons
        /\ [state |-> "active", fired |-> FALSE, past |-> FALSE, young |-> TRUE] \in Crons
    BY DEF Crons
  <2> QED
    BY <2>1 DEF StaleInit
<1> QED
  BY <1>1, NewPassFacts, StaleAssumption DEF StaleInit, StaleInv

(* What a read of workflow f gathers of it.                                *)
LEMMA WitnessFacts ==
    ASSUME NEW p \in Pass, NEW f \in Watched, NEW alive \in BOOLEAN
    PROVE  /\ Witness(p, f, alive) \in Pass
           /\ Witness(p, f, alive).live = IF alive THEN p.live \cup {f} ELSE p.live
           /\ Witness(p, f, alive).dead = IF alive THEN p.dead ELSE p.dead \cup {f}
           /\ Witness(p, f, alive).phase = p.phase /\ Witness(p, f, alive).todo = p.todo
           /\ Witness(p, f, alive).finding = p.finding /\ Witness(p, f, alive).first = p.first
           /\ Witness(p, f, alive).at = p.at /\ Witness(p, f, alive).short = p.short
  BY DEF Witness, Pass

LEMMA ReadsFacts ==
    ASSUME NEW p \in Pass, NEW f \in Watched, NEW page
    PROVE  /\ Reads(p, f, page) \in Pass
           /\ Reads(p, f, page).live = p.live /\ Reads(p, f, page).dead = p.dead
           /\ Reads(p, f, page).phase = p.phase /\ Reads(p, f, page).todo = p.todo
           /\ Reads(p, f, page).finding = p.finding /\ Reads(p, f, page).first = p.first
           /\ Reads(p, f, page).at = p.at
           /\ \A g \in Watched : g # f => Reads(p, f, page).short[g] = p.short[g]
           /\ Reads(p, f, page).short[f] =
                  IF NewestScheduledRun(page) = NewestScheduledRun(RunsOf(f)) THEN p.short[f]
                  ELSE p.short[f] + 1
<1>1. CASE NewestScheduledRun(page) = NewestScheduledRun(RunsOf(f))
  BY <1>1 DEF Reads
<1>2. CASE NewestScheduledRun(page) # NewestScheduledRun(RunsOf(f))
  BY <1>2 DEF Reads, Pass
<1> QED
  BY <1>1, <1>2

LEMMA FindsFacts ==
    ASSUME NEW p \in Pass, NEW f \in Watched, NEW reason \in Findings
    PROVE  /\ Finds(p, f, reason) \in Pass
           /\ Finds(p, f, reason).live = p.live /\ Finds(p, f, reason).dead = p.dead
           /\ Finds(p, f, reason).phase = "reading" /\ Finds(p, f, reason).todo = p.todo \ {f}
           /\ Finds(p, f, reason).finding = [p.finding EXCEPT ![f] = reason]
           /\ Finds(p, f, reason).at = {} /\ Finds(p, f, reason).short = p.short
  BY DEF Finds, Pass

(* A workflow that fires has a run its pages can lack: a page that makes it  *)
(* look stale lacks the newest one, and one that clears it shows one that    *)
(* fired.                                                                    *)
LEMMA PageFacts ==
    ASSUME cron \in [Watched -> Crons], NEW f \in Watched, NEW page \in SUBSET RunsOf(f),
           NEW reason,
           reason = ClassifyLiveness("active", NewestScheduledRun(page), cron[f].young)
    PROVE  /\ reason \in Pages \cup {"ok", "too_young"}
           /\ reason \in Pages /\ Firing(f) =>
                  NewestScheduledRun(page) # NewestScheduledRun(RunsOf(f))
           /\ reason \notin Pages => Firing(f)
<1>1. cron[f] \in Crons
  OBVIOUS
<1>2. /\ "recent" \in RunsOf(f) <=> cron[f].fired
      /\ "old" \in RunsOf(f) <=> cron[f].past
      /\ RunsOf(f) \subseteq {"recent", "old"}
  BY DEF RunsOf
<1>3. cron[f].young \in BOOLEAN /\ cron[f].fired \in BOOLEAN /\ cron[f].past \in BOOLEAN
      /\ (cron[f].young => ~cron[f].past)
  BY <1>1 DEF Crons
<1>4. NewestScheduledRun(page) = "recent" <=> "recent" \in page
  BY DEF NewestScheduledRun
<1>5. NewestScheduledRun(page) = "none" <=> page = {}
  BY DEF NewestScheduledRun
<1>6. NewestScheduledRun(page) \in {"recent", "none", "old"}
  BY DEF NewestScheduledRun
<1>7. cron[f].fired => NewestScheduledRun(RunsOf(f)) = "recent"
  BY <1>2 DEF NewestScheduledRun
<1>8. CASE NewestScheduledRun(page) = "recent"
  BY <1>2, <1>3, <1>4, <1>8 DEF ClassifyLiveness, Pages, Firing
<1>9. CASE NewestScheduledRun(page) = "old"
  <2>1. page # {} /\ "recent" \notin page /\ cron[f].past
    BY <1>2, <1>4, <1>5, <1>9
  <2>2. reason = "no_recent_run"
    BY <1>9 DEF ClassifyLiveness
  <2> QED
    BY <1>3, <1>7, <1>9, <2>1, <2>2 DEF Pages, Firing
<1>10. CASE NewestScheduledRun(page) = "none"
  <2>1. reason = IF cron[f].young THEN "too_young" ELSE "never_ran"
    BY <1>3, <1>10 DEF ClassifyLiveness
  <2> QED
    BY <1>3, <1>7, <1>10, <2>1 DEF Pages, Firing
<1> QED
  BY <1>6, <1>8, <1>9, <1>10

(* A verdict that is backed leaves the pass backed.                        *)
LEMMA FindsBacked ==
    ASSUME NEW p \in Pass, NEW f \in Watched, NEW reason \in Findings \ {"unread"},
           p.phase = "reading" \/ (p.phase = "confirming" /\ p.at = {f}),
           \A g \in Watched \ {f} : Backed(p, g),
           reason \in StaleReasons => f \in p.dead \/ p.short[f] = 2,
           reason \in {"ok", "too_young"} => f \in p.live
    PROVE  /\ Finds(p, f, reason) \in Pass /\ Announced(Finds(p, f, reason))
           /\ \A g \in Watched : Backed(Finds(p, f, reason), g)
<1> DEFINE q == Finds(p, f, reason)
<1>1. /\ q \in Pass /\ q.phase = "reading" /\ q.at = {} /\ q.todo = p.todo \ {f}
      /\ q.finding = [p.finding EXCEPT ![f] = reason]
      /\ q.live = p.live /\ q.dead = p.dead /\ q.short = p.short
  BY FindsFacts
<1> HIDE DEF q
<1>2. q.finding[f] = reason /\ \A g \in Watched \ {f} : q.finding[g] = p.finding[g]
  BY <1>1 DEF Pass
<1>3. Backed(q, f)
  BY <1>1, <1>2 DEF Backed
<1>4. ASSUME NEW g \in Watched \ {f}
      PROVE  Backed(q, g)
  BY <1>1, <1>2 DEF Backed
<1>5. Announced(q)
  BY <1>1 DEF Announced
<1> QED
  BY <1>1, <1>3, <1>4, <1>5 DEF q

LEMMA ReadWorkflowKeeps ==
    ASSUME StaleInv, NEW f \in Watched, ReadWorkflow(f)
    PROVE  StaleInv'
<1> DEFINE alive == cron[f].state = "active" /\ Firing(f)
           p == Witness(pass, f, alive)
<1>1. pass \in Pass /\ cron[f] \in Crons /\ pass.phase = "reading" /\ f \in pass.todo
      /\ \A g \in Watched : Backed(pass, g)
  BY DEF StaleInv, ReadWorkflow
<1>2. alive \in BOOLEAN
  BY <1>1 DEF Firing, Crons
<1>3. /\ p \in Pass /\ p.phase = "reading" /\ p.todo = pass.todo
      /\ p.live = IF alive THEN pass.live \cup {f} ELSE pass.live
      /\ p.dead = IF alive THEN pass.dead ELSE pass.dead \cup {f}
      /\ p.finding = pass.finding /\ p.short = pass.short
  BY <1>1, <1>2, WitnessFacts
<1>4. \A g \in Watched : Backed(p, g)
  BY <1>1, <1>2, <1>3 DEF Backed
<1>5. p.short[f] = 0
  BY <1>1, <1>3, <1>4 DEF Backed
<1>6. \/ pass' = Finds(p, f, "inconclusive")
      \/ /\ cron[f].state # "active"
         /\ pass' = Finds(p, f, ClassifyLiveness(cron[f].state, "none", FALSE))
      \/ cron[f].state = "active" /\ cron[f].fired /\ pass' = Finds(p, f, "ok")
      \/ /\ cron[f].state = "active"
         /\ \E page \in SUBSET RunsOf(f) :
                LET reason == ClassifyLiveness("active", NewestScheduledRun(page), cron[f].young)
                IN  pass' = IF ShouldConfirm(reason)
                            THEN [Reads(p, f, page) EXCEPT !.phase = "confirming",
                                                           !.first = reason, !.at = {f}]
                            ELSE Finds(Reads(p, f, page), f, reason)
  BY DEF ReadWorkflow
<1> HIDE DEF p
<1>7. SUFFICES pass' \in Pass /\ Announced(pass') /\ \A g \in Watched : Backed(pass', g)
  BY DEF StaleInv, ReadWorkflow, Announced, Backed
<1>8. CASE pass' = Finds(p, f, "inconclusive")
  BY <1>3, <1>4, <1>8, FindsBacked DEF Findings, StaleReasons
<1>9. CASE /\ cron[f].state # "active"
           /\ pass' = Finds(p, f, ClassifyLiveness(cron[f].state, "none", FALSE))
  <2>1. ClassifyLiveness(cron[f].state, "none", FALSE) \in {"not_found", "disabled"}
    BY <1>1, <1>9 DEF ClassifyLiveness, Crons
  <2>2. f \in p.dead
    BY <1>3, <1>9
  <2> QED
    BY <1>3, <1>4, <1>9, <2>1, <2>2, FindsBacked DEF Findings, StaleReasons
<1>10. CASE cron[f].state = "active" /\ cron[f].fired /\ pass' = Finds(p, f, "ok")
  <2>1. f \in p.live
    BY <1>3, <1>10 DEF Firing
  <2> QED
    BY <1>3, <1>4, <1>10, <2>1, FindsBacked DEF Findings, StaleReasons
<1>11. ASSUME cron[f].state = "active", NEW page \in SUBSET RunsOf(f), NEW reason,
              reason = ClassifyLiveness("active", NewestScheduledRun(page), cron[f].young),
              pass' = IF ShouldConfirm(reason)
                      THEN [Reads(p, f, page) EXCEPT !.phase = "confirming",
                                                     !.first = reason, !.at = {f}]
                      ELSE Finds(Reads(p, f, page), f, reason)
       PROVE  pass' \in Pass /\ Announced(pass') /\ \A g \in Watched : Backed(pass', g)
  <2> DEFINE q == Reads(p, f, page)
  <2>1. /\ reason \in Pages \cup {"ok", "too_young"}
        /\ reason \in Pages /\ Firing(f) =>
               NewestScheduledRun(page) # NewestScheduledRun(RunsOf(f))
        /\ reason \notin Pages => Firing(f)
    BY <1>11, PageFacts DEF StaleInv
  <2>2. /\ q \in Pass /\ q.live = p.live /\ q.dead = p.dead /\ q.phase = "reading"
        /\ q.todo = p.todo /\ q.finding = p.finding
        /\ \A g \in Watched : g # f => q.short[g] = p.short[g]
        /\ q.short[f] = IF NewestScheduledRun(page) = NewestScheduledRun(RunsOf(f))
                        THEN p.short[f] ELSE p.short[f] + 1
    <3> HIDE DEF q
    <3>1. /\ q \in Pass /\ q.live = p.live /\ q.dead = p.dead /\ q.phase = p.phase
          /\ q.at = p.at /\ q.todo = p.todo /\ q.finding = p.finding
          /\ \A g \in Watched : g # f => q.short[g] = p.short[g]
      BY <1>3, ReadsFacts DEF q
    <3>2. q.short[f] = IF NewestScheduledRun(page) = NewestScheduledRun(RunsOf(f))
                      THEN p.short[f] ELSE p.short[f] + 1
      BY <1>3, ReadsFacts DEF q
    <3> QED
      BY <1>3, <3>1, <3>2
  <2>3. ShouldConfirm(reason) <=> reason \in Pages
    BY DEF ShouldConfirm, Pages
  <2>4. pass' = IF reason \in Pages
                THEN [q EXCEPT !.phase = "confirming", !.first = reason, !.at = {f}]
                ELSE Finds(q, f, reason)
    BY <1>11, <2>3
  <2> HIDE DEF q
  <2>5. \A g \in Watched \ {f} : Backed(q, g)
    BY <1>3, <1>4, <2>2 DEF Backed
  <2>6. CASE reason \in Pages
    <3> DEFINE r == [q EXCEPT !.phase = "confirming", !.first = reason, !.at = {f}]
    <3>1. /\ r \in Pass /\ r.phase = "confirming" /\ r.first = reason /\ r.at = {f}
          /\ r.todo = q.todo /\ r.finding = q.finding
          /\ r.live = q.live /\ r.dead = q.dead /\ r.short = q.short
      BY <2>2, <2>6 DEF Pass
    <3> HIDE DEF r
    <3>2. f \in r.dead \/ r.short[f] = 1
      <4>1. CASE Firing(f)
        BY <1>5, <2>1, <2>2, <2>6, <3>1, <4>1
      <4>2. CASE ~Firing(f)
        BY <1>3, <2>2, <3>1, <4>2
      <4> QED
        BY <4>1, <4>2
    <3>3. r.finding[f] = pass.finding[f] /\ f \in r.todo
      BY <1>1, <1>3, <2>2, <3>1
    <3>4. Backed(r, f)
      BY <1>3, <1>4, <2>2, <2>6, <3>1, <3>2, <3>3 DEF Backed, Pages
    <3>5. \A g \in Watched \ {f} : Backed(r, g)
      BY <2>2, <2>5, <3>1 DEF Backed
    <3>6. Announced(r)
      BY <3>1 DEF Announced
    <3>7. pass' = r
      BY <2>4, <2>6 DEF r
    <3> QED
      BY <3>1, <3>4, <3>5, <3>6, <3>7
  <2>7. CASE reason \notin Pages
    <3>1. f \in q.live
      BY <1>3, <1>11, <2>1, <2>2, <2>7
    <3>2. reason \in Findings \ {"unread"} /\ reason \notin StaleReasons
      BY <2>1, <2>7 DEF Findings, StaleReasons
    <3>3. pass' = Finds(q, f, reason)
      BY <2>4, <2>7
    <3> QED
      BY <2>2, <2>5, <3>1, <3>2, <3>3, FindsBacked
  <2> QED
    BY <2>6, <2>7
<1> QED
  BY <1>6, <1>8, <1>9, <1>10, <1>11

(* The second look decides.  What it lets stand is backed by both pages.   *)
LEMMA ConfirmKeeps ==
    ASSUME StaleInv, NEW f \in Watched, Confirm(f)
    PROVE  StaleInv'
<1> DEFINE p == Witness(pass, f, Firing(f))
<1>1. pass \in Pass /\ cron[f] \in Crons /\ pass.phase = "confirming" /\ f \in pass.at
      /\ \A g \in Watched : Backed(pass, g)
  BY DEF StaleInv, Confirm
<1>2. Firing(f) \in BOOLEAN /\ pass.at = {f}
  BY <1>1 DEF Firing, Crons, Pass
<1>3. /\ p \in Pass /\ p.phase = "confirming" /\ p.at = {f} /\ p.todo = pass.todo
      /\ p.live = IF Firing(f) THEN pass.live \cup {f} ELSE pass.live
      /\ p.dead = IF Firing(f) THEN pass.dead ELSE pass.dead \cup {f}
      /\ p.finding = pass.finding /\ p.short = pass.short /\ p.first = pass.first
  BY <1>1, <1>2, WitnessFacts
<1>4. \A g \in Watched : Backed(p, g)
  BY <1>1, <1>2, <1>3 DEF Backed
<1>5. p.first \in Pages /\ (f \in p.dead \/ p.short[f] = 1)
  BY <1>3, <1>4 DEF Backed
<1>6. \/ pass' = Finds(p, f, Reconcile(p.first, "inconclusive"))
      \/ \E page \in SUBSET RunsOf(f) :
            pass' = Finds(Reads(p, f, page), f,
                          Reconcile(p.first, ClassifyLiveness("active", NewestScheduledRun(page),
                                                              cron[f].young)))
  BY <1>3 DEF Confirm
<1> HIDE DEF p
<1>7. SUFFICES pass' \in Pass /\ Announced(pass') /\ \A g \in Watched : Backed(pass', g)
  BY DEF StaleInv, Confirm, Announced, Backed
<1>8. CASE pass' = Finds(p, f, Reconcile(p.first, "inconclusive"))
  <2>1. Reconcile(p.first, "inconclusive") = "inconclusive"
    BY <1>5 DEF Reconcile, Pages, StaleReasons
  <2> QED
    BY <1>3, <1>4, <1>8, <2>1, FindsBacked DEF Findings, StaleReasons
<1>9. ASSUME NEW page \in SUBSET RunsOf(f), NEW reason,
             reason = ClassifyLiveness("active", NewestScheduledRun(page), cron[f].young),
             pass' = Finds(Reads(p, f, page), f, Reconcile(p.first, reason))
      PROVE  pass' \in Pass /\ Announced(pass') /\ \A g \in Watched : Backed(pass', g)
  <2> DEFINE q == Reads(p, f, page)
             verdict == Reconcile(p.first, reason)
  <2>1. /\ reason \in Pages \cup {"ok", "too_young"}
        /\ reason \in Pages /\ Firing(f) =>
               NewestScheduledRun(page) # NewestScheduledRun(RunsOf(f))
        /\ reason \notin Pages => Firing(f)
    BY <1>9, PageFacts DEF StaleInv
  <2>2. /\ q \in Pass /\ q.live = p.live /\ q.dead = p.dead /\ q.phase = "confirming"
        /\ q.at = {f} /\ q.todo = p.todo /\ q.finding = p.finding
        /\ \A g \in Watched : g # f => q.short[g] = p.short[g]
        /\ q.short[f] = IF NewestScheduledRun(page) = NewestScheduledRun(RunsOf(f))
                        THEN p.short[f] ELSE p.short[f] + 1
    <3> HIDE DEF q
    <3>1. /\ q \in Pass /\ q.live = p.live /\ q.dead = p.dead /\ q.phase = p.phase
          /\ q.at = p.at /\ q.todo = p.todo /\ q.finding = p.finding
          /\ \A g \in Watched : g # f => q.short[g] = p.short[g]
      BY <1>3, ReadsFacts DEF q
    <3>2. q.short[f] = IF NewestScheduledRun(page) = NewestScheduledRun(RunsOf(f))
                      THEN p.short[f] ELSE p.short[f] + 1
      BY <1>3, ReadsFacts DEF q
    <3> QED
      BY <1>3, <3>1, <3>2
  <2>3. verdict = reason \/ (verdict \in Pages /\ reason \in Pages)
    BY <1>5, <2>1 DEF Reconcile, Pages, StaleReasons
  <2> HIDE DEF q, verdict
  <2>4. \A g \in Watched \ {f} : Backed(q, g)
    BY <1>3, <1>4, <2>2 DEF Backed
  <2>5. verdict \in Findings \ {"unread"}
    BY <2>1, <2>3 DEF Findings, StaleReasons, Pages
  <2>6. verdict \in StaleReasons => f \in q.dead \/ q.short[f] = 2
    <3> SUFFICES ASSUME verdict \in StaleReasons
                 PROVE  f \in q.dead \/ q.short[f] = 2
      OBVIOUS
    <3>1. reason \in Pages
      BY <2>1, <2>3 DEF StaleReasons, Pages
    <3>2. CASE Firing(f)
      BY <1>5, <2>1, <2>2, <3>1, <3>2
    <3>3. CASE ~Firing(f)
      BY <1>3, <2>2, <3>3
    <3> QED
      BY <3>2, <3>3
  <2>7. verdict \in {"ok", "too_young"} => f \in q.live
    <3> SUFFICES ASSUME verdict \in {"ok", "too_young"}
                 PROVE  f \in q.live
      OBVIOUS
    <3>1. reason \notin Pages
      BY <2>3 DEF Pages
    <3> QED
      BY <1>3, <2>1, <2>2, <3>1
  <2>8. pass' = Finds(q, f, verdict)
    BY <1>9 DEF q, verdict
  <2> QED
    BY <2>2, <2>4, <2>5, <2>6, <2>7, <2>8, FindsBacked
<1> QED
  BY <1>6, <1>8, <1>9

LEMMA ListIssuesKeeps == ASSUME StaleInv, ListIssues PROVE StaleInv'
<1>1. pass \in Pass /\ pass.todo = {} /\ issues \subseteq {1}
      /\ \A f \in Watched : Backed(pass, f)
  BY DEF StaleInv, ListIssues
<1>2. PICK read \in {issues, Unread} :
          pass' = [pass EXCEPT !.open = IF read = Unread THEN {} ELSE read,
                               !.phase = DecideStaleTransition(pass.finding, read)]
  BY DEF ListIssues
<1> DEFINE phase == DecideStaleTransition(pass.finding, read)
           o == IF read = Unread THEN {} ELSE read
<1>3. phase \in {"off", "open", "update", "close"} /\ o \in SUBSET Nat
  <2>1. o = {} \/ o = issues
    OBVIOUS
  <2>2. phase \in {"off", "open", "update", "close"}
    BY DEF DecideStaleTransition
  <2>3. 1 \in Nat /\ {} \in SUBSET Nat
    OBVIOUS
  <2>4. issues \in SUBSET Nat
    BY <1>1, <2>3
  <2> HIDE DEF o, phase
  <2> QED
    BY <2>1, <2>2, <2>3, <2>4
<1>4. /\ pass' \in Pass /\ pass'.phase = phase /\ pass'.todo = {}
      /\ pass'.finding = pass.finding /\ pass'.live = pass.live /\ pass'.dead = pass.dead
      /\ pass'.short = pass.short
  <2>1. pass' = [pass EXCEPT !.open = o, !.phase = phase]
    BY <1>2
  <2> HIDE DEF o, phase
  <2> QED
    BY <1>1, <1>3, <2>1 DEF Pass
<1>5. phase \in {"open", "update"} => \E f \in Watched : pass.finding[f] \in StaleReasons
  BY DEF DecideStaleTransition
<1>6. phase = "open" => issues = {}
  <2>1. phase = "open" => read # Unread /\ read = {}
    BY DEF DecideStaleTransition
  <2> QED
    BY <1>2, <2>1
<1>7. phase = "close" => Watched \subseteq pass.live
  <2> SUFFICES ASSUME phase = "close", NEW f \in Watched
               PROVE  f \in pass.live
    OBVIOUS
  <2>1. pass.finding[f] \notin StaleReasons /\ pass.finding[f] # "inconclusive"
    BY DEF DecideStaleTransition
  <2>2. pass.finding[f] # "unread"
    BY <1>1 DEF Backed
  <2>3. pass.finding[f] \in {"ok", "too_young"}
    BY <1>1, <2>1, <2>2 DEF Pass, Findings
  <2> QED
    BY <1>1, <2>3 DEF Backed
<1> HIDE DEF phase
<1>8. \A f \in Watched : Backed(pass', f)
  BY <1>1, <1>3, <1>4 DEF Backed
<1>9. Announced(pass)'
  BY <1>3, <1>4, <1>5, <1>6, <1>7 DEF Announced, ListIssues
<1> QED
  BY <1>4, <1>8, <1>9 DEF StaleInv, ListIssues, Backed

\* A pass that is over or starts again.
LEMMA RestKeeps ==
    ASSUME StaleInv, UNCHANGED cron, issues' \subseteq {1}, news' \in 0..MaxNews,
           pass' = NewPass \/ pass' = [NewPass EXCEPT !.phase = "off"]
    PROVE  StaleInv'
<1>1. pass' \in Pass /\ Announced(pass') /\ \A f \in Watched : Backed(pass', f)
  BY NewPassFacts
<1>2. pass'.phase # "open"
  BY DEF NewPass
<1> QED
  BY <1>1, <1>2 DEF StaleInv, Announced, Backed

LEMMA SchedulingKeeps ==
    ASSUME StaleInv, NEW f \in Watched, Scheduling(f)
    PROVE  StaleInv'
<1>1. cron[f] \in Crons /\ cron \in [Watched -> Crons]
  BY DEF StaleInv
<1>2. PICK c : /\ c \in {[cron[f] EXCEPT !.fired = TRUE],
                         [cron[f] EXCEPT !.fired = FALSE, !.past = @ \/ cron[f].fired,
                                         !.young = FALSE],
                         [cron[f] EXCEPT !.state = "disabled"], [cron[f] EXCEPT !.state = "gone"],
                         [cron[f] EXCEPT !.state = "active"]}
               /\ cron' = [cron EXCEPT ![f] = c]
  BY DEF Scheduling
<1>3. c \in Crons
  BY <1>1, <1>2 DEF Crons
<1>4. cron' \in [Watched -> Crons] /\ news' \in 0..MaxNews
  BY <1>1, <1>2, <1>3, StaleAssumption DEF Scheduling, Event, StaleInv
<1> QED
  BY <1>4 DEF StaleInv, Scheduling, Announced, Backed

LEMMA StaleNextInv == ASSUME StaleInv, [StaleNext]_staleVars PROVE StaleInv'
<1>0. issues \subseteq {1} /\ news \in 0..MaxNews
  BY DEF StaleInv
<1>1. CASE Push
  BY <1>0, <1>1, RestKeeps, StaleAssumption DEF Push, Event
<1>2. CASE ListIssues
  BY <1>2, ListIssuesKeeps
<1>3. CASE OpenIssue
  <2>1. issues = {} /\ Cardinality(issues) + 1 = 1
    <3>1. issues = {}
      BY <1>3 DEF OpenIssue, StaleInv, Announced
    <3> QED
      BY <3>1, FS_EmptySet
  <2> QED
    BY <1>0, <1>3, <2>1, RestKeeps DEF OpenIssue, Rests
<1>4. CASE UpdateIssue
  BY <1>0, <1>4, RestKeeps DEF UpdateIssue, Rests
<1>5. CASE CloseIssues
  BY <1>0, <1>5, RestKeeps DEF CloseIssues, Rests
<1>6. CASE SomebodyCloses
  BY <1>0, <1>6, StaleAssumption DEF SomebodyCloses, Event, StaleInv, Announced, Backed
<1>7. ASSUME NEW f \in Watched, ReadWorkflow(f) \/ Confirm(f) \/ Scheduling(f)
      PROVE  StaleInv'
  BY <1>7, ReadWorkflowKeeps, ConfirmKeeps, SchedulingKeeps
<1>8. CASE UNCHANGED staleVars
  BY <1>8 DEF staleVars, StaleInv, Announced, Backed
<1> QED
  BY <1>1, <1>2, <1>3, <1>4, <1>5, <1>6, <1>7, <1>8 DEF StaleNext

(* What a pass has gathered backs what it decides, at every step of it.    *)
THEOREM StaleInvariant == StaleSpec => []StaleInv
<1>1. StaleInv /\ [StaleNext]_staleVars => StaleInv'
  BY StaleNextInv
<1> QED
  BY StaleInitInv, <1>1, PTL DEF StaleSpec

(* The pass, the list of issues and the count of events keep their types.  *)
THEOREM StaleTyped == StaleSpec => []StaleTypeOK
<1>1. StaleInv => StaleTypeOK
  BY DEF StaleInv, StaleTypeOK, Pass
<1> QED
  BY <1>1, StaleInvariant, PTL

(* One issue at most, opened or kept only for a workflow that did not run   *)
(* or whose page lacked the newest run twice, closed only when all of them  *)
(* were seen to run (report-train-stale.mjs, #436, #442).                   *)
THEOREM StaleAnswerIsTrue == StaleSpec => []StaleIsTrue
<1>1. StaleInv => StaleIsTrue
  <2> SUFFICES ASSUME StaleInv
               PROVE  StaleIsTrue
    OBVIOUS
  <2>1. issues = {} \/ issues = {1}
    BY DEF StaleInv
  <2>2. Cardinality(issues) <= 1
    BY <2>1, FS_EmptySet, FS_Singleton
  <2> QED
    BY <2>2 DEF StaleInv, StaleIsTrue, Announced, Backed
<1> QED
  BY <1>1, StaleInvariant, PTL

-----------------------------------------------------------------------------
(***************************************************************************)
(* BankSync.  What a sync is told is decided when its settle timer ends,   *)
(* from what its listener captured; the listener hears every sync of the   *)
(* process.  What makes the answer its own is that only the holder of the  *)
(* api lock is still waiting for one, that every other sync that listens   *)
(* has been told of its time-out, and that a prompt provider has answered  *)
(* before the timer ends.                                                  *)
(***************************************************************************)
Sync == [phase : {"idle", "waiting", "checking", "starting", "settling", "over"},
         target : Wanted, age : 0..OpBound, waited : 0..Settle, began : -1..OpBound,
         provider : {"none", "asked"} \cup Providers, captured : {"none"} \cup Recognised,
         told : {"none", "refused", "timed out", "success", "unreachable", "not configured",
                 "rate", "provider", "other", "missing", "none linked"},
         hint : Banked \cup {All}]

Running == {"checking", "starting", "settling"}

\* The holder of the lock is the sync that runs and has been told nothing.
Holds(i) ==
    /\ holder = i <=> sync[i].phase \in Running /\ sync[i].told = "none"
    /\ sync[i].phase \in Running => sync[i].told \in {"none", "timed out"}
    /\ sync[i].phase \in {"idle", "waiting"} => sync[i].told = "none"

\* The timers, and the provider that is asked when the second one starts.
Clocked(i) ==
    /\ sync[i].phase \in {"idle", "waiting", "checking", "starting"} =>
           sync[i].began = -1 /\ sync[i].provider = "none"
    /\ sync[i].phase \in {"idle", "waiting", "checking"} => sync[i].captured = "none"
    /\ sync[i].phase # "settling" => sync[i].waited = 0 /\ (Prompt => sync[i].provider # "asked")
    /\ sync[i].phase \in {"checking", "starting"} /\ sync[i].told = "timed out" =>
           sync[i].age = OpBound
    /\ sync[i].phase = "settling" =>
           /\ sync[i].provider # "none"
           /\ sync[i].provider = "asked" => sync[i].waited <= Latency
           /\ holder = i => sync[i].age = sync[i].began + sync[i].waited
    /\ Settle < OpBound /\ sync[i].told = "timed out" => sync[i].began # 0

\* A failure of its own was captured; one that was captured is its own, or of a sync
\* that was abandoned.
Captures(i) ==
    /\ sync[i].phase = "settling" /\ sync[i].provider \in Recognised =>
           sync[i].captured # "none"
    /\ Prompt /\ holder = i /\ sync[i].captured # "none" =>
           \E j \in Syncs : /\ sync[j].provider = sync[i].captured
                            /\ j = i \/ sync[j].told = "timed out"

\* What may be asked of a provider, and what a refused name is told.
Asked(i) ==
    /\ sync[i].phase \in {"waiting"} \cup Running \/ sync[i].provider # "none" =>
           sync[i].target \in Banked \cup {All}
    /\ sync[i].told = "refused" =>
           /\ sync[i].phase = "over" /\ sync[i].provider = "none"
           /\ sync[i].hint = All \/ Called[sync[i].hint] = sync[i].target

\* What it was told of its provider.
Answered(i) ==
    Prompt =>
        /\ sync[i].told = "success" => sync[i].provider \in Providers \ Recognised
        /\ sync[i].told \in Recognised =>
               \E j \in Syncs : /\ sync[j].provider = sync[i].told
                                /\ j = i \/ sync[j].told = "timed out"

BankInv ==
    /\ listed \subseteq Banked /\ linked \subseteq Banked /\ holder \in Syncs \cup {NoSync}
    /\ sync \in [Syncs -> Sync]
    /\ \A i \in Syncs : Holds(i) /\ Clocked(i) /\ Captures(i) /\ Asked(i) /\ Answered(i)

\* Somebody's provider did this: its own, or that of a sync that was abandoned.
Somebodys(i, how) ==
    \E j \in Syncs : sync[j].provider = how /\ (j = i \/ sync[j].told = "timed out")

\* What a provider answered and what a caller was told is never taken back.
Kept(i) ==
    /\ sync[i].told # "none" => sync'[i].told = sync[i].told
    /\ sync[i].provider \in Providers => sync'[i].provider = sync[i].provider

LEMMA SomebodysStays ==
    ASSUME \A j \in Syncs : Kept(j), NEW i \in Syncs, NEW how \in Recognised,
           Somebodys(i, how)
    PROVE  \E j \in Syncs : sync'[j].provider = how /\ (j = i \/ sync'[j].told = "timed out")
<1>1. PICK j \in Syncs : sync[j].provider = how /\ (j = i \/ sync[j].told = "timed out")
  BY DEF Somebodys
<1>2. sync'[j].provider = how /\ (j = i \/ sync'[j].told = "timed out")
  BY <1>1 DEF Kept, Providers, Failures, Recognised
<1> QED
  BY <1>2

LEMMA AnsweredStays ==
    ASSUME \A j \in Syncs : Kept(j), NEW i \in Syncs, Answered(i), sync'[i].told = sync[i].told
    PROVE  Answered(i)'
<1> SUFFICES ASSUME Prompt
             PROVE  /\ sync'[i].told = "success" => sync'[i].provider \in Providers \ Recognised
                    /\ sync'[i].told \in Recognised =>
                           \E j \in Syncs : /\ sync'[j].provider = sync'[i].told
                                            /\ j = i \/ sync'[j].told = "timed out"
  BY DEF Answered, Prompt
<1>1. sync[i].told \in Recognised =>
          \E j \in Syncs : /\ sync'[j].provider = sync[i].told
                           /\ j = i \/ sync'[j].told = "timed out"
  <2>1. sync[i].told \in Recognised => Somebodys(i, sync[i].told)
    BY DEF Answered, Somebodys
  <2> QED
    BY <2>1, SomebodysStays
<1>2. sync[i].told = "success" => sync'[i].provider \in Providers \ Recognised
  BY DEF Answered, Kept
<1> QED
  BY <1>1, <1>2

LEMMA CapturedStays ==
    ASSUME \A j \in Syncs : Kept(j), NEW i \in Syncs, sync[i] \in Sync, Captures(i),
           holder' = i => holder = i, sync'[i].captured = sync[i].captured,
           sync'[i].phase = "settling" /\ sync'[i].provider \in Recognised =>
               sync'[i].captured # "none"
    PROVE  Captures(i)'
<1>1. Prompt /\ holder = i /\ sync[i].captured # "none" =>
          \E j \in Syncs : /\ sync'[j].provider = sync[i].captured
                           /\ j = i \/ sync'[j].told = "timed out"
  <2>1. sync[i].captured # "none" => sync[i].captured \in Recognised
    BY DEF Sync
  <2>2. Prompt /\ holder = i /\ sync[i].captured # "none" => Somebodys(i, sync[i].captured)
    BY DEF Captures, Somebodys
  <2> QED
    BY <2>1, <2>2, SomebodysStays
<1>2. Prompt /\ holder' = i /\ sync'[i].captured # "none" =>
          \E j \in Syncs : /\ sync'[j].provider = sync'[i].captured
                           /\ j = i \/ sync'[j].told = "timed out"
  BY <1>1
<1> QED
  BY <1>2 DEF Captures, Prompt

LEMMA BankInitInv == BankInit => BankInv
<1> SUFFICES ASSUME BankInit
             PROVE  BankInv
  OBVIOUS
<1>1. QuietSync \in Sync
  BY BankAssumption DEF QuietSync, Sync, Wanted, Recognised
<1>2. \A i \in Syncs : sync[i] = QuietSync
  BY DEF BankInit
<1>3. \A i \in Syncs : Holds(i) /\ Clocked(i) /\ Captures(i) /\ Asked(i) /\ Answered(i)
  BY <1>2, BankAssumption
  DEF BankInit, QuietSync, Holds, Clocked, Captures, Asked, Answered, Running, NoSync, Recognised
<1> QED
  BY <1>1, <1>3 DEF BankInit, BankInv

(* Where one sync moves and takes no word back, only that sync has to be    *)
(* looked at.                                                              *)
LEMMA OneSyncMoves ==
    ASSUME BankInv, NEW i \in Syncs, NEW s \in Sync, SetSync(i, s),
           listed' \subseteq Banked, linked' \subseteq Banked, holder' \in Syncs \cup {NoSync},
           \A j \in Syncs \ {i} : holder' = j <=> holder = j,
           sync[i].told # "none" => s.told = sync[i].told,
           sync[i].provider \in Providers => s.provider = sync[i].provider,
           Holds(i)', Clocked(i)', Captures(i)', Asked(i)', Answered(i)'
    PROVE  BankInv'
<1>1. sync \in [Syncs -> Sync] /\ sync' = [sync EXCEPT ![i] = s]
  BY DEF BankInv, SetSync
<1>2. sync'[i] = s /\ \A j \in Syncs \ {i} : sync'[j] = sync[j]
  BY <1>1
<1>3. \A j \in Syncs : Kept(j)
  BY <1>2 DEF Kept
<1>4. ASSUME NEW j \in Syncs \ {i}
      PROVE  Holds(j)' /\ Clocked(j)' /\ Captures(j)' /\ Asked(j)' /\ Answered(j)'
  <2>1. Holds(j) /\ Clocked(j) /\ Captures(j) /\ Asked(j) /\ Answered(j) /\ sync[j] \in Sync
    BY DEF BankInv
  <2>2. sync'[j] = sync[j] /\ (holder' = j <=> holder = j)
    BY <1>2, <1>4
  <2>3. Holds(j)' /\ Clocked(j)' /\ Asked(j)'
    <3>1. Holds(j)' /\ Asked(j)'
      BY <2>1, <2>2 DEF Holds, Asked
    <3>2. Clocked(j)'
      BY <2>1, <2>2 DEF Clocked, Prompt
    <3> QED
      BY <3>1, <3>2
  <2>4. Captures(j)'
    <3>1. sync[j].phase = "settling" /\ sync[j].provider \in Recognised =>
              sync[j].captured # "none"
      BY <2>1 DEF Captures
    <3> QED
      BY <1>3, <2>1, <2>2, <3>1, CapturedStays
  <2>5. Answered(j)'
    BY <1>3, <2>1, <2>2, AnsweredStays
  <2> QED
    BY <2>3, <2>4, <2>5
<1> QED
  BY <1>1, <1>4 DEF BankInv

LEMMA AskSyncKeeps ==
    ASSUME BankInv, NEW i \in Syncs, NEW v \in Wanted, AskSync(i, v)
    PROVE  BankInv'
<1> DEFINE found == ResolveFilterId(listed, v)
           asks == [sync[i] EXCEPT !.phase = "waiting", !.target = v]
           refused == [sync[i] EXCEPT !.phase = "over", !.told = "refused", !.target = v,
                                      !.hint = found.hint]
<1>1. /\ sync[i] \in Sync /\ sync[i].phase = "idle" /\ sync \in [Syncs -> Sync]
      /\ Holds(i) /\ Clocked(i) /\ Captures(i) /\ Asked(i) /\ Answered(i)
      /\ listed \subseteq Banked /\ linked \subseteq Banked /\ holder \in Syncs \cup {NoSync}
  BY DEF BankInv, AskSync
<1>2. sync[i].told = "none" /\ sync[i].provider = "none" /\ sync[i].captured = "none"
      /\ sync[i].waited = 0 /\ holder # i
  BY <1>1 DEF Holds, Clocked, Running
<1>3. CASE v = All \/ found.ok
  <2>1. v \in Banked \cup {All}
    BY <1>1, <1>3 DEF ResolveFilterId
  <2>2. SetSync(i, asks)
    BY <1>3 DEF AskSync
  <2>3. /\ asks \in Sync /\ asks.phase = "waiting" /\ asks.target = v /\ asks.told = sync[i].told
        /\ asks.provider = sync[i].provider /\ asks.began = sync[i].began
        /\ asks.waited = sync[i].waited /\ asks.captured = sync[i].captured
    BY <1>1 DEF Sync
  <2> HIDE DEF asks
  <2>4. sync'[i] = asks /\ UNCHANGED <<listed, linked, holder>>
    BY <1>1, <2>2 DEF AskSync, SetSync
  <2>5. Holds(i)' /\ Clocked(i)' /\ Captures(i)' /\ Asked(i)' /\ Answered(i)'
    BY <1>1, <1>2, <2>1, <2>3, <2>4
    DEF Holds, Clocked, Captures, Asked, Answered, Running, Recognised
  <2> QED
    BY <1>1, <1>2, <2>2, <2>3, <2>4, <2>5, OneSyncMoves DEF Providers, Failures
<1>4. CASE ~(v = All \/ found.ok)
  <2>1. found.hint \in Banked \cup {All} /\ (found.hint = All \/ Called[found.hint] = v)
    BY <1>1 DEF ResolveFilterId, MatchByName
  <2>2. SetSync(i, refused)
    BY <1>4 DEF AskSync
  <2> HIDE DEF found
  <2>3. /\ refused \in Sync /\ refused.phase = "over" /\ refused.target = v
        /\ refused.told = "refused" /\ refused.hint = found.hint
        /\ refused.provider = sync[i].provider /\ refused.waited = sync[i].waited
        /\ refused.captured = sync[i].captured
    BY <1>1, <2>1 DEF Sync
  <2> HIDE DEF refused
  <2>4. sync'[i] = refused /\ UNCHANGED <<listed, linked, holder>>
    BY <1>1, <2>2 DEF AskSync, SetSync
  <2>5. Holds(i)' /\ Clocked(i)' /\ Captures(i)' /\ Asked(i)' /\ Answered(i)'
    BY <1>1, <1>2, <2>1, <2>3, <2>4
    DEF Holds, Clocked, Captures, Asked, Answered, Running, Recognised
  <2> QED
    BY <1>1, <1>2, <2>2, <2>3, <2>4, <2>5, OneSyncMoves DEF Providers, Failures
<1> QED
  BY <1>3, <1>4

LEMMA TimersStart ==
    /\ Settle \in Nat /\ OpBound \in Nat /\ Latency \in Nat /\ (Prompt <=> Latency < Settle)
    /\ OpBound > 0 /\ 0 \in 0..OpBound /\ 0 \in 0..Settle /\ -1 \in -1..OpBound
<1>1. Settle \in Nat /\ OpBound \in Nat \ {0} /\ Latency \in Nat
  BY BankAssumption
<1> QED
  BY <1>1 DEF Prompt

(* The end of a sync, whatever it is.  Only a start that is rejected and    *)
(* the end of the settle timer say anything of a provider.                 *)
LEMMA FinishKeeps ==
    ASSUME BankInv, NEW i \in Syncs, NEW why, NEW did, FinishSync(i, why, did),
           UNCHANGED <<listed, linked>>,
           sync[i].phase \in {"waiting"} \cup Running,
           sync[i].phase = "waiting" => holder = NoSync,
           did = sync[i].provider \/ (did \in Failures /\ sync[i].phase = "starting"),
           Prompt => did # "asked",
           why \in {"network", "throttle", "local", "missing", "none linked", "rate",
                    "provider", "other", "success"},
           Prompt /\ sync[i].told = "none" /\ why = "success" => did \in Providers \ Recognised,
           sync[i].told = "none" /\ why \in Recognised =>
               did = why \/ (holder = i /\ sync[i].captured = why)
    PROVE  BankInv'
<1> DEFINE s == [sync[i] EXCEPT !.phase = "over", !.age = 0, !.waited = 0, !.provider = did]
           t == [s EXCEPT !.began = -1, !.told = IF why = "success" THEN why ELSE Retold(why)]
<1>1. /\ sync[i] \in Sync /\ sync \in [Syncs -> Sync]
      /\ Holds(i) /\ Clocked(i) /\ Captures(i) /\ Asked(i) /\ Answered(i)
      /\ listed \subseteq Banked /\ linked \subseteq Banked /\ holder \in Syncs \cup {NoSync}
  BY DEF BankInv
<1>2. /\ s \in Sync /\ s.phase = "over" /\ s.waited = 0 /\ s.told = sync[i].told
      /\ s.provider = did /\ s.captured = sync[i].captured
      /\ s.began = sync[i].began /\ s.target = sync[i].target /\ s.hint = sync[i].hint
  <2>1. did \in {"none", "asked"} \cup Providers
    BY <1>1 DEF Sync, Providers
  <2> QED
    BY <1>1, <2>1, TimersStart DEF Sync
<1> HIDE DEF s
<1>0. sync[i].provider \in Providers => did = sync[i].provider
  BY <1>1 DEF Clocked, Providers, Failures
<1>3. CASE s.told # "none"
  <2>1. SetSync(i, s) /\ holder' = holder
    BY <1>3 DEF FinishSync, s
  <2>2. sync'[i] = s
    BY <1>1, <2>1 DEF SetSync
  <2>3. holder # i
    BY <1>1, <1>2, <1>3 DEF Holds
  <2>4. Holds(i)' /\ Clocked(i)' /\ Captures(i)' /\ Asked(i)'
    BY <1>1, <1>2, <1>3, <2>1, <2>2, <2>3
    DEF Holds, Clocked, Captures, Asked, Running, Prompt
  <2>5. sync[i].told = "timed out"
    BY <1>1, <1>2, <1>3 DEF Holds
  <2>6. Answered(i)'
    BY <1>2, <2>2, <2>5 DEF Answered, Recognised
  <2> QED
    BY <1>0, <1>1, <1>2, <2>1, <2>4, <2>6, OneSyncMoves
<1>4. CASE s.told = "none"
  <2> DEFINE told == IF why = "success" THEN why ELSE Retold(why)
  <2>1. SetSync(i, t) /\ holder' = NoSync
    BY <1>4 DEF FinishSync, s
  <2>2. /\ told \in {"success", "unreachable", "not configured", "rate", "provider", "other",
                     "missing", "none linked"}
        /\ told = "success" => why = "success"
        /\ told \in Recognised => why = told
    BY DEF Retold, Recognised
  <2> HIDE DEF told
  <2>3. t = [s EXCEPT !.began = -1, !.told = told]
    BY DEF told
  <2>4. /\ t \in Sync /\ t.phase = "over" /\ t.waited = 0 /\ t.told = told
        /\ t.provider = s.provider /\ t.captured = s.captured
        /\ t.began = -1 /\ t.target = s.target /\ t.hint = s.hint
    <3> DEFINE u == [s EXCEPT !.began = -1]
    <3>1. /\ u \in Sync /\ u.phase = "over" /\ u.waited = 0
          /\ u.provider = s.provider /\ u.captured = s.captured
          /\ u.began = -1 /\ u.target = s.target /\ u.hint = s.hint
      BY <1>2, TimersStart DEF Sync
    <3>2. t = [u EXCEPT !.told = told]
      BY <1>2, <2>3 DEF Sync
    <3>3. told \in {"none", "refused", "timed out", "success", "unreachable", "not configured",
                    "rate", "provider", "other", "missing", "none linked"}
      BY <2>2
    <3> HIDE DEF u, t
    <3> QED
      BY <3>1, <3>2, <3>3 DEF Sync
  <2> HIDE DEF t
  <2>5. sync'[i] = t
    BY <1>1, <2>1 DEF SetSync
  <2>6. Holds(i)' /\ Clocked(i)' /\ Captures(i)' /\ Asked(i)'
    BY <1>1, <1>2, <2>1, <2>2, <2>4, <2>5, BankAssumption
    DEF Holds, Clocked, Captures, Asked, Running, NoSync, Prompt
  <2>7. \A j \in Syncs \ {i} : holder' = j <=> holder = j
    <3>1. holder = i \/ holder = NoSync
      BY <1>1, <1>2, <1>4 DEF Holds
    <3> QED
      BY <2>1, <3>1, BankAssumption DEF NoSync
  <2>8. \A j \in Syncs : Kept(j)
    BY <1>0, <1>1, <1>2, <1>4, <2>1, <2>4, <2>5 DEF Kept, SetSync
  <2>9. Answered(i)'
    <3> SUFFICES ASSUME Prompt
                 PROVE  /\ told = "success" => sync'[i].provider \in Providers \ Recognised
                        /\ told \in Recognised =>
                              \E j \in Syncs : /\ sync'[j].provider = told
                                               /\ j = i \/ sync'[j].told = "timed out"
      BY <2>4, <2>5 DEF Answered, Prompt
    <3>1. told = "success" => sync'[i].provider \in Providers \ Recognised
      BY <1>2, <1>4, <2>2, <2>4, <2>5
    <3>2. told \in Recognised => sync'[i].provider = told \/ Somebodys(i, told)
      BY <1>1, <1>2, <1>4, <2>2, <2>4, <2>5 DEF Captures, Somebodys, Recognised
    <3>3. told \in Recognised =>
              \E j \in Syncs : sync'[j].provider = told /\ (j = i \/ sync'[j].told = "timed out")
      BY <2>8, <3>2, SomebodysStays
    <3> QED
      BY <3>1, <3>3
  <2> QED
    BY <1>0, <1>1, <1>2, <1>4, <2>1, <2>4, <2>6, <2>7, <2>9, OneSyncMoves
<1> QED
  BY <1>3, <1>4

LEMMA LockSyncKeeps ==
    ASSUME BankInv, NEW i \in Syncs, LockSync(i)
    PROVE  BankInv'
<1> DEFINE s == [sync[i] EXCEPT !.phase = "checking"]
<1>1. /\ sync[i] \in Sync /\ sync[i].phase = "waiting" /\ sync \in [Syncs -> Sync]
      /\ Holds(i) /\ Clocked(i) /\ Captures(i) /\ Asked(i) /\ Answered(i)
      /\ listed' \subseteq Banked /\ linked' \subseteq Banked /\ holder = NoSync /\ holder' = i
  BY DEF BankInv, LockSync
<1>2. SetSync(i, s)
  BY DEF LockSync
<1>3. /\ s \in Sync /\ s.phase = "checking" /\ s.waited = sync[i].waited
      /\ s.told = sync[i].told /\ s.provider = sync[i].provider
      /\ s.captured = sync[i].captured /\ s.began = sync[i].began /\ s.target = sync[i].target
  BY <1>1 DEF Sync
<1> HIDE DEF s
<1>4. sync'[i] = s
  BY <1>1, <1>2 DEF SetSync
<1>5. \A j \in Syncs \ {i} : holder' = j <=> holder = j
  BY <1>1, BankAssumption DEF NoSync
<1>6. Holds(i)' /\ Clocked(i)' /\ Captures(i)' /\ Asked(i)' /\ Answered(i)'
  BY <1>1, <1>3, <1>4 DEF Holds, Clocked, Captures, Asked, Answered, Running
<1> QED
  BY <1>1, <1>2, <1>3, <1>5, <1>6, OneSyncMoves

LEMMA CheckLinkedKeeps ==
    ASSUME BankInv, NEW i \in Syncs, CheckLinked(i)
    PROVE  BankInv'
<1>1. /\ sync[i] \in Sync /\ sync[i].phase = "checking" /\ sync \in [Syncs -> Sync]
      /\ Holds(i) /\ Clocked(i) /\ Captures(i) /\ Asked(i) /\ Answered(i)
      /\ UNCHANGED <<listed, linked>> /\ holder \in Syncs \cup {NoSync}
      /\ listed \subseteq Banked /\ linked \subseteq Banked
  BY DEF BankInv, CheckLinked
<1>2. sync[i].provider = "none" /\ sync[i].captured = "none"
  BY <1>1 DEF Clocked
<1>3. ASSUME NEW why \in {"missing", "local", "none linked"}, FinishSync(i, why, "none")
      PROVE  BankInv'
  BY <1>1, <1>2, <1>3, FinishKeeps DEF Running, Recognised
<1>4. ASSUME SetSync(i, [sync[i] EXCEPT !.phase = "starting"]), holder' = holder
      PROVE  BankInv'
  <2> DEFINE s == [sync[i] EXCEPT !.phase = "starting"]
  <2>1. /\ s \in Sync /\ s.phase = "starting" /\ s.waited = sync[i].waited
        /\ s.told = sync[i].told /\ s.provider = sync[i].provider /\ s.age = sync[i].age
        /\ s.captured = sync[i].captured /\ s.began = sync[i].began
        /\ s.target = sync[i].target /\ s.hint = sync[i].hint
    BY <1>1 DEF Sync
  <2>2. SetSync(i, s)
    BY <1>4
  <2> HIDE DEF s
  <2>3. sync'[i] = s
    BY <1>1, <2>2 DEF SetSync
  <2>4. Clocked(i)'
    BY <1>1, <1>4, <2>1, <2>3 DEF Clocked
  <2>5. Holds(i)' /\ Asked(i)'
    BY <1>1, <1>4, <2>1, <2>3 DEF Holds, Asked, Running
  <2>6. Captures(i)' /\ Answered(i)'
    BY <1>1, <1>2, <1>4, <2>1, <2>3
    DEF Holds, Captures, Answered, Running, Providers, Failures, Recognised
  <2> QED
    BY <1>1, <1>4, <2>1, <2>2, <2>4, <2>5, <2>6, OneSyncMoves
<1>5. \/ \E why \in {"missing", "local", "none linked"} : FinishSync(i, why, "none")
      \/ SetSync(i, [sync[i] EXCEPT !.phase = "starting"]) /\ holder' = holder
  BY DEF CheckLinked
<1> QED
  BY <1>3, <1>4, <1>5

(* A start that is rejected says itself what it met.                       *)
LEMMA StartRejectsKeeps ==
    ASSUME BankInv, NEW i \in Syncs, NEW why \in Failures, StartRejects(i, why)
    PROVE  BankInv'
<1>1. /\ sync[i].phase = "starting" /\ FinishSync(i, why, why) /\ UNCHANGED <<listed, linked>>
  BY DEF StartRejects
<1>2. why \in {"rate", "provider", "network", "other"}
  BY DEF Failures
<1> QED
  BY <1>1, <1>2, FinishKeeps DEF Running

LEMMA BeginSettlingKeeps ==
    ASSUME BankInv, NEW i \in Syncs, BeginSettling(i)
    PROVE  BankInv'
<1> DEFINE s == [sync[i] EXCEPT !.phase = "settling", !.began = sync[i].age,
                                !.provider = "asked"]
<1>1. /\ sync[i] \in Sync /\ sync[i].phase = "starting" /\ sync \in [Syncs -> Sync]
      /\ Holds(i) /\ Clocked(i) /\ Captures(i) /\ Asked(i) /\ Answered(i)
      /\ UNCHANGED <<listed, linked, holder>> /\ holder \in Syncs \cup {NoSync}
      /\ listed \subseteq Banked /\ linked \subseteq Banked
  BY DEF BankInv, BeginSettling
<1>2. SetSync(i, s)
  BY DEF BeginSettling
<1>3. sync[i].age \in -1..OpBound /\ "asked" \in {"none", "asked"} \cup Providers
  <2>1. sync[i].age \in 0..OpBound
    BY <1>1 DEF Sync
  <2> QED
    BY <2>1, TimersStart
<1>4. /\ s \in Sync /\ s.phase = "settling" /\ s.waited = sync[i].waited
      /\ s.told = sync[i].told /\ s.provider = "asked" /\ s.age = sync[i].age
      /\ s.captured = sync[i].captured /\ s.began = sync[i].age
      /\ s.target = sync[i].target /\ s.hint = sync[i].hint
  BY <1>1, <1>3 DEF Sync
<1> HIDE DEF s
<1>5. sync'[i] = s
  BY <1>1, <1>2 DEF SetSync
<1>6. sync[i].waited = 0 /\ sync[i].age \in 0..OpBound /\ sync[i].provider = "none"
      /\ (sync[i].told = "timed out" => sync[i].age = OpBound)
  BY <1>1 DEF Clocked, Sync
<1>7. Clocked(i)'
  <2>1. sync'[i].told = "timed out" => sync'[i].began = OpBound
    BY <1>4, <1>5, <1>6
  <2>2. sync'[i].age = sync'[i].began + sync'[i].waited /\ sync'[i].waited <= Latency
    <3>1. sync'[i].age = sync[i].age /\ sync'[i].began = sync[i].age /\ sync'[i].waited = 0
      BY <1>4, <1>5, <1>6
    <3>2. sync[i].age \in 0..OpBound
      BY <1>6
    <3>3. sync[i].age = sync[i].age + 0
      BY <3>2
    <3>4. 0 <= Latency
      BY TimersStart
    <3> QED
      BY <3>1, <3>3, <3>4
  <2>3. OpBound # 0
    BY TimersStart
  <2>4. sync'[i].phase = "settling" /\ sync'[i].provider = "asked"
    BY <1>4, <1>5
  <2> QED
    BY <2>1, <2>2, <2>3, <2>4 DEF Clocked
<1>8. Holds(i)' /\ Asked(i)'
  BY <1>1, <1>4, <1>5, <1>6 DEF Holds, Asked, Running
<1>9. \A j \in Syncs : Kept(j)
  BY <1>1, <1>2, <1>4, <1>5, <1>6 DEF Kept, SetSync, Providers, Failures
<1>10. Captures(i)'
  BY <1>1, <1>4, <1>5, <1>9, CapturedStays DEF Recognised
<1>11. Answered(i)'
  BY <1>1, <1>4, <1>5, <1>9, AnsweredStays
<1> QED
  BY <1>1, <1>2, <1>4, <1>6, <1>7, <1>8, <1>10, <1>11, OneSyncMoves DEF Providers, Failures

(* An answer, or the failure that every listener of the process hears.      *)
LEMMA ProviderAnswersKeeps ==
    ASSUME BankInv, NEW i \in Syncs, NEW how \in Providers, ProviderAnswers(i, how)
    PROVE  BankInv'
<1>1. /\ sync \in [Syncs -> Sync] /\ sync[i].provider = "asked"
      /\ UNCHANGED <<listed, linked, holder>>
      /\ \A j \in Syncs : /\ sync[j] \in Sync /\ Holds(j) /\ Clocked(j) /\ Captures(j)
                           /\ Asked(j) /\ Answered(j)
  BY DEF BankInv, ProviderAnswers
<1>2. Prompt => sync[i].phase = "settling"
  BY <1>1 DEF Clocked
<1>3. ASSUME NEW j \in Syncs
      PROVE  /\ sync'[j] \in Sync /\ sync'[j].phase = sync[j].phase
             /\ sync'[j].provider = IF j = i THEN how ELSE sync[j].provider
             /\ sync'[j].captured = IF how \in Recognised /\ sync[j].phase \in Listening THEN how
                                    ELSE sync[j].captured
             /\ sync'[j].told = sync[j].told /\ sync'[j].age = sync[j].age
             /\ sync'[j].waited = sync[j].waited /\ sync'[j].began = sync[j].began
             /\ sync'[j].target = sync[j].target /\ sync'[j].hint = sync[j].hint
  <2> DEFINE s == IF j = i THEN [sync[i] EXCEPT !.provider = how] ELSE sync[j]
  <2>1. sync'[j] = IF how \in Recognised /\ s.phase \in Listening
                   THEN [s EXCEPT !.captured = how] ELSE s
    BY DEF ProviderAnswers
  <2>2. /\ s \in Sync /\ s.phase = sync[j].phase
        /\ s.provider = IF j = i THEN how ELSE sync[j].provider
        /\ s.captured = sync[j].captured /\ s.told = sync[j].told /\ s.age = sync[j].age
        /\ s.waited = sync[j].waited /\ s.began = sync[j].began
        /\ s.target = sync[j].target /\ s.hint = sync[j].hint
    BY <1>1 DEF Sync
  <2> HIDE DEF s
  <2>3. how \in Recognised => how \in {"none"} \cup Recognised
    OBVIOUS
  <2> QED
    <3>1. CASE how \in Recognised /\ s.phase \in Listening
      <4> DEFINE u == [s EXCEPT !.captured = how]
      <4>1. sync'[j] = u
        BY <2>1, <3>1
      <4>2. /\ u \in Sync /\ u.phase = s.phase /\ u.provider = s.provider /\ u.captured = how
            /\ u.told = s.told /\ u.age = s.age /\ u.waited = s.waited /\ u.began = s.began
            /\ u.target = s.target /\ u.hint = s.hint
        BY <2>2, <2>3, <3>1 DEF Sync
      <4> HIDE DEF u
      <4> QED
        BY <2>2, <3>1, <4>1, <4>2
    <3>2. CASE ~(how \in Recognised /\ s.phase \in Listening)
      BY <2>1, <2>2, <3>2
    <3> QED
      BY <3>1, <3>2
<1>4. \A j \in Syncs : Kept(j)
  BY <1>1, <1>3 DEF Kept, Providers, Failures
<1>5. ASSUME NEW j \in Syncs
      PROVE  Holds(j)' /\ Clocked(j)' /\ Captures(j)' /\ Asked(j)' /\ Answered(j)'
  <2>1. /\ sync[j] \in Sync /\ holder' = holder
        /\ how \in {"ok", "rate", "provider", "network", "other"}
        /\ Holds(j) /\ Clocked(j) /\ Captures(j) /\ Asked(j) /\ Answered(j)
        /\ j = i => sync[j].provider = "asked"
    BY <1>1, <1>5 DEF Providers, Failures
  <2>2. /\ sync'[j].phase = sync[j].phase /\ sync'[j].told = sync[j].told
        /\ sync'[j].waited = sync[j].waited /\ sync'[j].began = sync[j].began
        /\ sync'[j].target = sync[j].target /\ sync'[j].hint = sync[j].hint
        /\ sync'[j].age = sync[j].age
        /\ sync'[j].provider = IF j = i THEN how ELSE sync[j].provider
        /\ sync'[j].captured = IF how \in Recognised /\ sync[j].phase \in Listening THEN how
                               ELSE sync[j].captured
    BY <1>3, <1>5
  <2>3. Holds(j)' /\ Asked(j)'
    BY <2>1, <2>2 DEF Holds, Asked
  <2>4. Clocked(j)'
    BY <2>1, <2>2 DEF Clocked, Prompt, Listening
  <2>5. sync'[j].phase = "settling" /\ sync'[j].provider \in Recognised =>
            sync'[j].captured # "none"
    BY <2>1, <2>2 DEF Captures, Listening, Recognised
  <2>6. Captures(j)'
    <3>1. CASE how \in Recognised /\ sync[j].phase \in Listening
      <4>1. Prompt /\ holder' = j => j = i \/ sync[i].told = "timed out"
        <5>1. holder = j => Holds(i)
          BY <1>1
        <5> QED
          BY <1>2, <2>1, <5>1 DEF Holds, Running
      <4>2. sync'[i].provider = how /\ sync'[i].told = sync[i].told
        BY <1>3
      <4>3. sync'[j].captured = how
        BY <2>2, <3>1
      <4> QED
        BY <2>5, <4>1, <4>2, <4>3 DEF Captures, Prompt
    <3>2. CASE ~(how \in Recognised /\ sync[j].phase \in Listening)
      <4>1. sync'[j].captured = sync[j].captured
        BY <2>2, <3>2
      <4> QED
        BY <1>4, <1>5, <2>1, <2>5, <4>1, CapturedStays
    <3> QED
      BY <3>1, <3>2
  <2>7. Answered(j)'
    BY <1>4, <1>5, <2>1, <2>2, AnsweredStays
  <2> QED
    BY <2>3, <2>4, <2>6, <2>7
<1>6. sync' \in [Syncs -> Sync]
  BY <1>1, <1>3 DEF ProviderAnswers
<1> QED
  BY <1>1, <1>5, <1>6 DEF BankInv

(* The operation's own time-out: a settle timer that is shorter and started  *)
(* with it would have ended.                                                *)
LEMMA SyncTimesOutKeeps ==
    ASSUME BankInv, NEW i \in Syncs, SyncTimesOut(i)
    PROVE  BankInv'
<1> DEFINE s == [sync[i] EXCEPT !.told = "timed out"]
<1>1. /\ sync[i] \in Sync /\ sync \in [Syncs -> Sync] /\ holder = i /\ sync[i].age = OpBound
      /\ Holds(i) /\ Clocked(i) /\ Captures(i) /\ Asked(i) /\ Answered(i)
      /\ UNCHANGED <<listed, linked>> /\ holder' = NoSync
      /\ listed \subseteq Banked /\ linked \subseteq Banked
  BY DEF BankInv, SyncTimesOut, OpDue
<1>2. SetSync(i, s)
  BY DEF SyncTimesOut, Retold
<1>3. /\ s \in Sync /\ s.phase = sync[i].phase /\ s.waited = sync[i].waited
      /\ s.told = "timed out" /\ s.provider = sync[i].provider /\ s.age = sync[i].age
      /\ s.captured = sync[i].captured /\ s.began = sync[i].began
      /\ s.target = sync[i].target /\ s.hint = sync[i].hint
  BY <1>1 DEF Sync
<1> HIDE DEF s
<1>4. sync'[i] = s /\ sync[i].told = "none" /\ sync[i].phase \in Running
  BY <1>1, <1>2 DEF SetSync, Holds
<1>5. holder' # i /\ \A j \in Syncs \ {i} : holder' = j <=> holder = j
  BY <1>1, BankAssumption DEF NoSync
<1>6. Settle < OpBound => sync[i].began # 0
  <2>1. CASE sync[i].phase = "settling"
    <3>1. sync[i].age = sync[i].began + sync[i].waited /\ sync[i].waited \in 0..Settle
      BY <1>1, <2>1 DEF Clocked, Sync
    <3> QED
      BY <1>1, <3>1, TimersStart
  <2>2. CASE sync[i].phase # "settling"
    BY <1>1, <1>4, <2>2 DEF Clocked, Running
  <2> QED
    BY <2>1, <2>2
<1>7. Clocked(i)'
  BY <1>1, <1>3, <1>4, <1>5, <1>6 DEF Clocked
<1>8. Holds(i)' /\ Captures(i)' /\ Asked(i)' /\ Answered(i)'
  BY <1>1, <1>3, <1>4, <1>5 DEF Holds, Captures, Asked, Answered, Running, Recognised
<1> QED
  BY <1>1, <1>2, <1>3, <1>4, <1>5, <1>7, <1>8, OneSyncMoves

LEMMA SettleEndsKeeps ==
    ASSUME BankInv, NEW i \in Syncs, SettleEnds(i)
    PROVE  BankInv'
<1> DEFINE why == IF sync[i].captured # "none" THEN sync[i].captured ELSE "success"
<1>1. /\ sync[i] \in Sync /\ sync[i].phase = "settling" /\ sync[i].waited = Settle
      /\ Holds(i) /\ Clocked(i) /\ Captures(i) /\ UNCHANGED <<listed, linked>>
      /\ FinishSync(i, why, sync[i].provider)
  BY DEF BankInv, SettleEnds, SettleDue
<1>2. Prompt => sync[i].provider \in Providers
  <2>1. /\ sync[i].provider # "none"
        /\ sync[i].provider = "asked" => Settle <= Latency
    BY <1>1 DEF Clocked
  <2>2. Prompt => ~(Settle <= Latency)
    BY TimersStart
  <2> QED
    BY <1>1, <2>1, <2>2 DEF Sync
<1>3. why \in {"rate", "provider", "success"}
  BY <1>1 DEF Sync, Recognised
<1>4. Prompt /\ why = "success" => sync[i].provider \in Providers \ Recognised
  BY <1>1, <1>2 DEF Captures, Sync, Recognised
<1>5. sync[i].told = "none" /\ why \in Recognised =>
          holder = i /\ sync[i].captured = why
  BY <1>1 DEF Holds, Running, Recognised
<1>6. sync[i].phase \in {"waiting"} \cup Running /\ (Prompt => sync[i].provider # "asked")
  BY <1>1, <1>2 DEF Running, Providers, Failures
<1> HIDE DEF why
<1> QED
  BY <1>1, <1>3, <1>4, <1>5, <1>6, FinishKeeps

(* No tick passes a timer that is due, nor a provider's answer.             *)
LEMMA BankTickKeeps ==
    ASSUME BankInv, BankTick
    PROVE  BankInv'
<1>1. /\ sync \in [Syncs -> Sync] /\ UNCHANGED <<listed, linked, holder>>
      /\ \A j \in Syncs : /\ sync[j] \in Sync /\ Holds(j) /\ Clocked(j) /\ Captures(j)
                           /\ Asked(j) /\ Answered(j)
  BY DEF BankInv, BankTick
<1>2. ASSUME NEW j \in Syncs
      PROVE  /\ sync'[j] \in Sync /\ sync'[j].phase = sync[j].phase
             /\ sync'[j].provider = sync[j].provider /\ sync'[j].captured = sync[j].captured
             /\ sync'[j].told = sync[j].told /\ sync'[j].began = sync[j].began
             /\ sync'[j].target = sync[j].target /\ sync'[j].hint = sync[j].hint
             /\ sync'[j].age = IF holder = j THEN sync[j].age + 1 ELSE sync[j].age
             /\ sync'[j].waited = IF sync[j].phase = "settling" THEN sync[j].waited + 1
                                  ELSE sync[j].waited
  <2> DEFINE age == IF holder = j THEN sync[j].age + 1 ELSE sync[j].age
             waited == IF sync[j].phase = "settling" THEN sync[j].waited + 1 ELSE sync[j].waited
  <2>1. sync'[j] = [sync[j] EXCEPT !.age = age, !.waited = waited]
    BY <1>1 DEF BankTick
  <2>2. /\ sync[j].age \in 0..OpBound /\ sync[j].waited \in 0..Settle
        /\ holder = j => sync[j].age # OpBound
        /\ sync[j].phase = "settling" => sync[j].waited # Settle
    BY <1>1 DEF BankTick, OpDue, SettleDue, Sync
  <2>3. age \in 0..OpBound /\ waited \in 0..Settle
    BY <2>2, TimersStart
  <2> HIDE DEF age, waited
  <2>4. /\ sync'[j] \in Sync /\ sync'[j].phase = sync[j].phase
        /\ sync'[j].provider = sync[j].provider /\ sync'[j].captured = sync[j].captured
        /\ sync'[j].told = sync[j].told /\ sync'[j].began = sync[j].began
        /\ sync'[j].target = sync[j].target /\ sync'[j].hint = sync[j].hint
        /\ sync'[j].age = age /\ sync'[j].waited = waited
    BY <1>1, <2>1, <2>3 DEF Sync
  <2> QED
    BY <2>4 DEF age, waited
<1>3. \A j \in Syncs : Kept(j)
  BY <1>2 DEF Kept
<1>4. ASSUME NEW j \in Syncs
      PROVE  Holds(j)' /\ Clocked(j)' /\ Captures(j)' /\ Asked(j)' /\ Answered(j)'
  <2>1. /\ sync[j] \in Sync /\ holder' = holder
        /\ Holds(j) /\ Clocked(j) /\ Captures(j) /\ Asked(j) /\ Answered(j)
    BY <1>1, <1>4
  <2>2. /\ sync'[j].phase = sync[j].phase /\ sync'[j].told = sync[j].told
        /\ sync'[j].provider = sync[j].provider /\ sync'[j].captured = sync[j].captured
        /\ sync'[j].began = sync[j].began
        /\ sync'[j].target = sync[j].target /\ sync'[j].hint = sync[j].hint
        /\ sync'[j].age = IF holder = j THEN sync[j].age + 1 ELSE sync[j].age
        /\ sync'[j].waited = IF sync[j].phase = "settling" THEN sync[j].waited + 1
                             ELSE sync[j].waited
    BY <1>2, <1>4
  <2>3. Holds(j)' /\ Asked(j)'
    BY <2>1, <2>2 DEF Holds, Asked
  <2>4. Clocked(j)'
    <3>1. /\ sync[j].age \in 0..OpBound /\ sync[j].waited \in 0..Settle
          /\ sync[j].began \in -1..OpBound
          /\ ~(sync[j].provider = "asked" /\ sync[j].waited = Latency)
      BY <1>4, <2>1 DEF BankTick, Sync
    <3>2. sync[j].phase \in {"checking", "starting"} /\ sync[j].told = "timed out" =>
              sync'[j].age = OpBound
      BY <2>1, <2>2 DEF Clocked, Holds
    <3>3. sync[j].phase = "settling" /\ sync[j].provider = "asked" => sync'[j].waited <= Latency
      <4>1. ASSUME sync[j].phase = "settling", sync[j].provider = "asked"
            PROVE  sync'[j].waited <= Latency
        <5>1. sync[j].waited <= Latency /\ sync[j].waited # Latency
          BY <2>1, <3>1, <4>1 DEF Clocked
        <5>2. sync'[j].waited = sync[j].waited + 1
          BY <2>2, <4>1
        <5> QED
          BY <3>1, <5>1, <5>2, TimersStart
      <4> QED
        BY <4>1
    <3>4. sync[j].phase = "settling" /\ holder = j =>
              sync'[j].age = sync[j].began + sync'[j].waited
      <4>1. ASSUME sync[j].phase = "settling", holder = j
            PROVE  sync'[j].age = sync[j].began + sync'[j].waited
        <5>1. sync[j].age = sync[j].began + sync[j].waited
          BY <2>1, <4>1 DEF Clocked
        <5>2. sync'[j].age = sync[j].age + 1 /\ sync'[j].waited = sync[j].waited + 1
          BY <2>2, <4>1
        <5> QED
          BY <3>1, <5>1, <5>2
      <4> QED
        BY <4>1
    <3>5. sync[j].phase # "settling" => sync'[j].waited = sync[j].waited
      BY <2>2
    <3> QED
      BY <2>1, <2>2, <3>2, <3>3, <3>4, <3>5 DEF Clocked, Prompt
  <2>5. Captures(j)'
    <3>1. sync[j].phase = "settling" /\ sync[j].provider \in Recognised =>
              sync[j].captured # "none"
      BY <2>1 DEF Captures
    <3> QED
      BY <1>3, <1>4, <2>1, <2>2, <3>1, CapturedStays
  <2>6. Answered(j)'
    BY <1>3, <1>4, <2>1, <2>2, AnsweredStays
  <2> QED
    BY <2>3, <2>4, <2>5, <2>6
<1>5. sync' \in [Syncs -> Sync]
  BY <1>1, <1>2 DEF BankTick
<1> QED
  BY <1>1, <1>4, <1>5 DEF BankInv, BankTick

LEMMA SameSyncsKeep ==
    ASSUME BankInv, listed' \subseteq Banked, linked' \subseteq Banked, UNCHANGED <<holder, sync>>
    PROVE  BankInv'
<1>1. ASSUME NEW i \in Syncs
      PROVE  Holds(i)' /\ Clocked(i)' /\ Captures(i)' /\ Asked(i)' /\ Answered(i)'
  <2>1. Holds(i) /\ Clocked(i) /\ Captures(i) /\ Asked(i) /\ Answered(i)
    BY <1>1 DEF BankInv
  <2>2. Holds(i)' /\ Clocked(i)' /\ Asked(i)'
    BY <2>1 DEF Holds, Clocked, Asked, Prompt
  <2> QED
    BY <2>1, <2>2 DEF Captures, Answered, Prompt
<1> QED
  BY <1>1 DEF BankInv

LEMMA BankNextInv == ASSUME BankInv, [BankNext]_bankVars PROVE BankInv'
<1>0. listed \subseteq Banked /\ linked \subseteq Banked
  BY DEF BankInv
<1>1. ASSUME NEW i \in Syncs, NEW v \in Wanted, AskSync(i, v)
      PROVE  BankInv'
  BY <1>1, AskSyncKeeps
<1>2. ASSUME NEW i \in Syncs,
             LockSync(i) \/ CheckLinked(i) \/ BeginSettling(i) \/ SyncTimesOut(i) \/ SettleEnds(i)
      PROVE  BankInv'
  BY <1>2, LockSyncKeeps, CheckLinkedKeeps, BeginSettlingKeeps, SyncTimesOutKeeps, SettleEndsKeeps
<1>3. ASSUME NEW i \in Syncs, NEW why \in {"network", "throttle"}, SyncUnconnected(i, why)
      PROVE  BankInv'
  <2>1. /\ sync[i].phase = "waiting" /\ holder = NoSync /\ FinishSync(i, why, "none")
        /\ UNCHANGED <<listed, linked>> /\ sync[i].provider = "none"
    BY <1>3 DEF SyncUnconnected, BankInv, Clocked
  <2> QED
    BY <2>1, FinishKeeps DEF Recognised
<1>4. ASSUME NEW i \in Syncs, NEW how \in Providers, ProviderAnswers(i, how)
      PROVE  BankInv'
  BY <1>4, ProviderAnswersKeeps
<1>5. ASSUME NEW a \in Banked, Elsewhere(a)
      PROVE  BankInv'
  BY <1>0, <1>5, SameSyncsKeep DEF Elsewhere
<1>6. CASE BankTick
  BY <1>6, BankTickKeeps
<1>7. CASE UNCHANGED bankVars
  BY <1>0, <1>7, SameSyncsKeep DEF bankVars
<1>8. ASSUME NEW i \in Syncs, NEW why \in Failures, StartRejects(i, why)
      PROVE  BankInv'
  BY <1>8, StartRejectsKeeps
<1> QED
  BY <1>1, <1>2, <1>3, <1>4, <1>5, <1>6, <1>7, <1>8 DEF BankNext

(* Who holds the lock, what the timers say and whose failure was captured.  *)
THEOREM BankInvariant == BankSpec => []BankInv
<1>1. BankInv /\ [BankNext]_bankVars => BankInv'
  BY BankNextInv
<1> QED
  BY BankInitInv, <1>1, PTL DEF BankSpec

(* The accounts, the lock and the timers keep their types.                 *)
THEOREM BankTyped == BankSpec => []BankTypeOK
<1>1. BankInv => BankTypeOK
  BY DEF BankInv, BankTypeOK, Sync
<1> QED
  BY <1>1, BankInvariant, PTL

(* The outcome a caller is told is the provider's, for every pair of        *)
(* time-outs, the default one included, where a provider that answers does  *)
(* so before the settle timer ends; but a failure that the listener does    *)
(* not know is told as a success (runBankSync, resolveFilterId).            *)
THEOREM BankOutcomeIsTrue == Prompt => (BankSpec => []OutcomeIsTrue)
<1> SUFFICES ASSUME Prompt
             PROVE  BankSpec => []OutcomeIsTrue
  OBVIOUS
<1>1. BankInv => OutcomeIsTrue
  BY DEF BankInv, OutcomeIsTrue, Asked, Answered
<1> QED
  BY <1>1, BankInvariant, PTL

(* With a settle timer that is shorter than the time-out of an operation,   *)
(* and longer than a provider takes, a sync is told the truth and not of a  *)
(* time-out in its place.  The run bank_sync_timeout is what happens when   *)
(* the timers are equal, as the defaults are (constants.ts, config.ts).     *)
THEOREM BankSyncIsTold == Prompt /\ Settle < OpBound => (BankSpec => []SyncIsTold)
<1> SUFFICES ASSUME Prompt, Settle < OpBound
             PROVE  BankSpec => []SyncIsTold
  OBVIOUS
<1>1. BankInv => SyncIsTold
  BY DEF BankInv, SyncIsTold, SyncIsReported, OutcomeIsTrue, Asked, Answered, Clocked
<1> QED
  BY <1>1, BankInvariant, PTL

-----------------------------------------------------------------------------
(***************************************************************************)
(* Connecting.  A reply is true of the call it ends, or of what the cache   *)
(* of reasons repeats: a reason is no older than the uses it has had and    *)
(* the diagnoses that failed since.  Who holds a slot is the call that      *)
(* operates or an abandoned one, and a warning was given before the load.   *)
(***************************************************************************)
Causes == {"rate_limited", "network_unreachable", "timeout", "auth_failed", "out_of_sync",
           "schema_too_new"}
Phases == {"idle", "settle", "login", "probe", "load", "diagnose", "admit", "operate", "after",
           "told"}
TalkReply == [how : {None, "ok", "named", "raw"}, cause : Causes \cup {None}]

Talk == [on : Files \cup {None}, kind : {"read", "write"}, phase : Phases, tries : Nat,
         met : SUBSET Causes, behind : Files \cup {None, "diagnosis"}, readable : BOOLEAN,
         stuck : BOOLEAN, reply : TalkReply]

Guards == [checked : BOOLEAN, attempts : 0..ProbeAttempts, judged : {None, "ahead", "fit"}]

Reasons == {None, "out-of-sync-migrations", "timed out", "nothing", "no local copy"}
Reason == [reason : Reasons, uses : 0..AfterUses]
Ages == [{"schema_too_new", "timeout"} -> 0..Never]

Memory ==
    /\ reasons \in [Files -> Reason] /\ lately \in [Files -> Ages] /\ silent \in [Files -> Nat]

ConnectTyped ==
    /\ weather \in Weathers /\ ahead \in BOOLEAN /\ state \in [Files -> States]
    /\ open \in Files \cup {None} /\ guard \in Guards /\ running \in 0..Slots
    /\ queued \in Nat /\ hung \in 0..Slots
    /\ late \in Files \cup {None, "diagnosis"} /\ talks \in 0..MaxTalks
    /\ Memory /\ talk \in Talk

\* A slot is held by the operation in progress or by one that was abandoned.
Slotted ==
    /\ running = hung + (IF talk.phase = "operate" THEN 1 ELSE 0)
    /\ talk.phase = "operate" => queued = 0
    /\ queued > 0 => running = Slots

Warned ==
    /\ guard.checked => guard.judged # None
    /\ talk.readable => guard.judged # None \/ guard.attempts >= ProbeAttempts

\* A reason with a cause is as old as its uses and the rounds it has served.
Round == AfterUses + 1
Rounds(n) == Round * n
Recent(r, ages, n) ==
    /\ r.reason = "out-of-sync-migrations" => ages.schema_too_new <= Rounds(n) + r.uses
    /\ r.reason = "timed out" => ages.timeout <= Rounds(n) + r.uses

Dated(b) == Recent(reasons[b], lately[b], silent[b])

\* What a call that is over was told.
TalkTold ==
    /\ talk.phase # "told" => talk.reply = NoReply
    /\ talk.phase # "idle" => talk.on \in Files
    /\ late # None => Resting \/ talk.phase = "settle"
    /\ talk.phase = "settle" => talk.behind # None
    /\ CauseIsTrue /\ TimeoutIsItsOwn
    /\ late \in Files /\ talk.reply.how = "named" => talk.reply.cause \in talk.met

ConnectInv ==
    /\ ConnectTyped /\ Slotted /\ Warned
    /\ \A b \in Files : Dated(b)
    /\ TalkTold

(* What a stdio client is told of each error.                               *)
LEMMA LoginReplies ==
    ASSUME NEW w \in Weathers \ {"fine"}
    PROVE  StdioReply(MarkInitFailure(LoginFault[w])) = [how |-> "named", cause |-> CauseOf[w]]
<1>1. CASE w = "throttle"
  BY <1>1 DEF StdioReply, MarkInitFailure, LoginFault, ClassifyInitFailure, CauseOf, Fault,
              ReasonToCause, IsRateLimitError, None
<1>2. CASE w = "network"
  BY <1>2 DEF StdioReply, MarkInitFailure, LoginFault, ClassifyInitFailure, CauseOf, Fault,
              ReasonToCause, IsRateLimitError, None
<1>3. CASE w = "password"
  BY <1>3 DEF StdioReply, MarkInitFailure, LoginFault, ClassifyInitFailure, CauseOf, Fault,
              ReasonToCause, IsRateLimitError, None
<1>4. CASE w = "stall"
  BY <1>4 DEF StdioReply, MarkInitFailure, LoginFault, ClassifyInitFailure, CauseOf, Fault,
              ReasonToCause, IsRateLimitError, None, OpTimeout
<1> QED
  BY <1>1, <1>2, <1>3, <1>4 DEF Weathers

LEMMA LoadReplies ==
    /\ \A w \in {"throttle", "network"} :
           StdioReply(MarkInitFailure(LoadFault[w])) = [how |-> "named", cause |-> CauseOf[w]]
    /\ StdioReply(MarkInitFailure(LoadFault.sync)) = [how |-> "named", cause |-> "out_of_sync"]
    /\ StdioReply(MarkInitFailure(OpTimeout)) = [how |-> "named", cause |-> "timeout"]
<1>1. StdioReply(MarkInitFailure(LoadFault["throttle"]))
          = [how |-> "named", cause |-> CauseOf["throttle"]]
  BY DEF StdioReply, MarkInitFailure, LoadFault, ClassifyInitFailure, CauseOf, Fault,
         ReasonToCause, IsRateLimitError, None
<1>2. StdioReply(MarkInitFailure(LoadFault["network"]))
          = [how |-> "named", cause |-> CauseOf["network"]]
  BY DEF StdioReply, MarkInitFailure, LoadFault, ClassifyInitFailure, CauseOf, Fault,
         ReasonToCause, IsRateLimitError, None
<1>3. StdioReply(MarkInitFailure(LoadFault.sync)) = [how |-> "named", cause |-> "out_of_sync"]
  BY DEF StdioReply, MarkInitFailure, LoadFault, ClassifyInitFailure, Fault,
         ReasonToCause, IsRateLimitError, None
<1>4. StdioReply(MarkInitFailure(OpTimeout)) = [how |-> "named", cause |-> "timeout"]
  BY DEF StdioReply, MarkInitFailure, OpTimeout, ClassifyInitFailure, Fault,
         ReasonToCause, IsRateLimitError, None
<1> QED
  BY <1>1, <1>2, <1>3, <1>4

LEMMA OperationReplies ==
    /\ StdioReply(OpTimeout) = [how |-> "raw", cause |-> "timeout"]
    /\ \A w \in DOMAIN OpFault : StdioReply(OpFault[w]) = [how |-> "raw", cause |-> None]
<1>1. StdioReply(OpTimeout) = [how |-> "raw", cause |-> "timeout"]
  BY DEF StdioReply, OpTimeout, Fault
<1>2. ASSUME NEW w \in {"throttle", "network", "domain"}
      PROVE  ~OpFault[w].branded /\ "timed out" \notin OpFault[w].words
  <2>1. CASE w = "throttle"
    BY <2>1 DEF OpFault, Fault
  <2>2. CASE w = "network"
    BY <2>2 DEF OpFault, Fault
  <2>3. CASE w = "domain"
    BY <2>3 DEF OpFault, Fault
  <2> QED
    BY <1>2, <2>1, <2>2, <2>3
<1>3. DOMAIN OpFault = {"throttle", "network", "domain"}
  BY DEF OpFault
<1> QED
  BY <1>1, <1>2, <1>3 DEF StdioReply

LEMMA DiagnosisReplies ==
    /\ StdioReply(PostConditionError("out-of-sync-migrations"))
           = [how |-> "named", cause |-> "schema_too_new"]
    /\ StdioReply(PostConditionError("timed out")) = [how |-> "named", cause |-> "timeout"]
    /\ \A r \in {None, "no local copy", "succeeded"} :
           StdioReply(PostConditionError(r)) = [how |-> "raw", cause |-> None]
<1>1. StdioReply(PostConditionError("out-of-sync-migrations"))
           = [how |-> "named", cause |-> "schema_too_new"]
  BY DEF StdioReply, MarkInitFailure, PostConditionError, ClassifyInitFailure, Fault,
         ReasonToCause, IsRateLimitError, None
<1>2. StdioReply(PostConditionError("timed out")) = [how |-> "named", cause |-> "timeout"]
  BY DEF StdioReply, MarkInitFailure, PostConditionError, ClassifyInitFailure, Fault,
         ReasonToCause, IsRateLimitError, None
<1>3. ASSUME NEW r \in {None, "no local copy", "succeeded"}
      PROVE  StdioReply(PostConditionError(r)) = [how |-> "raw", cause |-> None]
  BY <1>3 DEF StdioReply, MarkInitFailure, PostConditionError, ClassifyInitFailure, Fault,
         ReasonToCause, IsRateLimitError, None
<1> QED
  BY <1>1, <1>2, <1>3

LEMMA ToldFields ==
    ASSUME NEW t \in Talk, NEW e, StdioReply(e) \in TalkReply
    PROVE  /\ Told(t, e) \in Talk /\ Told(t, e).phase = "told" /\ Told(t, e).on = t.on
           /\ Told(t, e).reply = StdioReply(e) /\ Told(t, e).met = t.met
           /\ Told(t, e).readable = t.readable /\ Told(t, e).stuck = t.stuck
           /\ Told(t, e).behind = t.behind
  BY DEF Told, Talk, Phases

LEMMA MeetsFields ==
    ASSUME talk \in Talk, NEW c \in Causes
    PROVE  /\ Meets(c) \in Talk /\ Meets(c).phase = talk.phase /\ Meets(c).on = talk.on
           /\ Meets(c).reply = talk.reply /\ Meets(c).met = talk.met \cup {c}
           /\ Meets(c).readable = talk.readable /\ Meets(c).stuck = talk.stuck
           /\ Meets(c).tries = talk.tries
  BY DEF Meets, Talk

LEMMA ConnectNumbers ==
    /\ LoginRetries \in Nat /\ OpRetries \in Nat /\ MaxTalks \in Nat
    /\ AfterUses \in Nat \ {0} /\ ProbeAttempts \in Nat \ {0} /\ Slots \in Nat \ {0}
    /\ Round \in Nat \ {0} /\ Never \in Nat
    /\ None \notin Files /\ "diagnosis" \notin Files
<1>1. /\ LoginRetries \in Nat /\ OpRetries \in Nat /\ MaxTalks \in Nat
      /\ AfterUses \in Nat \ {0} /\ ProbeAttempts \in Nat \ {0} /\ Slots \in Nat \ {0}
      /\ None \notin Files /\ "diagnosis" \notin Files
  BY ConnectingAssumption DEF None
<1>2. (AfterUses + 1) * (MaxTalks + 1) \in Nat
  BY <1>1
<1> QED
  BY <1>1, <1>2 DEF Round, Never

LEMMA ForgottenIsAges == Forgotten \in Ages /\ DOMAIN Forgotten = {"schema_too_new", "timeout"}
  BY ConnectNumbers DEF Forgotten, Ages

LEMMA AgesAreNumbers ==
    ASSUME NEW ages \in Ages
    PROVE  ages["schema_too_new"] \in Nat /\ ages["timeout"] \in Nat
  BY ConnectNumbers DEF Ages

LEMMA ConnectInitInv == ConnectInit => ConnectInv
<1> SUFFICES ASSUME ConnectInit
             PROVE  ConnectInv
  OBVIOUS
<1>1. talk = Fresh /\ Fresh \in Talk /\ Fresh.reply = NoReply /\ Fresh.phase = "idle"
      /\ Fresh.readable = FALSE
  BY DEF ConnectInit, Fresh, Talk, Phases, TalkReply, NoReply, None
<1>2. reasons \in [Files -> Reason] /\ \A b \in Files : reasons[b].reason = None
  BY ConnectNumbers DEF ConnectInit, Reason, Reasons
<1>3. lately \in [Files -> Ages] /\ silent \in [Files -> Nat]
  BY ForgottenIsAges DEF ConnectInit
<1>4. guard \in Guards /\ guard.checked = FALSE
  BY ConnectNumbers DEF ConnectInit, Guards
<1>5. running = 0 /\ queued = 0 /\ hung = 0 /\ talks = 0 /\ late = None
  BY DEF ConnectInit
<1>6. ConnectTyped
  <2>1. weather \in Weathers /\ ahead \in BOOLEAN /\ state \in [Files -> States]
        /\ open \in Files \cup {None}
    BY DEF ConnectInit, Weathers, States
  <2>2. /\ running \in 0..Slots /\ hung \in 0..Slots /\ queued \in Nat
        /\ talks \in 0..MaxTalks /\ late \in Files \cup {None, "diagnosis"}
    BY <1>5, ConnectNumbers
  <2> QED
    BY <1>1, <1>2, <1>3, <1>4, <2>1, <2>2 DEF ConnectTyped, Memory
<1>7. Slotted /\ Warned
  BY <1>1, <1>4, <1>5 DEF Slotted, Warned
<1>8. \A b \in Files : Dated(b)
  BY <1>2 DEF Dated, Recent, None
<1>9. TalkTold
  BY <1>1, <1>5, ConnectNumbers DEF TalkTold, CauseIsTrue, TimeoutIsItsOwn, NoReply, None
<1> QED
  BY <1>6, <1>7, <1>8, <1>9 DEF ConnectInv

-----------------------------------------------------------------------------
(* What the cache of reasons knows.                                         *)
LEMMA MemoryStays ==
    ASSUME ConnectInv, UNCHANGED memory
    PROVE  Memory' /\ \A b \in Files : Dated(b)'
<1>1. UNCHANGED <<reasons, lately, silent>>
  BY DEF memory
<1>2. Memory'
  BY <1>1 DEF ConnectInv, ConnectTyped, Memory
<1>3. ASSUME NEW b \in Files
      PROVE  Dated(b)'
  <2>1. Dated(b)
    BY <1>3 DEF ConnectInv
  <2> QED
    BY <1>1, <2>1 DEF Dated
<1> QED
  BY <1>2, <1>3

LEMMA ReasonCleared ==
    ASSUME ConnectInv, NEW b \in Files, ClearCachedReason(b)
    PROVE  Memory' /\ \A c \in Files : Dated(c)'
<1>1. reasons \in [Files -> Reason] /\ lately \in [Files -> Ages] /\ silent \in [Files -> Nat]
  BY DEF ConnectInv, ConnectTyped, Memory
<1>2. [reason |-> None, uses |-> 0] \in Reason
  BY ConnectNumbers DEF Reason, Reasons
<1>3. Memory'
  BY <1>1, <1>2, ForgottenIsAges DEF Memory, ClearCachedReason
<1>4. ASSUME NEW c \in Files
      PROVE  Dated(c)'
  <2>1. CASE c = b
    <3>1. reasons'[c].reason = None
      BY <1>1, <2>1 DEF ClearCachedReason
    <3> QED
      BY <3>1 DEF Dated, Recent, None
  <2>2. CASE c # b
    <3>1. Dated(c)
      BY <1>4 DEF ConnectInv
    <3>2. reasons'[c] = reasons[c] /\ lately'[c] = lately[c] /\ silent'[c] = silent[c]
      BY <1>1, <2>2 DEF ClearCachedReason
    <3> QED
      BY <3>1, <3>2 DEF Dated
  <2> QED
    BY <2>1, <2>2
<1> QED
  BY <1>3, <1>4

(* A call that goes on has no reply.                                        *)
LEMMA TalkGoesOn ==
    ASSUME talk' \in Talk, talk'.phase \notin {"idle", "settle", "told"}, talk'.on \in Files,
           talk'.reply = NoReply, late' = None
    PROVE  TalkTold'
<1>1. NoReply.how = None
  BY DEF NoReply
<1> QED
  BY <1>1 DEF TalkTold, CauseIsTrue, TimeoutIsItsOwn, None

(* A call that ends with a cause met it, and with a time-out had it.        *)
LEMMA TalkEnds ==
    ASSUME talk' \in Talk, talk'.phase = "told", talk'.on \in Files,
           talk'.reply.how = "named" => talk'.reply.cause \in talk'.met,
           talk'.reply.how = "raw" /\ talk'.reply.cause = "timeout" =>
               talk'.stuck \/ talk'.behind # None
    PROVE  TalkTold'
  BY DEF TalkTold, Resting, CauseIsTrue, TimeoutIsItsOwn

(* Whether a version was judged, or could not be read too often.            *)
LEMMA GuardStays ==
    ASSUME ConnectInv, guard' = guard, talk'.readable => talk.readable
    PROVE  Warned'
  BY DEF ConnectInv, Warned

LEMMA GuardChecks ==
    ASSUME ConnectInv, CheckServerVersionOnce,
           talk'.readable => talk.readable \/ weather \in {"fine", "password"}
    PROVE  guard' \in Guards /\ Warned'
<1>1. guard \in Guards /\ Warned
  BY DEF ConnectInv, ConnectTyped
<1>2. CASE guard.checked \/ guard.attempts >= ProbeAttempts
  <2>1. guard' = guard
    BY <1>2 DEF CheckServerVersionOnce
  <2> QED
    BY <1>1, <1>2, <2>1 DEF Warned
<1>3. CASE ~(guard.checked \/ guard.attempts >= ProbeAttempts) /\ weather \in {"fine", "password"}
  <2>1. guard' = [guard EXCEPT !.checked = TRUE, !.judged = Verdict]
    BY <1>3 DEF CheckServerVersionOnce
  <2>2. Verdict \in {"ahead", "fit"}
    BY DEF Verdict
  <2>3. guard' \in Guards /\ guard'.judged = Verdict
    BY <1>1, <2>1, <2>2 DEF Guards
  <2> QED
    BY <2>2, <2>3 DEF Warned, None
<1>4. CASE /\ ~(guard.checked \/ guard.attempts >= ProbeAttempts)
           /\ weather \notin {"fine", "password"}
  <2>1. guard' = [guard EXCEPT !.attempts = @ + 1]
    BY <1>4 DEF CheckServerVersionOnce
  <2>2. guard.attempts \in 0..ProbeAttempts /\ ~(guard.attempts >= ProbeAttempts)
    BY <1>1, <1>4 DEF Guards
  <2>3. guard.attempts + 1 \in 0..ProbeAttempts
    BY <2>2, ConnectNumbers
  <2>4. /\ guard' \in Guards /\ guard'.judged = guard.judged /\ guard'.checked = guard.checked
        /\ guard'.attempts = guard.attempts + 1
    BY <1>1, <2>1, <2>3 DEF Guards
  <2>5. talk'.readable => guard.judged # None \/ guard.attempts >= ProbeAttempts
    BY <1>1, <1>4 DEF Warned
  <2> QED
    BY <1>1, <1>4, <2>4, <2>5 DEF Warned
<1> QED
  BY <1>2, <1>3, <1>4

(* A call that starts, at once or behind a load that was abandoned.          *)
LEMMA StartCallKeeps ==
    ASSUME ConnectInv, NEW b \in Files, NEW kind \in {"read", "write"}, StartCall(b, kind)
    PROVE  ConnectInv'
<1> DEFINE phase == IF late = None THEN FirstStep(b) ELSE "settle"
<1>1. talk' = [Fresh EXCEPT !.on = b, !.kind = kind, !.behind = late, !.phase = phase]
  BY DEF StartCall
<1>2. phase \in {"settle", "login", "probe", "admit"} /\ (phase = "settle" <=> late # None)
  BY DEF FirstStep
<1> HIDE DEF phase
<1>3. /\ UNCHANGED <<outside, live, open, memory, guard, limiter, late>>
      /\ talks' = talks + 1 /\ talks < MaxTalks /\ Resting
  BY DEF StartCall
<1>4. ConnectTyped /\ Slotted /\ late \in Files \cup {None, "diagnosis"}
  BY DEF ConnectInv, ConnectTyped
<1>5. /\ talk' \in Talk /\ talk'.phase = phase /\ talk'.on = b /\ talk'.reply = NoReply
      /\ talk'.readable = FALSE /\ talk'.behind = late
  BY <1>1, <1>2, <1>4 DEF Fresh, Talk, Phases, TalkReply, NoReply, None
<1>6. talks' \in 0..MaxTalks
  BY <1>3, <1>4, ConnectNumbers DEF ConnectTyped
<1>7. Memory' /\ \A c \in Files : Dated(c)'
  BY <1>3, MemoryStays
<1>8. ConnectTyped'
  BY <1>3, <1>4, <1>5, <1>6, <1>7 DEF ConnectTyped, outside, limiter
<1>9. Slotted'
  BY <1>2, <1>3, <1>4, <1>5 DEF Slotted, Resting, limiter
<1>10. Warned'
  BY <1>3, <1>5, GuardStays
<1>11. TalkTold'
  BY <1>2, <1>3, <1>5 DEF TalkTold, CauseIsTrue, TimeoutIsItsOwn, NoReply, None
<1> QED
  BY <1>7, <1>8, <1>9, <1>10, <1>11 DEF ConnectInv

LEMMA LoadIsAwaitedKeeps == ASSUME ConnectInv, LoadIsAwaited PROVE ConnectInv'
<1>1. /\ talk.phase = "settle" /\ late = None
      /\ talk' = [talk EXCEPT !.phase = FirstStep(talk.on), !.behind = None]
      /\ UNCHANGED <<outside, live, open, memory, guard, limiter, late, talks>>
  BY DEF LoadIsAwaited
<1>2. ConnectTyped /\ Slotted /\ talk \in Talk /\ talk.on \in Files /\ talk.reply = NoReply
  BY <1>1 DEF ConnectInv, ConnectTyped, TalkTold
<1>3. FirstStep(talk.on) \in {"login", "probe", "admit"}
  BY DEF FirstStep
<1>4. /\ talk' \in Talk /\ talk'.phase = FirstStep(talk.on) /\ talk'.on = talk.on
      /\ talk'.reply = NoReply /\ talk'.readable = talk.readable
  BY <1>1, <1>2, <1>3 DEF Talk, Phases
<1>5. Memory' /\ \A b \in Files : Dated(b)'
  BY <1>1, MemoryStays
<1>6. TalkTold'
  BY <1>1, <1>2, <1>3, <1>4, TalkGoesOn
<1>7. ConnectTyped'
  BY <1>1, <1>2, <1>4, <1>5 DEF ConnectTyped, outside, limiter
<1>8. Slotted'
  BY <1>1, <1>2, <1>3, <1>4 DEF Slotted, limiter
<1>9. Warned'
  BY <1>1, <1>4, GuardStays
<1> QED
  BY <1>5, <1>6, <1>7, <1>8, <1>9 DEF ConnectInv

LEMMA AwaitTimesOutKeeps == ASSUME ConnectInv, AwaitTimesOut PROVE ConnectInv'
<1>1. /\ talk.phase = "settle" /\ talk' = Told(talk, OpTimeout)
      /\ UNCHANGED <<outside, live, open, memory, guard, limiter, late, talks>>
  BY DEF AwaitTimesOut
<1>2. /\ ConnectTyped /\ Slotted /\ talk \in Talk /\ talk.on \in Files
      /\ talk.behind # None
  BY <1>1 DEF ConnectInv, ConnectTyped, TalkTold
<1>3. /\ StdioReply(OpTimeout) = [how |-> "raw", cause |-> "timeout"]
      /\ StdioReply(OpTimeout) \in TalkReply
  BY OperationReplies DEF TalkReply, Causes
<1>4. /\ talk' \in Talk /\ talk'.phase = "told" /\ talk'.on = talk.on
      /\ talk'.readable = talk.readable /\ talk'.behind = talk.behind
      /\ talk'.reply.how = "raw"
  BY <1>1, <1>2, <1>3, ToldFields
<1>5. Memory' /\ \A b \in Files : Dated(b)'
  BY <1>1, MemoryStays
<1>6. TalkTold'
  BY <1>2, <1>4, TalkEnds
<1>7. ConnectTyped'
  BY <1>1, <1>2, <1>4, <1>5 DEF ConnectTyped, outside, limiter
<1>8. Slotted'
  BY <1>1, <1>2, <1>4 DEF Slotted, limiter
<1>9. Warned'
  BY <1>1, <1>4, GuardStays
<1> QED
  BY <1>5, <1>6, <1>7, <1>8, <1>9 DEF ConnectInv

LEMMA LogInKeeps == ASSUME ConnectInv, LogIn PROVE ConnectInv'
<1>1. /\ UNCHANGED <<outside, live, open, memory, guard, limiter, late, talks>>
      /\ talk.phase = "login"
  BY DEF LogIn
<1>2. /\ ConnectTyped /\ Slotted /\ talk \in Talk /\ weather \in Weathers
      /\ talk.on \in Files /\ talk.reply = NoReply /\ late = None
  BY <1>1 DEF ConnectInv, ConnectTyped, TalkTold, Resting
<1>3. /\ talk' \in Talk /\ talk'.phase \in {"probe", "login", "told"}
      /\ talk'.on = talk.on /\ talk'.readable = talk.readable
      /\ TalkTold'
  <2>1. CASE weather = "fine"
    <3>1. talk' = [talk EXCEPT !.phase = "probe", !.tries = 0]
      BY <2>1 DEF LogIn
    <3>2. /\ talk' \in Talk /\ talk'.phase = "probe" /\ talk'.on = talk.on
          /\ talk'.readable = talk.readable /\ talk'.reply = talk.reply
      BY <1>2, <3>1 DEF Talk, Phases
    <3> QED
      BY <1>1, <1>2, <3>2, TalkGoesOn
  <2>2. CASE weather # "fine"
    <3> DEFINE e == LoginFault[weather]
               met == Meets(CauseOf[weather])
    <3>1. CauseOf[weather] \in Causes
      BY <1>2, <2>2 DEF Weathers, CauseOf, Causes
    <3>2. /\ met \in Talk /\ met.phase = "login" /\ met.on = talk.on
          /\ met.reply = talk.reply /\ CauseOf[weather] \in met.met
          /\ met.readable = talk.readable /\ met.tries = talk.tries
      BY <1>1, <1>2, <3>1, MeetsFields
    <3>3. StdioReply(MarkInitFailure(e)) = [how |-> "named", cause |-> CauseOf[weather]]
      BY <1>2, <2>2, LoginReplies
    <3>4. \/ talk' = [met EXCEPT !.tries = @ + 1]
          \/ talk' = Told(met, MarkInitFailure(e))
      BY <2>2 DEF LogIn
    <3> HIDE DEF met, e
    <3>5. CASE talk' = [met EXCEPT !.tries = @ + 1]
      <4>1. /\ talk' \in Talk /\ talk'.phase = "login" /\ talk'.on = talk.on
            /\ talk'.readable = talk.readable /\ talk'.reply = talk.reply
        BY <3>2, <3>5 DEF Talk
      <4> QED
        BY <1>1, <1>2, <4>1, TalkGoesOn
    <3>6. CASE talk' = Told(met, MarkInitFailure(e))
      <4>1. StdioReply(MarkInitFailure(e)) \in TalkReply
        BY <3>1, <3>3 DEF TalkReply
      <4>2. /\ talk' \in Talk /\ talk'.phase = "told" /\ talk'.on = talk.on
            /\ talk'.readable = talk.readable /\ talk'.met = met.met
            /\ talk'.reply.how = "named" /\ talk'.reply.cause = CauseOf[weather]
        BY <3>2, <3>3, <3>6, <4>1, ToldFields
      <4> QED
        BY <1>2, <3>2, <4>2, TalkEnds
    <3> QED
      BY <3>4, <3>5, <3>6
  <2> QED
    BY <2>1, <2>2
<1>4. Memory' /\ \A c \in Files : Dated(c)'
  BY <1>1, MemoryStays
<1>5. ConnectTyped'
  BY <1>1, <1>2, <1>3, <1>4 DEF ConnectTyped, outside, limiter
<1>6. Slotted'
  BY <1>1, <1>2, <1>3 DEF Slotted, limiter
<1>7. Warned'
  BY <1>1, <1>3, GuardStays
<1> QED
  BY <1>3, <1>4, <1>5, <1>6, <1>7 DEF ConnectInv

LEMMA ProbeBeforeLoadKeeps == ASSUME ConnectInv, ProbeBeforeLoad PROVE ConnectInv'
<1>1. /\ UNCHANGED <<outside, live, open, memory, limiter, late, talks>>
      /\ talk.phase = "probe" /\ CheckServerVersionOnce
  BY DEF ProbeBeforeLoad
<1>2. /\ ConnectTyped /\ Slotted /\ talk \in Talk
      /\ talk.on \in Files /\ talk.reply = NoReply /\ late = None
  BY <1>1 DEF ConnectInv, ConnectTyped, TalkTold, Resting
<1>3. ahead \in BOOLEAN
  BY <1>2 DEF ConnectTyped
<1> DEFINE could == ahead /\ weather \in {"fine", "password"}
<1>4. could \in BOOLEAN /\ (could => weather \in {"fine", "password"})
  OBVIOUS
<1>5. talk' = [talk EXCEPT !.phase = "load", !.readable = could]
  BY DEF ProbeBeforeLoad
<1> HIDE DEF could
<1>6. /\ talk' \in Talk /\ talk'.phase = "load" /\ talk'.on = talk.on
      /\ talk'.readable = could /\ talk'.reply = talk.reply
  BY <1>2, <1>4, <1>5 DEF Talk, Phases
<1>7. guard' \in Guards /\ Warned'
  BY <1>1, <1>4, <1>6, GuardChecks
<1>8. TalkTold'
  BY <1>1, <1>2, <1>6, TalkGoesOn
<1>9. Memory' /\ \A c \in Files : Dated(c)'
  BY <1>1, MemoryStays
<1>10. ConnectTyped'
  BY <1>1, <1>2, <1>6, <1>7, <1>9 DEF ConnectTyped, outside, limiter
<1>11. Slotted'
  BY <1>1, <1>2, <1>6 DEF Slotted, limiter
<1> QED
  BY <1>7, <1>8, <1>9, <1>10, <1>11 DEF ConnectInv

LEMMA LoadOpensKeeps == ASSUME ConnectInv, LoadOpens PROVE ConnectInv'
<1>1. /\ UNCHANGED <<outside, guard, limiter, late, talks>> /\ open' = talk.on
      /\ talk.phase = "load" /\ ClearCachedReason(talk.on)
      /\ talk' = [talk EXCEPT !.phase = "admit"]
  BY DEF LoadOpens
<1>2. /\ ConnectTyped /\ Slotted /\ talk \in Talk
      /\ talk.on \in Files /\ talk.reply = NoReply /\ late = None
  BY <1>1 DEF ConnectInv, ConnectTyped, TalkTold, Resting
<1>3. /\ talk' \in Talk /\ talk'.phase = "admit" /\ talk'.on = talk.on
      /\ talk'.readable = talk.readable /\ talk'.reply = talk.reply
  BY <1>1, <1>2 DEF Talk, Phases
<1>4. Memory' /\ \A c \in Files : Dated(c)'
  BY <1>1, <1>2, ReasonCleared
<1>5. ConnectTyped'
  BY <1>1, <1>2, <1>3, <1>4 DEF ConnectTyped, outside, limiter
<1>6. Slotted'
  BY <1>1, <1>2, <1>3 DEF Slotted, limiter
<1>7. Warned'
  BY <1>1, <1>3, GuardStays
<1>8. TalkTold'
  BY <1>1, <1>2, <1>3, TalkGoesOn
<1> QED
  BY <1>4, <1>5, <1>6, <1>7, <1>8 DEF ConnectInv

LEMMA LoadOpensNothingKeeps == ASSUME ConnectInv, LoadOpensNothing PROVE ConnectInv'
<1>1. /\ UNCHANGED <<outside, memory, guard, limiter, late, talks>> /\ open' = None
      /\ talk.phase = "load" /\ talk' = [talk EXCEPT !.phase = "diagnose"]
  BY DEF LoadOpensNothing
<1>2. /\ ConnectTyped /\ Slotted /\ talk \in Talk
      /\ talk.on \in Files /\ talk.reply = NoReply /\ late = None
  BY <1>1 DEF ConnectInv, ConnectTyped, TalkTold, Resting
<1>3. /\ talk' \in Talk /\ talk'.phase = "diagnose" /\ talk'.on = talk.on
      /\ talk'.readable = talk.readable /\ talk'.reply = talk.reply
  BY <1>1, <1>2 DEF Talk, Phases
<1>4. Memory' /\ \A c \in Files : Dated(c)'
  BY <1>1, MemoryStays
<1>5. ConnectTyped'
  BY <1>1, <1>2, <1>3, <1>4 DEF ConnectTyped, outside, limiter
<1>6. Slotted'
  BY <1>1, <1>2, <1>3 DEF Slotted, limiter
<1>7. Warned'
  BY <1>1, <1>3, GuardStays
<1>8. TalkTold'
  BY <1>1, <1>2, <1>3, TalkGoesOn
<1> QED
  BY <1>4, <1>5, <1>6, <1>7, <1>8 DEF ConnectInv

(* A load that fails names what the connection met.                         *)
LEMMA LoadFailsKeeps ==
    ASSUME ConnectInv, talk.phase = "load", open' = None,
           UNCHANGED <<outside, memory, guard, limiter, talks>>,
           late' \in Files \cup {None},
           NEW c \in Causes, NEW e, StdioReply(e) = [how |-> "named", cause |-> c],
           talk' = Told(Meets(c), e)
    PROVE  ConnectInv'
<1>1. /\ ConnectTyped /\ Slotted /\ talk \in Talk
      /\ talk.on \in Files /\ talk.reply = NoReply
  BY DEF ConnectInv, ConnectTyped, TalkTold, Resting
<1>2. /\ Meets(c) \in Talk /\ Meets(c).on = talk.on /\ c \in Meets(c).met
      /\ Meets(c).readable = talk.readable
  BY <1>1, MeetsFields
<1>3. StdioReply(e) \in TalkReply /\ StdioReply(e).how = "named" /\ StdioReply(e).cause = c
  BY DEF TalkReply
<1>4. /\ talk' \in Talk /\ talk'.phase = "told" /\ talk'.on = talk.on
      /\ talk'.readable = talk.readable /\ talk'.met = Meets(c).met
      /\ talk'.reply.how = "named" /\ talk'.reply.cause = c
  BY <1>2, <1>3, ToldFields
<1>5. TalkTold'
  BY <1>1, <1>2, <1>4, TalkEnds
<1>6. Memory' /\ \A b \in Files : Dated(b)'
  BY MemoryStays
<1>7. ConnectTyped'
  BY <1>1, <1>4, <1>6 DEF ConnectTyped, outside, limiter
<1>8. Slotted'
  BY <1>1, <1>4 DEF Slotted, limiter
<1>9. Warned'
  BY <1>4, GuardStays
<1> QED
  BY <1>5, <1>6, <1>7, <1>8, <1>9 DEF ConnectInv

LEMMA LoadRejectsKeeps == ASSUME ConnectInv, LoadRejects PROVE ConnectInv'
<1>1. /\ talk.phase = "load" /\ open' = None
      /\ UNCHANGED <<outside, memory, guard, limiter, late, talks>>
  BY DEF LoadRejects
<1>2. late = None
  BY <1>1 DEF ConnectInv, TalkTold, Resting
<1>3. CASE /\ weather \in {"throttle", "network"}
           /\ talk' = Told(Meets(CauseOf[weather]), MarkInitFailure(LoadFault[weather]))
  <2>1. CauseOf[weather] \in Causes
    BY <1>3 DEF CauseOf, Causes
  <2>2. StdioReply(MarkInitFailure(LoadFault[weather]))
            = [how |-> "named", cause |-> CauseOf[weather]]
    BY <1>3, LoadReplies
  <2> QED
    BY <1>1, <1>2, <1>3, <2>1, <2>2, LoadFailsKeeps
<1>4. CASE talk' = Told(Meets("out_of_sync"), MarkInitFailure(LoadFault.sync))
  <2>1. "out_of_sync" \in Causes
    BY DEF Causes
  <2> QED
    BY <1>1, <1>2, <1>4, <2>1, LoadReplies, LoadFailsKeeps
<1> QED
  BY <1>3, <1>4 DEF LoadRejects

LEMMA LoadTimesOutKeeps == ASSUME ConnectInv, LoadTimesOut PROVE ConnectInv'
<1>1. /\ talk.phase = "load" /\ open' = None /\ late' = talk.on
      /\ UNCHANGED <<outside, memory, guard, limiter, talks>>
      /\ talk' = Told(Meets("timeout"), MarkInitFailure(OpTimeout))
  BY DEF LoadTimesOut
<1>2. talk.on \in Files
  BY <1>1 DEF ConnectInv, TalkTold
<1>3. "timeout" \in Causes
  BY DEF Causes
<1> QED
  BY <1>1, <1>2, <1>3, LoadReplies, LoadFailsKeeps

(* A late load may make the cache forget, but then what the last call was   *)
(* told it met itself.                                                      *)
LEMMA LateLoadSettlesKeeps == ASSUME ConnectInv, LateLoadSettles PROVE ConnectInv'
<1>1. /\ UNCHANGED <<outside, open, guard, limiter, talk, talks>>
      /\ late # None /\ late' = None
  BY DEF LateLoadSettles
<1>2. ConnectTyped /\ Slotted /\ TalkTold
  BY DEF ConnectInv
<1>3. Memory' /\ \A b \in Files : Dated(b)'
  <2>1. CASE late \in Files /\ ClearCachedReason(late)
    BY <2>1, ReasonCleared
  <2>2. CASE UNCHANGED memory
    BY <2>2, MemoryStays
  <2> QED
    BY <2>1, <2>2 DEF LateLoadSettles
<1>4. TalkTold'
  <2>1. CASE late \in Files
    BY <1>1, <1>2, <2>1 DEF TalkTold, CauseIsTrue, TimeoutIsItsOwn
  <2>2. CASE late \notin Files
    <3>1. UNCHANGED <<reasons, lately, silent>>
      BY <2>2 DEF LateLoadSettles, memory
    <3>2. late' \notin Files
      BY <1>1, ConnectNumbers
    <3> QED
      BY <1>1, <1>2, <3>1, <3>2 DEF TalkTold, CauseIsTrue, TimeoutIsItsOwn
  <2> QED
    BY <2>1, <2>2
<1>5. ConnectTyped'
  BY <1>1, <1>2, <1>3 DEF ConnectTyped, outside, limiter
<1>6. Slotted'
  BY <1>1, <1>2 DEF Slotted, limiter
<1>7. Warned'
  BY <1>1, GuardStays
<1> QED
  BY <1>3, <1>4, <1>5, <1>6, <1>7 DEF ConnectInv

-----------------------------------------------------------------------------
(* A diagnosis makes every cause of its budget a call older, except those   *)
(* that are true now.                                                       *)
LEMMA AnswersAge ==
    ASSUME ConnectInv, talk.on \in Files, NEW t \in Talk, t.on = talk.on,
           NEW cached \in Reason, NEW reason, Answers(t, cached, reason)
    PROVE  /\ reasons' = [reasons EXCEPT ![talk.on] = cached]
           /\ lately' \in [Files -> Ages]
           /\ \A b \in Files \ {talk.on} : lately'[b] = lately[b]
           /\ \A c \in {"schema_too_new", "timeout"} :
                  /\ lately'[talk.on][c] <= lately[talk.on][c] + 1
                  /\ c \in t.met \/ (c = "schema_too_new" /\ state[talk.on] = "schema") =>
                         lately'[talk.on][c] = 0
<1> DEFINE b == talk.on
           true == t.met \cup (IF state[b] = "schema" THEN {"schema_too_new"} ELSE {})
           aged == [c \in DOMAIN Forgotten |-> IF c \in true THEN 0
                       ELSE IF lately[b][c] < Never THEN lately[b][c] + 1 ELSE Never]
<1>1. reasons \in [Files -> Reason] /\ lately \in [Files -> Ages] /\ b \in Files
  BY DEF ConnectInv, ConnectTyped, Memory
<1>2. reasons' = [reasons EXCEPT ![b] = cached] /\ lately' = [lately EXCEPT ![b] = aged]
  BY <1>1 DEF Answers
<1>3. ASSUME NEW c \in {"schema_too_new", "timeout"}
      PROVE  /\ aged[c] \in 0..Never /\ aged[c] <= lately[b][c] + 1
             /\ c \in t.met \/ (c = "schema_too_new" /\ state[b] = "schema") => aged[c] = 0
  <2>1. lately[b][c] \in 0..Never
    BY <1>1, <1>3 DEF Ages
  <2>2. aged[c] = IF c \in true THEN 0
                  ELSE IF lately[b][c] < Never THEN lately[b][c] + 1 ELSE Never
    BY <1>3, ForgottenIsAges
  <2>3. c \in t.met \/ (c = "schema_too_new" /\ state[b] = "schema") => c \in true
    OBVIOUS
  <2> HIDE DEF true, aged, b
  <2> QED
    BY <2>1, <2>2, <2>3, ConnectNumbers
<1>4. aged \in Ages
  <2>1. DOMAIN aged = {"schema_too_new", "timeout"}
    BY ForgottenIsAges
  <2>2. aged = [c \in {"schema_too_new", "timeout"} |-> aged[c]]
    BY ForgottenIsAges
  <2> HIDE DEF aged
  <2> QED
    BY <1>3, <2>2 DEF Ages
<1> HIDE DEF aged
<1>5. lately' \in [Files -> Ages] /\ lately'[b] = aged
      /\ \A x \in Files \ {b} : lately'[x] = lately[x]
  BY <1>1, <1>2, <1>4
<1> QED
  BY <1>2, <1>3, <1>5

(* A round of the cache: a budget whose reason serves once more.            *)
LEMMA RoundGrows ==
    ASSUME NEW n \in Nat
    PROVE  /\ Rounds(n) \in Nat /\ Rounds(n + 1) = Rounds(n) + Round /\ Rounds(0) = 0
           /\ (AfterUses + 1) * (n + 1) = Rounds(n) + Round
           /\ Round \in Nat
<1>1. Round \in Nat /\ Round = AfterUses + 1
  BY ConnectNumbers DEF Round
<1> QED
  BY <1>1 DEF Rounds

(* A cause that an entry of the cache repeats is recent, in the words of     *)
(* CauseIsTrue.                                                             *)
LEMMA RecentIsBounded ==
    ASSUME NEW age \in Nat, NEW n \in Nat, NEW uses \in 0..AfterUses, age <= Rounds(n) + uses
    PROVE  StillRepeated(age, n)
<1>1. /\ Rounds(n) \in Nat /\ (AfterUses + 1) * (n + 1) = Rounds(n) + Round /\ Rounds(0) = 0
  BY RoundGrows
<1>2. Round \in Nat /\ AfterUses \in Nat /\ uses \in Nat /\ uses < Round /\ uses <= AfterUses
  <2>1. AfterUses \in Nat
    BY ConnectNumbers
  <2> QED
    BY <2>1 DEF Round
<1>3. CASE n = 0
  <2>1. age <= AfterUses
    BY <1>1, <1>2, <1>3
  <2> QED
    BY <2>1 DEF StillRepeated
<1>4. CASE n > 0
  <2>1. age < Rounds(n) + Round
    BY <1>1, <1>2
  <2> QED
    BY <1>1, <1>4, <2>1 DEF StillRepeated
<1> QED
  BY <1>3, <1>4

(* Another failed call, answered from the cache or by none: the entry has   *)
(* one use more, or begins another round.                                   *)
LEMMA RecentStays ==
    ASSUME NEW r \in Reason, NEW ages \in Ages, NEW n \in Nat, Recent(r, ages, n),
           NEW s \in Reason, s.reason = r.reason, NEW later \in Ages, NEW m \in Nat,
           \A c \in {"schema_too_new", "timeout"} : later[c] <= ages[c] + 1,
           \/ m = n /\ s.uses = r.uses + 1
           \/ m = n + 1 /\ s.uses = 0
    PROVE  Recent(s, later, m)
<1>1. ASSUME NEW age \in Nat, NEW old \in Nat, age <= old + 1, old <= Rounds(n) + r.uses
      PROVE  age <= Rounds(m) + s.uses
  <2>1. /\ Rounds(n) \in Nat /\ Rounds(n + 1) = Rounds(n) + Round /\ Round = AfterUses + 1
        /\ r.uses \in 0..AfterUses /\ AfterUses \in Nat
    BY RoundGrows, ConnectNumbers DEF Round, Reason
  <2>2. CASE m = n /\ s.uses = r.uses + 1
    BY <1>1, <2>1, <2>2
  <2>3. CASE m = n + 1 /\ s.uses = 0
    <3>1. Rounds(m) = Rounds(n) + Round
      BY <2>1, <2>3
    <3> QED
      BY <1>1, <2>1, <2>3, <3>1
  <2> QED
    BY <2>2, <2>3
<1>2. \A c \in {"schema_too_new", "timeout"} : later[c] \in Nat /\ ages[c] \in Nat
  BY ConnectNumbers DEF Ages
<1> QED
  BY <1>1, <1>2 DEF Recent

(* What a diagnosis leaves, when what it caches is dated and what it tells  *)
(* is recent.                                                               *)
LEMMA AnswersKeep ==
    ASSUME ConnectInv, Diagnosing, NEW t \in Talk, t.on = talk.on, t.readable = talk.readable,
           NEW cached \in Reason,
           NEW reason \in {None, "out-of-sync-migrations", "timed out", "no local copy",
                           "succeeded"},
           Answers(t, cached, reason),
           silent' \in [Files -> Nat],
           \A b \in Files \ {talk.on} : silent'[b] = silent[b],
           late' \in {late, "diagnosis"},
           Recent(cached, lately'[talk.on], silent'[talk.on]),
           reason = "out-of-sync-migrations" => cached.reason = reason,
           reason = "timed out" => cached.reason = reason
    PROVE  ConnectInv'
<1> DEFINE b == talk.on
           e == PostConditionError(reason)
<1>1. /\ ConnectTyped /\ Slotted /\ TalkTold /\ talk \in Talk /\ talk.phase = "diagnose"
      /\ b \in Files /\ late = None
  BY DEF ConnectInv, ConnectTyped, TalkTold, Resting, Diagnosing
<1>2. /\ reasons' = [reasons EXCEPT ![b] = cached] /\ lately' \in [Files -> Ages]
      /\ \A x \in Files \ {b} : lately'[x] = lately[x]
  BY <1>1, AnswersAge
<1>3. reasons \in [Files -> Reason]
  BY <1>1 DEF ConnectTyped, Memory
<1>4. reasons' \in [Files -> Reason] /\ reasons'[b] = cached
      /\ \A x \in Files \ {b} : reasons'[x] = reasons[x]
  BY <1>1, <1>2, <1>3
<1>5. Memory'
  BY <1>2, <1>4 DEF Memory
<1>6. ASSUME NEW x \in Files
      PROVE  Dated(x)'
  <2>1. CASE x = b
    BY <1>4, <2>1 DEF Dated
  <2>2. CASE x # b
    <3>1. Dated(x)
      BY <1>6 DEF ConnectInv
    <3>2. reasons'[x] = reasons[x] /\ lately'[x] = lately[x] /\ silent'[x] = silent[x]
      BY <1>2, <1>4, <1>6, <2>2
    <3> QED
      BY <3>1, <3>2 DEF Dated
  <2> QED
    BY <2>1, <2>2
<1>7. talk' = Told(t, e) /\ UNCHANGED <<outside, open, guard, limiter, talks>>
  BY DEF Answers
<1> DEFINE raw == [how |-> "raw", cause |-> None]
           newer == [how |-> "named", cause |-> "schema_too_new"]
           slow == [how |-> "named", cause |-> "timeout"]
<1>a. /\ reason = "out-of-sync-migrations" => StdioReply(e) = newer
      /\ reason = "timed out" => StdioReply(e) = slow
      /\ reason \in {None, "no local copy", "succeeded"} => StdioReply(e) = raw
  BY DiagnosisReplies
<1>b. /\ raw \in TalkReply /\ newer \in TalkReply /\ slow \in TalkReply
      /\ raw.how = "raw" /\ raw.cause = None
      /\ newer.how = "named" /\ newer.cause = "schema_too_new"
      /\ slow.how = "named" /\ slow.cause = "timeout"
  <2>1. None \in Causes \cup {None} /\ {"schema_too_new", "timeout"} \subseteq Causes
    BY DEF Causes
  <2>2. raw \in TalkReply
    BY <2>1 DEF TalkReply
  <2>3. newer \in TalkReply /\ slow \in TalkReply
    BY <2>1 DEF TalkReply
  <2> QED
    BY <2>2, <2>3
<1> HIDE DEF e, raw, newer, slow
<1>8. /\ StdioReply(e) \in TalkReply
      /\ StdioReply(e).how = "named" =>
             \/ reason = "out-of-sync-migrations" /\ StdioReply(e).cause = "schema_too_new"
             \/ reason = "timed out" /\ StdioReply(e).cause = "timeout"
      /\ StdioReply(e).how = "raw" => StdioReply(e).cause = None
  BY <1>a, <1>b
<1>9. /\ talk' \in Talk /\ talk'.phase = "told" /\ talk'.on = b
      /\ talk'.readable = talk.readable /\ talk'.reply = StdioReply(e)
  BY <1>7, <1>8, ToldFields
<1>10. late' \notin Files /\ late' \in {None, "diagnosis"}
  BY <1>1, ConnectNumbers
<1>11. CauseIsTrue'
  <2>1. /\ silent'[b] \in Nat /\ lately'[b] \in Ages /\ cached.uses \in 0..AfterUses
    BY <1>1, <1>2 DEF Reason
  <2>a. lately'[b]["schema_too_new"] \in Nat /\ lately'[b]["timeout"] \in Nat
    BY <2>1, AgesAreNumbers
  <2>2. CASE StdioReply(e).how # "named"
    BY <1>9, <2>2 DEF CauseIsTrue
  <2>3. CASE reason = "out-of-sync-migrations" /\ StdioReply(e).cause = "schema_too_new"
    <3>0. lately'[b]["schema_too_new"] <= Rounds(silent'[b]) + cached.uses
      BY <2>3 DEF Recent
    <3>1. StillRepeated(lately'[b]["schema_too_new"], silent'[b])
      BY <2>1, <2>a, <3>0, RecentIsBounded
    <3> QED
      BY <1>9, <2>3, <3>1, ForgottenIsAges DEF CauseIsTrue
  <2>4. CASE reason = "timed out" /\ StdioReply(e).cause = "timeout"
    <3>0. lately'[b]["timeout"] <= Rounds(silent'[b]) + cached.uses
      BY <2>4 DEF Recent
    <3>1. StillRepeated(lately'[b]["timeout"], silent'[b])
      BY <2>1, <2>a, <3>0, RecentIsBounded
    <3> QED
      BY <1>9, <2>4, <3>1, ForgottenIsAges DEF CauseIsTrue
  <2> QED
    BY <1>8, <2>2, <2>3, <2>4
<1>12. TalkTold'
  <2>1. TimeoutIsItsOwn'
    BY <1>8, <1>9 DEF TimeoutIsItsOwn, None
  <2> QED
    BY <1>1, <1>9, <1>10, <1>11, <2>1 DEF TalkTold, Resting
<1>13. ConnectTyped'
  BY <1>1, <1>5, <1>7, <1>9, <1>10 DEF ConnectTyped, outside, limiter
<1>14. Slotted'
  BY <1>1, <1>7, <1>9 DEF Slotted, limiter
<1>15. Warned'
  BY <1>7, <1>9, GuardStays
<1> QED
  BY <1>5, <1>6, <1>12, <1>13, <1>14, <1>15 DEF ConnectInv

(* What is known where a diagnosis starts.                                  *)
LEMMA AtDiagnosis ==
    ASSUME ConnectInv, Diagnosing
    PROVE  /\ talk \in Talk /\ talk.on \in Files /\ Cached \in Reason
           /\ Recent(Cached, lately[talk.on], silent[talk.on])
           /\ silent \in [Files -> Nat] /\ lately[talk.on] \in Ages
           /\ weather \in Weathers /\ state[talk.on] \in States
           /\ Reported(Cached.reason) \in
                  {None, "out-of-sync-migrations", "timed out", "no local copy"}
           /\ Reported(Cached.reason) \in {"out-of-sync-migrations", "timed out"} =>
                  Cached.reason = Reported(Cached.reason)
<1>1. /\ talk \in Talk /\ talk.on \in Files /\ reasons \in [Files -> Reason]
      /\ lately \in [Files -> Ages] /\ silent \in [Files -> Nat] /\ weather \in Weathers
      /\ state \in [Files -> States] /\ Dated(talk.on)
  BY DEF ConnectInv, ConnectTyped, Memory, TalkTold, Diagnosing
<1>2. Cached \in Reason
  BY <1>1 DEF Cached
<1>3. Reported(Cached.reason) \in {None, "out-of-sync-migrations", "timed out", "no local copy"}
      /\ (Reported(Cached.reason) \in {"out-of-sync-migrations", "timed out"} =>
              Cached.reason = Reported(Cached.reason))
  BY <1>2 DEF Reported, Reason, Reasons, None
<1> QED
  BY <1>1, <1>2, <1>3 DEF Dated, Cached

LEMMA ReuseReasonKeeps == ASSUME ConnectInv, ReuseReason PROVE ConnectInv'
<1> DEFINE cached == [Cached EXCEPT !.uses = @ + 1]
           b == talk.on
<1>1. /\ Diagnosing /\ Reusable(Cached) /\ UNCHANGED <<late, silent>>
      /\ Answers(talk, cached, Reported(Cached.reason))
  BY DEF ReuseReason
<1>2. Cached \in Reason
  BY <1>1, AtDiagnosis
<1>3. cached \in Reason /\ cached.reason = Cached.reason /\ cached.uses = Cached.uses + 1
  <2>1. Cached.uses + 1 \in 0..AfterUses
    BY <1>1, <1>2, ConnectNumbers DEF Reusable, Reason
  <2> QED
    BY <1>2, <2>1 DEF Reason
<1> HIDE DEF cached
<1>4. lately' \in [Files -> Ages]
      /\ \A c \in {"schema_too_new", "timeout"} : lately'[b][c] <= lately[b][c] + 1
  BY <1>1, <1>3, AtDiagnosis, AnswersAge
<1>5. /\ b \in Files /\ lately'[b] \in Ages /\ lately[b] \in Ages /\ silent[b] \in Nat
      /\ silent'[b] = silent[b] /\ Recent(Cached, lately[b], silent[b])
  BY <1>1, <1>4, AtDiagnosis
<1>6. Recent(cached, lately'[b], silent'[b])
  BY <1>2, <1>3, <1>4, <1>5, RecentStays
<1> QED
  BY <1>1, <1>3, <1>6, AtDiagnosis, AnswersKeep

(* A reason that could not be renewed serves another round.                 *)
LEMMA DiagnosisFailsKeeps == ASSUME ConnectInv, DiagnosisFails PROVE ConnectInv'
<1> DEFINE cached == [Cached EXCEPT !.uses = 0]
           b == talk.on
<1>1. /\ Diagnosing /\ ~Reusable(Cached) /\ late' = late
      /\ silent' = [silent EXCEPT ![b] = @ + 1]
      /\ Answers(talk, cached, Reported(Cached.reason))
  BY DEF DiagnosisFails
<1>2. Cached \in Reason /\ b \in Files /\ silent \in [Files -> Nat]
  BY <1>1, AtDiagnosis
<1>3. cached \in Reason /\ cached.reason = Cached.reason /\ cached.uses = 0
  <2>1. 0 \in 0..AfterUses
    BY ConnectNumbers
  <2> QED
    BY <1>2, <2>1 DEF Reason
<1> HIDE DEF cached
<1>4. /\ silent' \in [Files -> Nat] /\ silent'[b] = silent[b] + 1 /\ silent[b] \in Nat
      /\ \A x \in Files \ {b} : silent'[x] = silent[x]
  BY <1>1, <1>2
<1>5. lately' \in [Files -> Ages]
      /\ \A c \in {"schema_too_new", "timeout"} : lately'[b][c] <= lately[b][c] + 1
  BY <1>1, <1>3, AtDiagnosis, AnswersAge
<1>6. /\ lately'[b] \in Ages /\ lately[b] \in Ages /\ Recent(Cached, lately[b], silent[b])
      /\ silent'[b] \in Nat
  BY <1>1, <1>2, <1>4, <1>5, AtDiagnosis
<1>7. Recent(cached, lately'[b], silent'[b])
  BY <1>2, <1>3, <1>4, <1>5, <1>6, RecentStays
<1> DEFINE reason == Reported(Cached.reason)
<1>8. /\ reason \in {None, "out-of-sync-migrations", "timed out", "no local copy"}
      /\ reason \in {"out-of-sync-migrations", "timed out"} => cached.reason = reason
      /\ talk \in Talk /\ Answers(talk, cached, reason) /\ Diagnosing
  BY <1>1, <1>3, AtDiagnosis
<1>9. /\ late' \in {late, "diagnosis"} /\ silent' \in [Files -> Nat]
      /\ \A x \in Files \ {talk.on} : silent'[x] = silent[x]
      /\ Recent(cached, lately'[talk.on], silent'[talk.on])
  BY <1>1, <1>4, <1>7
<1> HIDE DEF reason
<1> QED
  BY <1>3, <1>8, <1>9, AnswersKeep

LEMMA DiagnosisStallsKeeps == ASSUME ConnectInv, DiagnosisStalls PROVE ConnectInv'
<1> DEFINE cached == [reason |-> "timed out", uses |-> 0]
           t == Meets("timeout")
           b == talk.on
<1>1. /\ Diagnosing /\ late' = "diagnosis" /\ silent' = [silent EXCEPT ![b] = 0]
      /\ Answers(t, cached, "timed out")
  BY DEF DiagnosisStalls
<1>2. cached \in Reason /\ cached.reason = "timed out" /\ cached.uses = 0
  BY ConnectNumbers DEF Reason, Reasons
<1>3. t \in Talk /\ t.on = b /\ t.readable = talk.readable /\ "timeout" \in t.met
  <2>1. talk \in Talk /\ "timeout" \in Causes
    BY <1>1, AtDiagnosis DEF Causes
  <2> QED
    BY <2>1, MeetsFields
<1> HIDE DEF cached, t
<1>4. /\ silent' \in [Files -> Nat] /\ silent'[b] = 0
      /\ \A x \in Files \ {b} : silent'[x] = silent[x]
  BY <1>1, AtDiagnosis
<1>5. lately'[b]["timeout"] = 0
  BY <1>1, <1>2, <1>3, AtDiagnosis, AnswersAge
<1>6. Recent(cached, lately'[b], silent'[b])
  <2>1. Rounds(0) = 0
    BY RoundGrows
  <2> QED
    <3>1. Rounds(silent'[b]) = 0 /\ cached.uses = 0 /\ lately'[b].timeout = 0
      BY <1>2, <1>4, <1>5, <2>1
    <3>2. cached.reason # "out-of-sync-migrations"
      BY <1>2
    <3> QED
      BY <3>1, <3>2 DEF Recent
<1> QED
  BY <1>1, <1>2, <1>3, <1>4, <1>6, AnswersKeep

LEMMA DiagnosisAnswersKeeps == ASSUME ConnectInv, DiagnosisAnswers PROVE ConnectInv'
<1> DEFINE why == Why[state[talk.on]]
           cached == [reason |-> IF why = "succeeded" THEN None ELSE why, uses |-> 0]
           b == talk.on
<1>1. /\ Diagnosing /\ late' = late /\ silent' = [silent EXCEPT ![b] = 0]
      /\ Answers(talk, cached, Reported(why))
  BY DEF DiagnosisAnswers
<1>2. why \in {"out-of-sync-migrations", "nothing", "no local copy", "succeeded"}
      /\ (why = "out-of-sync-migrations" => state[b] = "schema")
  <2>1. state[b] \in {"fine", "schema", "sync", "raw", "gone"}
    BY <1>1, AtDiagnosis DEF States
  <2>2. /\ Why["fine"] = "succeeded" /\ Why["sync"] = "succeeded" /\ Why["raw"] = "nothing"
        /\ Why["gone"] = "no local copy" /\ Why["schema"] = "out-of-sync-migrations"
    BY DEF Why
  <2> QED
    BY <2>1, <2>2
<1> HIDE DEF why
<1>3. cached \in Reason /\ cached.uses = 0
      /\ cached.reason = (IF why = "succeeded" THEN None ELSE why)
  <2>1. 0 \in 0..AfterUses
    BY ConnectNumbers
  <2> QED
    BY <1>2, <2>1 DEF Reason, Reasons
<1> HIDE DEF cached
<1>4. /\ silent' \in [Files -> Nat] /\ silent'[b] = 0
      /\ \A x \in Files \ {b} : silent'[x] = silent[x]
  BY <1>1, AtDiagnosis
<1>5. state[b] = "schema" => lately'[b]["schema_too_new"] = 0
  BY <1>1, <1>3, AtDiagnosis, AnswersAge
<1>6. Recent(cached, lately'[b], silent'[b])
  <2>1. Rounds(0) = 0
    BY RoundGrows
  <2>2. cached.reason # "timed out"
    BY <1>2, <1>3 DEF None
  <2>3. cached.reason = "out-of-sync-migrations" => lately'[b].schema_too_new = 0
    BY <1>2, <1>3, <1>5 DEF None
  <2>4. Rounds(silent'[b]) = 0
    BY <1>4, <2>1
  <2>5. cached.uses = 0
    BY <1>3
  <2>6. CASE cached.reason = "out-of-sync-migrations"
    <3>1. lately'[b].schema_too_new = 0
      BY <2>3, <2>6
    <3>2. lately'[b].schema_too_new <= Rounds(silent'[b]) + cached.uses
      BY <2>4, <2>5, <3>1
    <3> QED
      BY <2>2, <3>2 DEF Recent
  <2>7. CASE cached.reason # "out-of-sync-migrations"
    BY <2>2, <2>7 DEF Recent
  <2> QED
    BY <2>6, <2>7
<1>7. /\ Reported(why) \in {None, "out-of-sync-migrations", "no local copy", "succeeded"}
      /\ Reported(why) = "out-of-sync-migrations" => cached.reason = Reported(why)
      /\ Reported(why) # "timed out"
  BY <1>2, <1>3 DEF Reported, None
<1> DEFINE reason == Reported(why)
<1>8. talk \in Talk /\ Answers(talk, cached, reason)
  BY <1>1, AtDiagnosis
<1>9. /\ reason \in {None, "out-of-sync-migrations", "no local copy", "succeeded"}
      /\ reason = "out-of-sync-migrations" => cached.reason = reason
      /\ reason # "timed out"
  BY <1>7
<1> HIDE DEF reason
<1>10. reason \in {None, "out-of-sync-migrations", "timed out", "no local copy", "succeeded"}
  BY <1>9
<1>11. /\ talk.on = b /\ late' \in {late, "diagnosis"}
       /\ \A x \in Files \ {talk.on} : silent'[x] = silent[x]
  BY <1>1, <1>4
<1>12. Recent(cached, lately'[talk.on], silent'[talk.on])
  BY <1>6
<1> QED
  BY <1>1, <1>3, <1>4, <1>8, <1>9, <1>10, <1>11, <1>12, AnswersKeep, ZenonT(40)

-----------------------------------------------------------------------------
(* The operation.  A call that waits for a slot finds none only when        *)
(* abandoned operations hold them all.                                      *)
LEMMA AtOperation ==
    ASSUME ConnectInv, talk.phase \in {"admit", "operate", "after"}
    PROVE  /\ ConnectTyped /\ Slotted /\ talk \in Talk /\ talk.on \in Files
           /\ talk.reply = NoReply /\ late = None
           /\ running \in 0..Slots /\ hung \in 0..Slots /\ queued \in Nat /\ Slots \in Nat
  BY ConnectNumbers DEF ConnectInv, ConnectTyped, TalkTold, Resting

(* What every step of the limiter leaves to be shown.                       *)
LEMMA LimiterKeeps ==
    ASSUME ConnectInv, UNCHANGED <<outside, open, memory, late, talks>>,
           talk' \in Talk, guard' \in Guards, Warned', TalkTold',
           running' \in 0..Slots, hung' \in 0..Slots, queued' \in Nat,
           running' = hung' + (IF talk'.phase = "operate" THEN 1 ELSE 0),
           talk'.phase = "operate" => queued' = 0,
           queued' > 0 => running' = Slots
    PROVE  ConnectInv'
<1>1. ConnectTyped
  BY DEF ConnectInv
<1>2. Memory' /\ \A b \in Files : Dated(b)'
  BY MemoryStays
<1>3. ConnectTyped'
  BY <1>1, <1>2 DEF ConnectTyped, outside
<1>4. Slotted'
  BY DEF Slotted
<1> QED
  BY <1>2, <1>3, <1>4 DEF ConnectInv

LEMMA AdmitKeeps == ASSUME ConnectInv, Admit PROVE ConnectInv'
<1>1. /\ talk.phase = "admit" /\ running < Slots /\ running' = running + 1
      /\ talk' = [talk EXCEPT !.phase = "operate", !.tries = 0]
      /\ UNCHANGED <<outside, open, memory, guard, queued, hung, late, talks>>
  BY DEF Admit
<1>2. /\ ConnectTyped /\ Slotted /\ talk \in Talk /\ talk.on \in Files
      /\ talk.reply = NoReply /\ late = None
      /\ running \in 0..Slots /\ hung \in 0..Slots /\ queued \in Nat /\ Slots \in Nat
  BY <1>1, AtOperation
<1>3. /\ talk' \in Talk /\ talk'.phase = "operate" /\ talk'.on = talk.on
      /\ talk'.readable = talk.readable /\ talk'.reply = talk.reply
  BY <1>1, <1>2 DEF Talk, Phases
<1>4. guard' \in Guards /\ Warned'
  BY <1>1, <1>2, <1>3, GuardStays DEF ConnectTyped
<1>5. TalkTold'
  BY <1>1, <1>2, <1>3, TalkGoesOn
<1>6. running = hung /\ (queued > 0 => running = Slots)
  BY <1>1, <1>2 DEF Slotted
<1>7. /\ running' \in 0..Slots /\ hung' \in 0..Slots /\ queued' \in Nat
      /\ running' = hung' + 1 /\ queued' = 0
  BY <1>1, <1>2, <1>6
<1> QED
  BY <1>1, <1>3, <1>4, <1>5, <1>7, LimiterKeeps

LEMMA QueueTimesOutKeeps == ASSUME ConnectInv, QueueTimesOut PROVE ConnectInv'
<1> DEFINE t == Told(talk, OpTimeout)
           full == hung >= Slots
<1>1. /\ talk.phase = "admit" /\ running >= Slots /\ queued' = queued + 1
      /\ talk' = [t EXCEPT !.stuck = full]
      /\ UNCHANGED <<outside, open, memory, guard, running, hung, late, talks>>
  BY DEF QueueTimesOut
<1>2. /\ ConnectTyped /\ Slotted /\ talk \in Talk /\ talk.on \in Files
      /\ running \in 0..Slots /\ hung \in 0..Slots /\ queued \in Nat /\ Slots \in Nat
  BY <1>1, AtOperation
<1>3. running = hung
  BY <1>1, <1>2 DEF Slotted
<1>4. full
  BY <1>1, <1>2, <1>3
<1>5. StdioReply(OpTimeout) \in TalkReply /\ StdioReply(OpTimeout).how = "raw"
  BY OperationReplies DEF TalkReply, Causes
<1>6. t \in Talk /\ t.phase = "told" /\ t.on = talk.on /\ t.readable = talk.readable
      /\ t.reply.how = "raw"
  BY <1>2, <1>5, ToldFields
<1> HIDE DEF t, full
<1>7. /\ talk' \in Talk /\ talk'.phase = "told" /\ talk'.on = talk.on /\ talk'.stuck
      /\ talk'.readable = talk.readable /\ talk'.reply.how = "raw"
  BY <1>1, <1>4, <1>6 DEF Talk
<1>8. guard' \in Guards /\ Warned'
  BY <1>1, <1>2, <1>7, GuardStays DEF ConnectTyped
<1>9. TalkTold'
  BY <1>2, <1>7, TalkEnds
<1>10. /\ running' \in 0..Slots /\ hung' \in 0..Slots /\ queued' \in Nat
       /\ running' = hung' + 0 /\ running' = Slots
  BY <1>1, <1>2, <1>3
<1> QED
  BY <1>1, <1>7, <1>8, <1>9, <1>10, LimiterKeeps

LEMMA AbandonedSettlesKeeps == ASSUME ConnectInv, AbandonedSettles PROVE ConnectInv'
<1>1. /\ hung > 0 /\ ReleaseSlot /\ hung' = hung - (IF queued > 0 THEN 0 ELSE 1)
      /\ UNCHANGED <<outside, open, memory, guard, late, talk, talks>>
  BY DEF AbandonedSettles
<1>2. /\ ConnectTyped /\ Slotted /\ talk \in Talk /\ TalkTold
      /\ running \in 0..Slots /\ hung \in 0..Slots /\ queued \in Nat /\ Slots \in Nat
  BY ConnectNumbers DEF ConnectInv, ConnectTyped
<1>3. UNCHANGED <<reasons, lately, silent>>
  BY <1>1 DEF memory
<1>4. talk' \in Talk /\ guard' \in Guards /\ Warned' /\ TalkTold'
  BY <1>1, <1>2, <1>3, GuardStays
  DEF ConnectTyped, TalkTold, CauseIsTrue, TimeoutIsItsOwn, Resting
<1>5. CASE queued > 0
  <2>1. running' = running /\ hung' = hung /\ queued' = queued - 1
    BY <1>1, <1>2, <1>5 DEF ReleaseSlot
  <2>2. /\ running' \in 0..Slots /\ hung' \in 0..Slots /\ queued' \in Nat
        /\ running' = hung' + (IF talk'.phase = "operate" THEN 1 ELSE 0)
        /\ talk'.phase = "operate" => queued' = 0
        /\ queued' > 0 => running' = Slots
    BY <1>1, <1>2, <1>5, <2>1 DEF Slotted
  <2> QED
    BY <1>1, <1>4, <2>2, LimiterKeeps
<1>6. CASE ~(queued > 0)
  <2>1. running' = running - 1 /\ hung' = hung - 1 /\ queued' = queued /\ queued = 0
    BY <1>1, <1>2, <1>6 DEF ReleaseSlot
  <2>2. running = hung + (IF talk.phase = "operate" THEN 1 ELSE 0)
    BY <1>2 DEF Slotted
  <2>3. /\ running' \in 0..Slots /\ hung' \in 0..Slots /\ queued' \in Nat
        /\ running' = hung' + (IF talk'.phase = "operate" THEN 1 ELSE 0)
        /\ queued' = 0
    BY <1>1, <1>2, <2>1, <2>2
  <2> QED
    BY <1>1, <1>4, <2>3, LimiterKeeps
<1> QED
  BY <1>5, <1>6

LEMMA SlotReleased ==
    ASSUME ConnectInv, talk.phase = "operate", ReleaseSlot, hung' = hung
    PROVE  /\ running' \in 0..Slots /\ hung' \in 0..Slots /\ queued' \in Nat
           /\ running' = hung' + 0 /\ queued' = 0
<1>1. /\ Slotted /\ running \in 0..Slots /\ hung \in 0..Slots /\ queued \in Nat
      /\ Slots \in Nat
  BY AtOperation
<1>2. queued = 0 /\ running = hung + 1
  BY <1>1 DEF Slotted
<1>3. running' = running - 1 /\ queued' = queued
  BY <1>1, <1>2 DEF ReleaseSlot
<1> QED
  BY <1>1, <1>2, <1>3

LEMMA OperationEndsKeeps == ASSUME ConnectInv, OperationEnds PROVE ConnectInv'
<1>1. /\ talk.phase = "operate" /\ ReleaseSlot /\ talk' = [talk EXCEPT !.phase = "after"]
      /\ UNCHANGED <<outside, open, memory, guard, hung, late, talks>>
  BY DEF OperationEnds
<1>2. /\ ConnectTyped /\ talk \in Talk /\ talk.on \in Files /\ talk.reply = NoReply
      /\ late = None
  BY <1>1, AtOperation
<1>3. /\ talk' \in Talk /\ talk'.phase = "after" /\ talk'.on = talk.on
      /\ talk'.readable = talk.readable /\ talk'.reply = talk.reply
  BY <1>1, <1>2 DEF Talk, Phases
<1>4. guard' \in Guards /\ Warned'
  BY <1>1, <1>2, <1>3, GuardStays DEF ConnectTyped
<1>5. TalkTold'
  BY <1>1, <1>2, <1>3, TalkGoesOn
<1>6. /\ running' \in 0..Slots /\ hung' \in 0..Slots /\ queued' \in Nat
      /\ running' = hung' + 0 /\ queued' = 0
  BY <1>1, SlotReleased
<1> QED
  BY <1>1, <1>3, <1>4, <1>5, <1>6, LimiterKeeps

LEMMA OperationTimesOutKeeps == ASSUME ConnectInv, OperationTimesOut PROVE ConnectInv'
<1> DEFINE t == Told(talk, OpTimeout)
<1>1. /\ talk.phase = "operate" /\ hung' = hung + 1 /\ talk' = [t EXCEPT !.stuck = TRUE]
      /\ UNCHANGED <<outside, open, memory, guard, running, queued, late, talks>>
  BY DEF OperationTimesOut
<1>2. /\ ConnectTyped /\ Slotted /\ talk \in Talk /\ talk.on \in Files
      /\ running \in 0..Slots /\ hung \in 0..Slots /\ queued \in Nat /\ Slots \in Nat
  BY <1>1, AtOperation
<1>3. StdioReply(OpTimeout) \in TalkReply /\ StdioReply(OpTimeout).how = "raw"
  BY OperationReplies DEF TalkReply, Causes
<1>4. t \in Talk /\ t.phase = "told" /\ t.on = talk.on /\ t.readable = talk.readable
      /\ t.reply.how = "raw"
  BY <1>2, <1>3, ToldFields
<1> HIDE DEF t
<1>5. /\ talk' \in Talk /\ talk'.phase = "told" /\ talk'.on = talk.on /\ talk'.stuck
      /\ talk'.readable = talk.readable /\ talk'.reply.how = "raw"
  BY <1>1, <1>4 DEF Talk
<1>6. guard' \in Guards /\ Warned'
  BY <1>1, <1>2, <1>5, GuardStays DEF ConnectTyped
<1>7. TalkTold'
  BY <1>2, <1>5, TalkEnds
<1>8. running = hung + 1 /\ queued = 0
  BY <1>1, <1>2 DEF Slotted
<1>9. /\ running' \in 0..Slots /\ hung' \in 0..Slots /\ queued' \in Nat
      /\ running' = hung' + 0 /\ queued' = 0
  BY <1>1, <1>2, <1>8
<1> QED
  BY <1>1, <1>5, <1>6, <1>7, <1>9, LimiterKeeps

LEMMA OperationFailsKeeps ==
    ASSUME ConnectInv, NEW why \in DOMAIN OpFault, OperationFails(why)
    PROVE  ConnectInv'
<1> DEFINE e == OpFault[why]
<1>1. /\ talk.phase = "operate"
      /\ UNCHANGED <<outside, open, memory, guard, hung, late, talks>>
      /\ \/ talk' = Told(talk, e) /\ ReleaseSlot
         \/ talk' = [talk EXCEPT !.tries = @ + 1] /\ UNCHANGED <<running, queued>>
  BY DEF OperationFails
<1>2. /\ ConnectTyped /\ Slotted /\ talk \in Talk /\ talk.on \in Files
      /\ running \in 0..Slots /\ hung \in 0..Slots /\ queued \in Nat /\ Slots \in Nat
      /\ talk.reply = NoReply /\ late = None
  BY <1>1, AtOperation
<1>3. CASE talk' = Told(talk, e) /\ ReleaseSlot
  <2>1. StdioReply(e) = [how |-> "raw", cause |-> None]
    BY OperationReplies
  <2>2. StdioReply(e) \in TalkReply /\ StdioReply(e).how = "raw" /\ StdioReply(e).cause = None
    BY <2>1 DEF TalkReply
  <2> HIDE DEF e
  <2>3. /\ talk' \in Talk /\ talk'.phase = "told" /\ talk'.on = talk.on
        /\ talk'.readable = talk.readable
        /\ talk'.reply.how = "raw" /\ talk'.reply.cause = None
    BY <1>2, <1>3, <2>2, ToldFields
  <2>4. guard' \in Guards /\ Warned'
    BY <1>1, <1>2, <2>3, GuardStays DEF ConnectTyped
  <2>5. TalkTold'
    BY <1>2, <2>3, TalkEnds DEF None
  <2>6. /\ running' \in 0..Slots /\ hung' \in 0..Slots /\ queued' \in Nat
        /\ running' = hung' + 0 /\ queued' = 0
    BY <1>1, <1>3, SlotReleased
  <2> QED
    BY <1>1, <2>3, <2>4, <2>5, <2>6, LimiterKeeps
<1>4. CASE talk' = [talk EXCEPT !.tries = @ + 1] /\ UNCHANGED <<running, queued>>
  <2>1. /\ talk' \in Talk /\ talk'.phase = "operate" /\ talk'.on = talk.on
        /\ talk'.readable = talk.readable /\ talk'.reply = talk.reply
    BY <1>1, <1>2, <1>4 DEF Talk
  <2>2. guard' \in Guards /\ Warned'
    BY <1>1, <1>2, <2>1, GuardStays DEF ConnectTyped
  <2>3. TalkTold'
    BY <1>1, <1>2, <2>1, TalkGoesOn
  <2>4. /\ running' \in 0..Slots /\ hung' \in 0..Slots /\ queued' \in Nat
        /\ running' = hung' + 1 /\ queued' = 0
    BY <1>1, <1>2, <1>4 DEF Slotted
  <2> QED
    BY <1>1, <2>1, <2>2, <2>3, <2>4, LimiterKeeps
<1> QED
  BY <1>1, <1>3, <1>4

LEMMA ReplyOkKeeps == ASSUME ConnectInv, ReplyOk PROVE ConnectInv'
<1> DEFINE ok == [how |-> "ok", cause |-> None]
<1>1. /\ talk.phase = "after" /\ CheckServerVersionOnce
      /\ UNCHANGED <<outside, open, memory, limiter, late, talks>>
      /\ talk' = [talk EXCEPT !.phase = "told", !.reply = ok]
  BY DEF ReplyOk
<1>2. /\ Slotted /\ talk \in Talk /\ talk.on \in Files
      /\ running \in 0..Slots /\ hung \in 0..Slots /\ queued \in Nat /\ Slots \in Nat
  BY <1>1, AtOperation
<1>3. ok \in TalkReply /\ ok.how = "ok"
  BY DEF TalkReply
<1> HIDE DEF ok
<1>4. /\ talk' \in Talk /\ talk'.phase = "told" /\ talk'.on = talk.on
      /\ talk'.readable = talk.readable /\ talk'.reply.how = "ok"
  BY <1>1, <1>2, <1>3 DEF Talk, Phases
<1>5. guard' \in Guards /\ Warned'
  BY <1>1, <1>4, GuardChecks
<1>6. TalkTold'
  BY <1>2, <1>4, TalkEnds
<1>7. UNCHANGED <<running, queued, hung>>
  BY <1>1 DEF limiter
<1>8. /\ running' = hung' + 0 /\ (queued' > 0 => running' = Slots)
      /\ running' \in 0..Slots /\ hung' \in 0..Slots /\ queued' \in Nat
  BY <1>1, <1>2, <1>7 DEF Slotted
<1> QED
  BY <1>1, <1>4, <1>5, <1>6, <1>8, LimiterKeeps

(* The world around a call changes nothing it was told.                      *)
LEMMA TurnKeeps == ASSUME ConnectInv, Turn PROVE ConnectInv'
<1>1. UNCHANGED <<open, memory, guard, limiter, late, talk, talks>>
  BY DEF Turn
<1>2. ConnectTyped /\ Slotted /\ TalkTold
  BY DEF ConnectInv
<1>3. weather' \in Weathers /\ ahead' \in BOOLEAN /\ state' \in [Files -> States]
  BY <1>2 DEF Turn, ConnectTyped
<1>4. Memory' /\ \A b \in Files : Dated(b)'
  BY <1>1, MemoryStays
<1>5. ConnectTyped' /\ Slotted'
  BY <1>1, <1>2, <1>3, <1>4 DEF ConnectTyped, Slotted, limiter
<1>6. Warned'
  BY <1>1, GuardStays
<1>7. TalkTold'
  BY <1>1, <1>2 DEF TalkTold, CauseIsTrue, TimeoutIsItsOwn, Resting, memory
<1> QED
  BY <1>4, <1>5, <1>6, <1>7 DEF ConnectInv

LEMMA ConnectSame == ASSUME ConnectInv, UNCHANGED connectVars PROVE ConnectInv'
<1>1. UNCHANGED <<outside, open, memory, guard, limiter, late, talk, talks>>
  BY DEF connectVars
<1>2. ConnectTyped /\ Slotted /\ TalkTold
  BY DEF ConnectInv
<1>3. Memory' /\ \A b \in Files : Dated(b)'
  BY <1>1, MemoryStays
<1>4. ConnectTyped' /\ Slotted'
  BY <1>1, <1>2, <1>3 DEF ConnectTyped, Slotted, limiter, outside
<1>5. Warned'
  BY <1>1, GuardStays
<1>6. TalkTold'
  BY <1>1, <1>2 DEF TalkTold, CauseIsTrue, TimeoutIsItsOwn, Resting, memory
<1> QED
  BY <1>3, <1>4, <1>5, <1>6 DEF ConnectInv

LEMMA ConnectNextInv == ASSUME ConnectInv, [ConnectNext]_connectVars PROVE ConnectInv'
<1>1. ASSUME NEW b \in Files, NEW kind \in {"read", "write"}, StartCall(b, kind)
      PROVE  ConnectInv'
  BY <1>1, StartCallKeeps
<1>2. CASE LoadIsAwaited \/ AwaitTimesOut \/ LogIn \/ ProbeBeforeLoad
  BY <1>2, LoadIsAwaitedKeeps, AwaitTimesOutKeeps, LogInKeeps, ProbeBeforeLoadKeeps
<1>3. CASE LoadOpens \/ LoadOpensNothing \/ LoadRejects \/ LoadTimesOut \/ LateLoadSettles
  BY <1>3, LoadOpensKeeps, LoadOpensNothingKeeps, LoadRejectsKeeps, LoadTimesOutKeeps,
     LateLoadSettlesKeeps
<1>4. CASE ReuseReason \/ DiagnosisFails \/ DiagnosisStalls \/ DiagnosisAnswers
  BY <1>4, ReuseReasonKeeps, DiagnosisFailsKeeps, DiagnosisStallsKeeps, DiagnosisAnswersKeeps
<1>5. CASE Admit \/ QueueTimesOut \/ AbandonedSettles
  BY <1>5, AdmitKeeps, QueueTimesOutKeeps, AbandonedSettlesKeeps
<1>6. CASE OperationEnds \/ OperationTimesOut \/ ReplyOk
  BY <1>6, OperationEndsKeeps, OperationTimesOutKeeps, ReplyOkKeeps
<1>7. ASSUME NEW why \in DOMAIN OpFault, OperationFails(why)
      PROVE  ConnectInv'
  BY <1>7, OperationFailsKeeps
<1>8. CASE Turn
  BY <1>8, TurnKeeps
<1>9. CASE UNCHANGED connectVars
  BY <1>9, ConnectSame
<1> QED
  BY <1>1, <1>2, <1>3, <1>4, <1>5, <1>6, <1>7, <1>8, <1>9 DEF ConnectNext

(* How recent the cached reasons are, who holds the slots, and that every    *)
(* reply is true of its call.                                               *)
THEOREM ConnectInvariant == ConnectSpec => []ConnectInv
<1>1. ConnectInv /\ [ConnectNext]_connectVars => ConnectInv'
  BY ConnectNextInv
<1> QED
  BY ConnectInitInv, <1>1, PTL DEF ConnectSpec

(* The connection, the guard, the limiter and the cache keep their types.    *)
THEOREM ConnectTypes == ConnectSpec => []ConnectTypeOK
<1>1. ConnectInv => ConnectTypeOK
  <2> SUFFICES ASSUME ConnectInv
               PROVE  ConnectTypeOK
    OBVIOUS
  <2>1. ConnectTyped /\ Memory
    BY DEF ConnectInv, ConnectTyped
  <2>2. guard.attempts \in 0..ProbeAttempts /\ \A b \in Files : reasons[b].uses \in 0..AfterUses
    BY <2>1 DEF ConnectTyped, Memory, Guards, Reason
  <2> QED
    BY <2>1, <2>2 DEF ConnectTyped, ConnectTypeOK
<1> QED
  BY <1>1, ConnectInvariant, PTL

(* However the server, the local copies and the calls behave, a named cause  *)
(* is one the call met or one the cache may still repeat; a time-out without *)
(* a name is the operation's own, or that of the wait for an abandoned load; *)
(* and a call to a server that is ahead was preceded by the warning          *)
(* (classifyInitFailure, diagnose, withConcurrency, withApiLock,             *)
(* checkServerVersionOnce).                                                 *)
THEOREM ConnectClientIsTold == ConnectSpec => []ClientIsTold
<1>1. ConnectInv => ClientIsTold
  BY DEF ConnectInv, TalkTold, Warned, ClientIsTold, WarnedFirst
<1> QED
  BY <1>1, ConnectInvariant, PTL

-----------------------------------------------------------------------------
(***************************************************************************)
(* RuleBook.  An upsert compares conditions as sets of one length, which    *)
(* is what sameness in any order comes to for rules of one or two           *)
(* conditions; and one creation takes one free id.                          *)
(***************************************************************************)
LEMMA OneCondition ==
    ASSUME NEW c
    PROVE  /\ Len(<<c>>) = 1 /\ DOMAIN <<c>> = {1} /\ <<c>>[1] = c /\ ToSet(<<c>>) = {c}
  BY DEF ToSet

LEMMA TwoConditions ==
    ASSUME NEW c, NEW d
    PROVE  /\ Len(<<c, d>>) = 2 /\ DOMAIN <<c, d>> = {1, 2} /\ <<c, d>>[1] = c
           /\ <<c, d>>[2] = d /\ ToSet(<<c, d>>) = {c, d}
<1>1. Len(<<c, d>>) = 2 /\ DOMAIN <<c, d>> = {1, 2} /\ <<c, d>>[1] = c /\ <<c, d>>[2] = d
  OBVIOUS
<1> QED
  BY <1>1 DEF ToSet

\* Some permutation of the positions takes t to s.
Permuted(s, t) ==
    \E p \in Bijection(DOMAIN t, DOMAIN s) : \A i \in DOMAIN t : s[p[i]] = t[i]

LEMMA PermutedIsSameSet ==
    ASSUME NEW s \in CondSeqs, NEW t \in CondSeqs
    PROVE  Permuted(s, t) <=> Len(s) = Len(t) /\ ToSet(s) = ToSet(t)
<1>1. \/ \E c \in Conditions : s = <<c>>
      \/ \E c, d \in Conditions : s = <<c, d>>
  BY DEF CondSeqs
<1>2. \/ \E c \in Conditions : t = <<c>>
      \/ \E c, d \in Conditions : t = <<c, d>>
  BY DEF CondSeqs
<1>3. ASSUME NEW c, NEW e, s = <<c>>, t = <<e>>
      PROVE  Permuted(s, t) <=> Len(s) = Len(t) /\ ToSet(s) = ToSet(t)
  <2>1. /\ DOMAIN s = {1} /\ DOMAIN t = {1} /\ s[1] = c /\ t[1] = e /\ Len(s) = Len(t)
        /\ ToSet(s) = {c} /\ ToSet(t) = {e}
    BY <1>3, OneCondition
  <2> DEFINE p == [i \in {1} |-> 1]
  <2>2. p \in Bijection({1}, {1}) /\ p[1] = 1
    BY DEF Bijection, Injection, Surjection, IsInjective
  <2> HIDE DEF p
  <2>3. c = e => Permuted(s, t)
    BY <2>1, <2>2 DEF Permuted
  <2>4. Permuted(s, t) => c = e
    <3>1. ASSUME NEW q \in Bijection({1}, {1})
          PROVE  q[1] = 1
      BY <3>1 DEF Bijection, Injection
    <3> QED
      BY <2>1, <3>1 DEF Permuted
  <2> QED
    BY <2>1, <2>3, <2>4
<1>4. ASSUME NEW c, NEW e, NEW f, s = <<c>>, t = <<e, f>>
      PROVE  Permuted(s, t) <=> Len(s) = Len(t) /\ ToSet(s) = ToSet(t)
  <2>1. DOMAIN s = {1} /\ DOMAIN t = {1, 2} /\ Len(s) # Len(t)
    BY <1>4, OneCondition, TwoConditions
  <2>2. ASSUME NEW q \in Bijection({1, 2}, {1})
        PROVE  FALSE
    <3>1. q \in [{1, 2} -> {1}] /\ (q[1] = q[2] => 1 = 2)
      BY <2>2 DEF Bijection, Injection, IsInjective
    <3> QED
      BY <3>1
  <2> QED
    BY <2>1, <2>2 DEF Permuted
<1>5. ASSUME NEW c, NEW d, NEW e, s = <<c, d>>, t = <<e>>
      PROVE  Permuted(s, t) <=> Len(s) = Len(t) /\ ToSet(s) = ToSet(t)
  <2>1. DOMAIN s = {1, 2} /\ DOMAIN t = {1} /\ Len(s) # Len(t)
    BY <1>5, OneCondition, TwoConditions
  <2>2. ASSUME NEW q \in Bijection({1}, {1, 2})
        PROVE  FALSE
    <3>1. \A x \in {1, 2} : \E y \in {1} : q[y] = x
      BY <2>2 DEF Bijection, Surjection
    <3> QED
      BY <3>1
  <2> QED
    BY <2>1, <2>2 DEF Permuted
<1>6. ASSUME NEW c, NEW d, NEW e, NEW f, s = <<c, d>>, t = <<e, f>>
      PROVE  Permuted(s, t) <=> Len(s) = Len(t) /\ ToSet(s) = ToSet(t)
  <2>1. /\ DOMAIN s = {1, 2} /\ DOMAIN t = {1, 2} /\ s[1] = c /\ s[2] = d
        /\ t[1] = e /\ t[2] = f /\ Len(s) = Len(t) /\ ToSet(s) = {c, d} /\ ToSet(t) = {e, f}
    BY <1>6, TwoConditions
  <2> DEFINE same == [i \in {1, 2} |-> i]
             swap == [i \in {1, 2} |-> IF i = 1 THEN 2 ELSE 1]
  <2>2. same \in Bijection({1, 2}, {1, 2}) /\ same[1] = 1 /\ same[2] = 2
    BY DEF Bijection, Injection, Surjection, IsInjective
  <2>3. swap \in Bijection({1, 2}, {1, 2}) /\ swap[1] = 2 /\ swap[2] = 1
    BY DEF Bijection, Injection, Surjection, IsInjective
  <2> HIDE DEF same, swap
  <2>4. c = e /\ d = f => Permuted(s, t)
    BY <2>1, <2>2 DEF Permuted
  <2>5. c = f /\ d = e => Permuted(s, t)
    BY <2>1, <2>3 DEF Permuted
  <2>6. Permuted(s, t) => {c, d} = {e, f}
    <3>1. ASSUME NEW q \in Bijection({1, 2}, {1, 2})
          PROVE  (q[1] = 1 /\ q[2] = 2) \/ (q[1] = 2 /\ q[2] = 1)
      <4>1. q \in [{1, 2} -> {1, 2}] /\ (q[1] = q[2] => 1 = 2)
        BY <3>1 DEF Bijection, Injection, IsInjective
      <4> QED
        BY <4>1
    <3>2. ASSUME Permuted(s, t)
          PROVE  {c, d} = {e, f}
      <4>1. PICK q \in Bijection({1, 2}, {1, 2}) : s[q[1]] = t[1] /\ s[q[2]] = t[2]
        BY <2>1, <3>2 DEF Permuted
      <4> QED
        BY <2>1, <3>1, <4>1
    <3> QED
      BY <3>2
  <2>7. {c, d} = {e, f} => (c = e /\ d = f) \/ (c = f /\ d = e)
    OBVIOUS
  <2> QED
    BY <2>1, <2>4, <2>5, <2>6, <2>7
<1> QED
  BY <1>1, <1>2, <1>3, <1>4, <1>5, <1>6

(* What the code compares is sameness in any order (rule-matching.ts).      *)
LEMMA MatchIsSameRule ==
    ASSUME NEW r \in Rule, NEW conds \in CondSeqs, NEW op
    PROVE  ConditionsMatch(r, conds, op) <=> SameRule(r, conds, op)
<1>1. r.conds \in CondSeqs
  BY DEF Rule
<1>2. Permuted(r.conds, conds) <=> Len(r.conds) = Len(conds) /\ ToSet(r.conds) = ToSet(conds)
  BY <1>1, PermutedIsSameSet
<1> QED
  BY <1>2 DEF ConditionsMatch, SameRule, Permuted

-----------------------------------------------------------------------------
Book == [RuleIds -> Rule \cup {Unset}]

LEMMA RuleNumbers ==
    /\ MaxRules \in Nat \ {0} /\ MaxRuleOps \in Nat /\ IsFiniteSet(RuleIds)
    /\ RuleIds \subseteq Nat
    /\ Unset \notin RuleIds /\ Unset \notin Rule /\ Unset \notin Targets
    /\ Unset \notin TagWords /\ Unset \notin ScheduleIds
    /\ FirstRule \in Rule /\ FirstRule.owner \in ScheduleIds
<1>1. /\ MaxRules \in Nat \ {0} /\ MaxRuleOps \in Nat
      /\ Unset \notin RuleIds /\ Unset \notin Rule /\ Unset \notin Targets
      /\ Unset \notin TagWords /\ Unset \notin ScheduleIds
      /\ FirstRule \in Rule /\ FirstRule.owner \in ScheduleIds
  BY RuleBookAssumption
<1>2. IsFiniteSet(1..MaxRules)
  BY <1>1, FS_Interval
<1> QED
  BY <1>1, <1>2 DEF RuleIds

LEMMA CreatedIsBook ==
    ASSUME NEW rs \in Book, NEW r \in Rule, NEW n
    PROVE  CreatedTimes(rs, r, n) \in Book
  BY DEF CreatedTimes, Book

(* One creation puts the rule under the least free id.                      *)
LEMMA CreatedOnce ==
    ASSUME NEW rs \in Book, NEW r, NEW x \in RuleIds, rs[x] = Unset
    PROVE  \E k \in RuleIds : /\ rs[k] = Unset
                              /\ CreatedTimes(rs, r, 1) = [rs EXCEPT ![k] = r]
<1> DEFINE free == {i \in RuleIds : rs[i] = Unset}
           upto(i) == {j \in free : j <= i}
           k == Min(free)
<1>1. free \subseteq Nat /\ free # {} /\ free \subseteq RuleIds
  BY RuleNumbers
<1>2. k \in free /\ \A j \in free : k <= j
  BY <1>1, LeastIsOne
<1> HIDE DEF k
<1>3. Cardinality(upto(k)) <= 1
  <2>1. upto(k) = {k}
    BY <1>1, <1>2
  <2>2. Cardinality({k}) = 1
    BY FS_Singleton
  <2> QED
    BY <2>1, <2>2
<1>4. ASSUME NEW i \in free, i # k
      PROVE  ~(Cardinality(upto(i)) <= 1)
  <2>1. {k, i} \subseteq upto(i)
    BY <1>1, <1>2, <1>4
  <2>2. IsFiniteSet(upto(i))
    BY <1>1, RuleNumbers, FS_Subset
  <2>3. Cardinality({k, i}) = 2
    <3>1. IsFiniteSet({k}) /\ Cardinality({k}) = 1
      BY FS_Singleton
    <3>2. {k, i} = {k} \cup {i}
      OBVIOUS
    <3> QED
      BY <1>4, <3>1, <3>2, FS_AddElement
  <2>4. Cardinality({k, i}) <= Cardinality(upto(i)) /\ Cardinality(upto(i)) \in Nat
    BY <2>1, <2>2, FS_Subset, FS_CardinalityType
  <2> QED
    BY <2>3, <2>4
<1>5. CreatedTimes(rs, r, 1)
          = [i \in RuleIds |-> IF i \in free /\ Cardinality(upto(i)) <= 1 THEN r ELSE rs[i]]
  BY DEF CreatedTimes
<1>6. rs[k] = Unset /\ k \in RuleIds
  BY <1>2
<1> HIDE DEF free, upto
<1>7. CreatedTimes(rs, r, 1) = [rs EXCEPT ![k] = r]
  BY <1>2, <1>3, <1>4, <1>5 DEF Book
<1> QED
  BY <1>6, <1>7

LEMMA MergedIsRule ==
    ASSUME NEW r \in Rule, NEW f, f.stage \in Stages \cup {Unset}, f.op \in {"and", "or", Unset},
           f.conds \in CondSeqs \cup {Unset}, f.sets \in Targets \cup {Unset}
    PROVE  /\ Merged(r, f) \in Rule
           /\ Merged(r, f).stage = (IF f.stage = Unset THEN r.stage ELSE f.stage)
           /\ Merged(r, f).op = (IF f.op = Unset THEN r.op ELSE f.op)
           /\ Merged(r, f).conds = (IF f.conds = Unset THEN r.conds ELSE f.conds)
           /\ Merged(r, f).sets = (IF f.sets = Unset THEN r.sets ELSE f.sets)
<1> DEFINE stage == Or(f.stage, r.stage)
           op == Or(f.op, r.op)
           conds == Or(f.conds, r.conds)
           sets == Or(f.sets, r.sets)
<1>1. /\ stage \in Stages /\ op \in {"and", "or"} /\ conds \in CondSeqs
      /\ sets \in Targets \cup {Unset}
  BY DEF Or, Rule
<1>2. Merged(r, f) = [r EXCEPT !.stage = stage, !.op = op, !.conds = conds, !.sets = sets]
  BY DEF Merged, Rule
<1> HIDE DEF stage, op, conds, sets
<1>3. /\ Merged(r, f) \in Rule
      /\ Merged(r, f).stage = stage /\ Merged(r, f).op = op
      /\ Merged(r, f).conds = conds /\ Merged(r, f).sets = sets
  BY <1>1, <1>2 DEF Rule
<1> QED
  BY <1>3 DEF stage, op, conds, sets, Or

LEMMA RuleInitTyped == RuleInit => RuleTypeOK
  BY RuleNumbers DEF RuleInit, RuleTypeOK, Replies

(* What every call leaves to be shown of the types.                         *)
LEMMA RuleCallTyped ==
    ASSUME RuleTypeOK, NEW tool, NEW in, RuleRequests(tool, in), rules' \in Book,
           schedules' \subseteq ScheduleIds, tags' \in [TagIds -> TagWords \cup {Unset}],
           reply' \in {"done", "created", "updated", "refused", "failed"}
    PROVE  /\ RuleTypeOK'
           /\ request'.tool = tool /\ request'.in = in
<1>1. ruleOps' = ruleOps + 1 /\ ruleOps < MaxRuleOps /\ request' = [tool |-> tool, in |-> in]
  BY DEF RuleRequests, RuleIdle
<1>2. ruleOps' \in 0..MaxRuleOps
  BY <1>1, RuleNumbers DEF RuleTypeOK
<1> QED
  BY <1>1, <1>2 DEF RuleTypeOK, Book, Replies

LEMMA BookTyped == ASSUME RuleTypeOK PROVE rules \in Book
  BY DEF RuleTypeOK, Book

LEMMA NewRulesAreRules == NewRules \subseteq Rule
  BY DEF NewRules

LEMMA CreateRuleTyped ==
    ASSUME RuleTypeOK, CreateRule
    PROVE  RuleTypeOK' /\ request'.tool = "rules_create" /\ reply' # "done"
<1>1. PICK r \in NewRules, n \in 0..(Retries + 1) :
          /\ RuleRequests("rules_create", r) /\ rules' = CreatedTimes(rules, r, n)
          /\ reply' \in {"created", "failed"} /\ UNCHANGED <<schedules, tags>>
  BY DEF CreateRule, Replied
<1>2. rules' \in Book
  BY <1>1, BookTyped, NewRulesAreRules, CreatedIsBook
<1>3. schedules' \subseteq ScheduleIds /\ tags' \in [TagIds -> TagWords \cup {Unset}]
  BY <1>1 DEF RuleTypeOK
<1> QED
  BY <1>1, <1>2, <1>3, RuleCallTyped

(* An update changes the supplied fields, a null stage among them, and no    *)
(* other.                                                                   *)
LEMMA UpdateRuleTyped ==
    ASSUME RuleTypeOK, UpdateRule
    PROVE  /\ RuleTypeOK' /\ request'.tool = "rules_update"
           /\ reply' = "done" =>
                  LET in == request'.in
                      r == rules'[in.id]
                  IN  /\ r.stage = (IF in.fields.stage = Unset THEN rules[in.id].stage
                                    ELSE in.fields.stage)
                      /\ in.fields.sets = Unset => r.sets = rules[in.id].sets
                      /\ in.fields.conds # Unset => r.conds = in.fields.conds
<1>1. PICK i \in RuleIds, f \in RuleFields :
          /\ RuleRequests("rules_update", [id |-> i, fields |-> f])
          /\ IF i \notin LiveRules THEN Replied("refused") /\ UNCHANGED rules
             ELSE \/ Replied("done") /\ rules' = RulePut(i, Merged(rules[i], f))
                  \/ Replied("failed") /\ rules' \in {rules, RulePut(i, Merged(rules[i], f))}
          /\ UNCHANGED <<schedules, tags>>
  BY DEF UpdateRule
<1> DEFINE call == [id |-> i, fields |-> f]
<1>2. call.id = i /\ call.fields = f
  OBVIOUS
<1> HIDE DEF call
<1>3. /\ f.stage \in Stages \cup {Unset} /\ f.op \in {"and", "or", Unset}
      /\ f.conds \in CondSeqs \cup {Unset} /\ f.sets \in Targets \cup {Unset}
  BY <1>1 DEF RuleFields, CondSeqs
<1>4. rules \in Book
  BY BookTyped
<1>5. CASE i \notin LiveRules
  <2>1. reply' = "refused" /\ UNCHANGED <<rules, schedules, tags>>
    BY <1>1, <1>5 DEF Replied
  <2>2. RuleTypeOK' /\ request'.tool = "rules_update"
    BY <1>1, <1>4, <2>1, RuleCallTyped DEF RuleTypeOK, call
  <2> QED
    BY <2>1, <2>2
<1>6. CASE i \in LiveRules
  <2> DEFINE m == Merged(rules[i], f)
  <2>1. rules[i] \in Rule
    BY <1>4, <1>6 DEF LiveRules, Book
  <2>2. /\ m \in Rule
        /\ m.stage = (IF f.stage = Unset THEN rules[i].stage ELSE f.stage)
        /\ m.conds = (IF f.conds = Unset THEN rules[i].conds ELSE f.conds)
        /\ m.sets = (IF f.sets = Unset THEN rules[i].sets ELSE f.sets)
    BY <1>3, <2>1, MergedIsRule
  <2> HIDE DEF m
  <2>3. /\ \/ reply' = "done" /\ rules' = [rules EXCEPT ![i] = m]
           \/ reply' = "failed" /\ rules' \in {rules, [rules EXCEPT ![i] = m]}
        /\ UNCHANGED <<schedules, tags>> /\ RuleRequests("rules_update", call)
    BY <1>1, <1>6 DEF Replied, RulePut, m, call
  <2>4. rules' \in Book /\ (reply' = "done" => rules'[i] = m)
    BY <1>4, <2>2, <2>3 DEF Book
  <2>5. RuleTypeOK' /\ request'.tool = "rules_update" /\ request'.in = call
    BY <2>3, <2>4, RuleCallTyped DEF RuleTypeOK
  <2> QED
    BY <1>2, <2>2, <2>4, <2>5
<1> QED
  BY <1>5, <1>6

LEMMA DeleteRuleTyped ==
    ASSUME RuleTypeOK, DeleteRule
    PROVE  /\ RuleTypeOK' /\ request'.tool = "rules_delete"
           /\ reply' = "done" => rules'[request'.in.id] = Unset
<1>1. PICK i \in RuleIds :
          /\ RuleRequests("rules_delete", [id |-> i])
          /\ IF i \notin LiveRules THEN Replied("refused") /\ UNCHANGED rules
             ELSE \/ Replied(DeleteVerdict(i)) /\ rules' = RawDeleteRule(i)
                  \/ Replied("failed") /\ rules' \in {rules, RawDeleteRule(i)}
          /\ UNCHANGED <<schedules, tags>>
  BY DEF DeleteRule
<1> DEFINE call == [id |-> i]
<1>2. call.id = i /\ RuleRequests("rules_delete", call)
  BY <1>1
<1> HIDE DEF call
<1>3. rules \in Book
  BY BookTyped
<1>4. RawDeleteRule(i) \in Book /\ (Deletable(i) => RawDeleteRule(i)[i] = Unset)
  BY <1>3 DEF RawDeleteRule, RulePut, Book
<1>5. /\ rules' \in Book /\ reply' \in {"done", "refused", "failed"}
      /\ reply' = "done" => rules'[i] = Unset
  <2>1. CASE i \notin LiveRules
    BY <1>1, <1>3, <2>1 DEF Replied
  <2>2. CASE i \in LiveRules /\ reply' = DeleteVerdict(i) /\ rules' = RawDeleteRule(i)
    BY <1>4, <2>2 DEF DeleteVerdict
  <2>3. CASE i \in LiveRules /\ reply' = "failed" /\ rules' \in {rules, RawDeleteRule(i)}
    BY <1>3, <1>4, <2>3
  <2> QED
    BY <1>1, <2>1, <2>2, <2>3 DEF Replied
<1>6. schedules' \subseteq ScheduleIds /\ tags' \in [TagIds -> TagWords \cup {Unset}]
  BY <1>1 DEF RuleTypeOK
<1>7. RuleTypeOK' /\ request'.tool = "rules_delete" /\ request'.in = call
  BY <1>2, <1>5, <1>6, RuleCallTyped
<1> QED
  BY <1>2, <1>5, <1>7

LEMMA SetPayeeCategoryTyped ==
    ASSUME RuleTypeOK, SetPayeeCategory
    PROVE  RuleTypeOK' /\ request'.tool = "payees_update"
<1>1. PICK p \in RulePayees, v \in Targets \cup {Unset} :
        LET found == {i \in PayeeRules(p) : rules[i].sets # Unset}
            new == [conds |-> <<p>>, op |-> "and", stage |-> "normal", sets |-> v,
                    owner |-> Unset]
            after == IF found # {}
                     THEN IF v = Unset THEN RawDeleteRule(Min(found))
                          ELSE RulePut(Min(found), [rules[Min(found)] EXCEPT !.sets = v])
                     ELSE IF v = Unset THEN rules ELSE CreatedTimes(rules, new, 1)
        IN /\ RuleRequests("payees_update", [payee |-> p, category |-> v])
           /\ \/ rules' = after /\ Replied("done")
              \/ rules' \in {rules, after} /\ Replied("failed")
           /\ UNCHANGED <<schedules, tags>>
  BY DEF SetPayeeCategory
<1> DEFINE found == {i \in PayeeRules(p) : rules[i].sets # Unset}
           new == [conds |-> <<p>>, op |-> "and", stage |-> "normal", sets |-> v,
                   owner |-> Unset]
           call == [payee |-> p, category |-> v]
<1>2. rules \in Book
  BY BookTyped
<1>3. found \subseteq LiveRules /\ LiveRules \subseteq Nat /\ LiveRules \subseteq RuleIds
  BY RuleNumbers DEF PayeeRules, LiveRules
<1>4. found # {} => Min(found) \in LiveRules
  BY <1>3, LeastIsOne
<1>5. new \in Rule
  BY DEF Rule, CondSeqs, Conditions, Stages
<1>6. CreatedTimes(rules, new, 1) \in Book
  BY <1>2, <1>5, CreatedIsBook
<1>7. ASSUME NEW i \in LiveRules
      PROVE  /\ RawDeleteRule(i) \in Book
             /\ RulePut(i, [rules[i] EXCEPT !.sets = v]) \in Book
  <2>1. rules[i] \in Rule
    BY <1>2, <1>7 DEF LiveRules, Book
  <2>2. [rules[i] EXCEPT !.sets = v] \in Rule
    BY <2>1 DEF Rule
  <2> QED
    BY <1>2, <1>3, <2>2 DEF RawDeleteRule, RulePut, Book
<1> HIDE DEF found, new
<1>8. /\ rules' \in Book /\ reply' \in {"done", "failed"}
  <2>1. PICK after \in Book : \/ rules' = after /\ Replied("done")
                              \/ rules' \in {rules, after} /\ Replied("failed")
    BY <1>1, <1>2, <1>4, <1>6, <1>7 DEF found, new
  <2> QED
    BY <1>2, <2>1 DEF Replied
<1>9. RuleRequests("payees_update", call) /\ UNCHANGED <<schedules, tags>>
  BY <1>1
<1> HIDE DEF call
<1>10. schedules' \subseteq ScheduleIds /\ tags' \in [TagIds -> TagWords \cup {Unset}]
  BY <1>9 DEF RuleTypeOK
<1> QED
  BY <1>8, <1>9, <1>10, RuleCallTyped

LEMMA CreateScheduleTyped ==
    ASSUME RuleTypeOK, CreateSchedule
    PROVE  RuleTypeOK' /\ request'.tool = "schedules_create"
<1>1. PICK s \in ScheduleIds \ schedules, c \in Conditions :
        /\ RuleRequests("schedules_create", [id |-> s])
        /\ \/ /\ schedules' = schedules \cup {s}
              /\ rules' = CreatedTimes(rules, [conds |-> <<c>>, op |-> "and", stage |-> "normal",
                                               sets |-> Unset, owner |-> s], 1)
              /\ reply' \in {"created", "failed"}
           \/ Replied("failed") /\ UNCHANGED <<schedules, rules>>
        /\ UNCHANGED tags
  BY DEF CreateSchedule
<1> DEFINE new == [conds |-> <<c>>, op |-> "and", stage |-> "normal", sets |-> Unset, owner |-> s]
           call == [id |-> s]
<1>2. /\ rules \in Book /\ schedules \subseteq ScheduleIds
      /\ tags \in [TagIds -> TagWords \cup {Unset}]
  BY BookTyped DEF RuleTypeOK
<1>3. new \in Rule
  BY DEF Rule, CondSeqs, Stages
<1>4. CreatedTimes(rules, new, 1) \in Book
  BY <1>2, <1>3, CreatedIsBook
<1>5. RuleRequests("schedules_create", call) /\ UNCHANGED tags
  BY <1>1
<1> HIDE DEF call
<1>6. /\ rules' \in Book /\ schedules' \subseteq ScheduleIds /\ reply' \in {"created", "failed"}
  BY <1>1, <1>2, <1>4 DEF Replied
<1> QED
  BY <1>2, <1>5, <1>6, RuleCallTyped

LEMMA UpdateScheduleTyped ==
    ASSUME RuleTypeOK, UpdateSchedule
    PROVE  RuleTypeOK' /\ request'.tool = "schedules_update"
<1>1. PICK s \in ScheduleIds, c \in Conditions :
        /\ RuleRequests("schedules_update", [id |-> s])
        /\ \/ /\ rules' = [i \in RuleIds |-> IF rules[i] # Unset /\ rules[i].owner = s
                                                  /\ s \in schedules
                                             THEN [rules[i] EXCEPT !.conds = <<c>>] ELSE rules[i]]
              /\ reply' \in {"done", "failed"}
           \/ Replied("failed") /\ UNCHANGED rules
        /\ UNCHANGED <<schedules, tags>>
  BY DEF UpdateSchedule
<1> DEFINE call == [id |-> s]
           moved == [i \in RuleIds |-> IF rules[i] # Unset /\ rules[i].owner = s /\ s \in schedules
                                       THEN [rules[i] EXCEPT !.conds = <<c>>] ELSE rules[i]]
<1>2. /\ rules \in Book /\ schedules \subseteq ScheduleIds
      /\ tags \in [TagIds -> TagWords \cup {Unset}]
  BY BookTyped DEF RuleTypeOK
<1>3. moved \in Book
  <2>1. ASSUME NEW i \in RuleIds, rules[i] # Unset
        PROVE  [rules[i] EXCEPT !.conds = <<c>>] \in Rule
    <3>1. rules[i] \in Rule /\ <<c>> \in CondSeqs
      BY <1>2, <2>1 DEF Book, CondSeqs
    <3> QED
      BY <3>1 DEF Rule
  <2>2. \A i \in RuleIds : rules[i] \in Rule \cup {Unset}
    BY <1>2 DEF Book
  <2> QED
    BY <2>1, <2>2 DEF Book
<1>4. RuleRequests("schedules_update", call) /\ UNCHANGED <<schedules, tags>>
  BY <1>1
<1>5. rules' \in Book /\ reply' \in {"done", "failed"}
  BY <1>1, <1>2, <1>3 DEF Replied
<1> HIDE DEF call, moved
<1> QED
  BY <1>2, <1>4, <1>5, RuleCallTyped

LEMMA DeleteScheduleTyped ==
    ASSUME RuleTypeOK, DeleteSchedule
    PROVE  /\ RuleTypeOK' /\ request'.tool = "schedules_delete"
           /\ reply' = "done" =>
                  \A i \in RuleIds : rules'[i] # Unset => rules'[i].owner # request'.in.id
<1>1. PICK s \in ScheduleIds :
        LET after == [i \in RuleIds |-> IF rules[i] # Unset /\ rules[i].owner = s
                                        THEN Unset ELSE rules[i]]
        IN /\ RuleRequests("schedules_delete", [id |-> s])
           /\ IF s \notin schedules THEN Replied("refused") /\ UNCHANGED <<rules, schedules>>
              ELSE \/ /\ rules' = after /\ schedules' = schedules \ {s}
                      /\ reply' \in {"done", "failed"}
                   \/ Replied("failed") /\ UNCHANGED <<rules, schedules>>
           /\ UNCHANGED tags
  BY DEF DeleteSchedule
<1> DEFINE call == [id |-> s]
           after == [i \in RuleIds |-> IF rules[i] # Unset /\ rules[i].owner = s
                                       THEN Unset ELSE rules[i]]
<1>2. /\ rules \in Book /\ schedules \subseteq ScheduleIds
      /\ tags \in [TagIds -> TagWords \cup {Unset}]
  BY BookTyped DEF RuleTypeOK
<1>3. after \in Book /\ \A i \in RuleIds : after[i] # Unset => after[i].owner # s
  BY <1>2 DEF Book
<1>4. RuleRequests("schedules_delete", call) /\ UNCHANGED tags /\ call.id = s
  BY <1>1
<1> HIDE DEF call
<1>5. \/ reply' \in {"refused", "failed"} /\ UNCHANGED <<rules, schedules>>
      \/ rules' = after /\ schedules' = schedules \ {s} /\ reply' \in {"done", "failed"}
  BY <1>1 DEF Replied
<1> HIDE DEF after
<1>6. /\ rules' \in Book /\ schedules' \subseteq ScheduleIds
      /\ reply' \in {"done", "refused", "failed"}
      /\ reply' = "done" => rules' = after
  BY <1>2, <1>3, <1>5
<1>7. RuleTypeOK' /\ request'.tool = "schedules_delete" /\ request'.in = call
  BY <1>2, <1>4, <1>6, RuleCallTyped
<1> QED
  BY <1>3, <1>4, <1>6, <1>7

LEMMA TagPut ==
    ASSUME RuleTypeOK, NEW t \in TagIds, NEW w \in TagWords \cup {Unset}
    PROVE  /\ [tags EXCEPT ![t] = w] \in [TagIds -> TagWords \cup {Unset}]
           /\ [tags EXCEPT ![t] = w][t] = w
           /\ tags \in [TagIds -> TagWords \cup {Unset}]
  BY DEF RuleTypeOK

LEMMA CreateTagTyped ==
    ASSUME RuleTypeOK, CreateTag
    PROVE  RuleTypeOK' /\ request'.tool = "tags_create"
<1>1. PICK w \in TagWords, t \in TagIds :
         /\ RuleRequests("tags_create", [word |-> w])
         /\ \/ tags' = [tags EXCEPT ![t] = w] /\ Replied("created")
            \/ tags' \in {tags, [tags EXCEPT ![t] = w]} /\ Replied("failed")
         /\ UNCHANGED <<rules, schedules>>
  BY DEF CreateTag
<1> DEFINE call == [word |-> w]
<1>2. RuleRequests("tags_create", call) /\ UNCHANGED <<rules, schedules>>
  BY <1>1
<1> HIDE DEF call
<1>3. tags' \in [TagIds -> TagWords \cup {Unset}] /\ reply' \in {"created", "failed"}
  BY <1>1, TagPut DEF Replied
<1>4. rules' \in Book /\ schedules' \subseteq ScheduleIds
  BY <1>2, BookTyped DEF RuleTypeOK
<1> QED
  BY <1>2, <1>3, <1>4, RuleCallTyped

LEMMA UpdateTagTyped ==
    ASSUME RuleTypeOK, UpdateTag
    PROVE  /\ RuleTypeOK' /\ request'.tool = "tags_update"
           /\ reply' = "done" => tags[request'.in.id] # Unset /\ tags'[request'.in.id] # Unset
<1>1. PICK t \in TagIds, w \in TagWords \cup {Unset} :
        LET after == IF tags[t] = Unset \/ w = Unset THEN tags ELSE [tags EXCEPT ![t] = w]
        IN /\ RuleRequests("tags_update", [id |-> t])
           /\ IF ~TagKnown(t) THEN Replied("refused") /\ UNCHANGED tags
              ELSE \/ tags' = after /\ Replied("done")
                   \/ tags' \in {tags, after} /\ Replied("failed")
           /\ UNCHANGED <<rules, schedules>>
  BY DEF UpdateTag
<1> DEFINE call == [id |-> t]
           after == IF tags[t] = Unset \/ w = Unset THEN tags ELSE [tags EXCEPT ![t] = w]
<1>2. RuleRequests("tags_update", call) /\ UNCHANGED <<rules, schedules>> /\ call.id = t
  BY <1>1
<1> HIDE DEF call
<1>3. after \in [TagIds -> TagWords \cup {Unset}] /\ (tags[t] # Unset => after[t] # Unset)
  BY TagPut
<1>4. \/ reply' = "refused" /\ UNCHANGED tags
      \/ tags[t] # Unset /\ tags' = after /\ reply' = "done"
      \/ tags' \in {tags, after} /\ reply' = "failed"
  BY <1>1 DEF Replied, TagKnown
<1> HIDE DEF after
<1>5. /\ tags' \in [TagIds -> TagWords \cup {Unset}] /\ reply' \in {"done", "refused", "failed"}
      /\ reply' = "done" => tags[t] # Unset /\ tags'[t] # Unset
  BY <1>3, <1>4 DEF RuleTypeOK
<1>6. rules' \in Book /\ schedules' \subseteq ScheduleIds
  BY <1>2, BookTyped DEF RuleTypeOK
<1>7. RuleTypeOK' /\ request'.tool = "tags_update" /\ request'.in = call
  BY <1>2, <1>5, <1>6, RuleCallTyped
<1> QED
  BY <1>2, <1>5, <1>7

LEMMA DeleteTagTyped ==
    ASSUME RuleTypeOK, DeleteTag
    PROVE  RuleTypeOK' /\ request'.tool = "tags_delete"
<1>1. PICK t \in TagIds :
        /\ RuleRequests("tags_delete", [id |-> t])
        /\ reply' \in {"refused", "done", "failed"} /\ tags' \in {tags, [tags EXCEPT ![t] = Unset]}
        /\ UNCHANGED <<rules, schedules>>
  BY DEF DeleteTag, Replied
<1> DEFINE call == [id |-> t]
<1>2. RuleRequests("tags_delete", call) /\ UNCHANGED <<rules, schedules>>
  BY <1>1
<1> HIDE DEF call
<1>3. tags' \in [TagIds -> TagWords \cup {Unset}]
  BY <1>1, TagPut
<1>4. rules' \in Book /\ schedules' \subseteq ScheduleIds
  BY <1>2, BookTyped DEF RuleTypeOK
<1> QED
  BY <1>1, <1>2, <1>3, <1>4, RuleCallTyped

-----------------------------------------------------------------------------
LEMMA CopiesOf ==
    ASSUME NEW rs \in Book, NEW f, f.conds \in CondSeqs
    PROVE  /\ Copies(rs, f) \subseteq RuleIds
           /\ \A i \in RuleIds : i \in Copies(rs, f) <=>
                  rs[i] # Unset /\ ConditionsMatch(rs[i], f.conds, f.op)
<1>1. ASSUME NEW i \in RuleIds, rs[i] # Unset
      PROVE  ConditionsMatch(rs[i], f.conds, f.op) <=> SameRule(rs[i], f.conds, f.op)
  <2>1. rs[i] \in Rule
    BY <1>1 DEF Book
  <2> QED
    BY <2>1, MatchIsSameRule
<1> QED
  BY <1>1 DEF Copies

(* What an upsert does to the rules that are the same as its input.          *)
LEMMA UpsertRuleTyped ==
    ASSUME RuleTypeOK, UpsertRule
    PROVE  /\ RuleTypeOK' /\ request'.tool = "rules_create_or_update" /\ reply' # "done"
           /\ LET f == request'.in
                  before == Copies(rules, f)
                  after == Copies(rules', f)
              IN  /\ before # {} => after = before
                  /\ Cardinality(after) <= Cardinality(before) + 1
                  /\ before = {} => Cardinality(after) <= 1
                  /\ reply' \in {"created", "updated"} =>
                         \E i \in after : rules'[i].sets = f.sets
<1> DEFINE Inputs == [conds: CondSeqs, op: {"and", "or"}, stage: Stages \cup {Unset}, sets: Targets]
           made(f) == [conds |-> f.conds, op |-> f.op, sets |-> f.sets, owner |-> Unset,
                       stage |-> Or(f.stage, "normal")]
           put(f, i) == IF i = Unset THEN UpsertCreates(made(f))
                        ELSE {RulePut(i, Merged(rules[i], f))}
<1>1. PICK f \in Inputs :
          LET i == FindMatchingRule(f.conds, f.op)
          IN  /\ RuleRequests("rules_create_or_update", f)
              /\ LiveRules # RuleIds
              /\ \/ /\ rules' \in put(f, i)
                    /\ Replied(IF i = Unset THEN "created" ELSE "updated")
                 \/ rules' \in {rules} \cup put(f, i) /\ Replied("failed")
              /\ UNCHANGED <<schedules, tags>>
  BY DEF UpsertRule
<1> DEFINE i == FindMatchingRule(f.conds, f.op)
           before == Copies(rules, f)
           new == made(f)
<1>2. /\ f.conds \in CondSeqs /\ f.op \in {"and", "or"} /\ f.stage \in Stages \cup {Unset}
      /\ f.sets \in Targets /\ rules \in Book
  BY <1>1, BookTyped
<1>3. /\ RuleRequests("rules_create_or_update", f) /\ LiveRules # RuleIds
      /\ UNCHANGED <<schedules, tags>>
  BY <1>1
<1>4. /\ before \subseteq RuleIds
      /\ \A j \in RuleIds : j \in before <=>
             rules[j] # Unset /\ ConditionsMatch(rules[j], f.conds, f.op)
  BY <1>2, CopiesOf
<1>5. IF before = {} THEN i = Unset ELSE i \in before /\ i # Unset
  <2>1. {j \in LiveRules : ConditionsMatch(rules[j], f.conds, f.op)} = before
    BY <1>4 DEF LiveRules
  <2>2. before \subseteq Nat
    BY <1>4, RuleNumbers
  <2>3. before # {} => Min(before) \in before
    BY <2>2, LeastIsOne
  <2>4. i = IF before = {} THEN Unset ELSE Min(before)
    BY <2>1 DEF FindMatchingRule
  <2> QED
    BY <1>4, <2>3, <2>4, RuleNumbers
<1> HIDE DEF before
<1>6. IsFiniteSet(before) /\ Cardinality(before) \in Nat /\ Cardinality({}) = 0
  BY <1>4, RuleNumbers, FS_Subset, FS_CardinalityType, FS_EmptySet
<1>7. CASE before = {}
  <2>1. /\ new \in Rule /\ new.conds = f.conds /\ new.op = f.op /\ new.sets = f.sets
    BY <1>2 DEF Rule, Or, Stages
  <2>2. PICK x \in RuleIds : rules[x] = Unset
    BY <1>3 DEF LiveRules
  <2> HIDE DEF new
  <2>3. PICK k \in RuleIds : /\ rules[k] = Unset
                             /\ CreatedTimes(rules, new, 1) = [rules EXCEPT ![k] = new]
    BY <1>2, <2>2, CreatedOnce
  <2>4. put(f, i) = {[rules EXCEPT ![k] = new]}
    BY <1>5, <1>7, <2>3 DEF UpsertCreates, new
  <2>5. \/ rules' = [rules EXCEPT ![k] = new] /\ reply' \in {"created", "failed"}
        \/ rules' = rules /\ reply' = "failed"
    BY <1>1, <1>5, <1>7, <2>4 DEF Replied
  <2>6. ASSUME rules' = [rules EXCEPT ![k] = new]
        PROVE  rules' \in Book /\ Copies(rules', f) = {k} /\ rules'[k].sets = f.sets
    <3>1. /\ rules' \in Book /\ rules'[k] = new
          /\ \A j \in RuleIds \ {k} : rules'[j] = rules[j]
      BY <1>2, <2>1, <2>6 DEF Book
    <3>2. ConditionsMatch(new, f.conds, f.op)
      BY <2>1 DEF ConditionsMatch
    <3>3. new # Unset
      BY <2>1, RuleNumbers
    <3>4. /\ Copies(rules', f) \subseteq RuleIds
          /\ \A j \in RuleIds : j \in Copies(rules', f) <=>
                 rules'[j] # Unset /\ ConditionsMatch(rules'[j], f.conds, f.op)
      BY <1>2, <3>1, CopiesOf
    <3>5. \A j \in RuleIds : j \in Copies(rules', f) <=> j = k
      BY <1>4, <1>7, <3>1, <3>2, <3>3, <3>4
    <3> QED
      BY <2>1, <3>1, <3>4, <3>5
  <2>7. rules' \in Book /\ reply' \in {"created", "failed"}
    BY <1>2, <2>5, <2>6
  <2>8. RuleTypeOK' /\ request'.tool = "rules_create_or_update" /\ request'.in = f
    BY <1>3, <2>7, RuleCallTyped DEF RuleTypeOK
  <2>9. /\ Cardinality(Copies(rules', f)) <= 1
        /\ reply' = "created" => \E j \in Copies(rules', f) : rules'[j].sets = f.sets
    <3>1. Cardinality({k}) = 1
      BY FS_Singleton
    <3>2. CASE rules' = [rules EXCEPT ![k] = new]
      <4>1. Copies(rules', f) = {k} /\ rules'[k].sets = f.sets
        BY <2>6, <3>2
      <4>2. Cardinality(Copies(rules', f)) <= 1
        BY <3>1, <4>1
      <4>3. \E j \in Copies(rules', f) : rules'[j].sets = f.sets
        BY <4>1
      <4> QED
        BY <4>2, <4>3
    <3>3. CASE rules' = rules /\ reply' = "failed"
      BY <1>6, <1>7, <3>3 DEF before
    <3> QED
      BY <2>5, <3>2, <3>3
  <2>10. Cardinality(Copies(rules, f)) = 0 /\ Copies(rules, f) = {}
    BY <1>6, <1>7 DEF before
  <2> QED
    BY <2>7, <2>8, <2>9, <2>10
<1>8. CASE before # {}
  <2> DEFINE m == Merged(rules[i], f)
  <2>1. i \in before /\ i # Unset /\ i \in RuleIds /\ rules[i] \in Rule
        /\ ConditionsMatch(rules[i], f.conds, f.op)
    BY <1>2, <1>4, <1>5, <1>8 DEF Book
  <2>2. /\ m \in Rule
        /\ m.op = (IF f.op = Unset THEN rules[i].op ELSE f.op)
        /\ m.conds = (IF f.conds = Unset THEN rules[i].conds ELSE f.conds)
        /\ m.sets = (IF f.sets = Unset THEN rules[i].sets ELSE f.sets)
    BY <1>2, <2>1, MergedIsRule
  <2>3. m.sets = f.sets /\ m # Unset
    BY <1>2, <2>2, RuleNumbers
  <2>4. ConditionsMatch(m, f.conds, f.op)
    BY <2>1, <2>2 DEF ConditionsMatch
  <2>5. put(f, i) = {[rules EXCEPT ![i] = m]}
    BY <2>1 DEF RulePut
  <2>6. \/ rules' = [rules EXCEPT ![i] = m] /\ reply' \in {"updated", "failed"}
        \/ rules' = rules /\ reply' = "failed"
    BY <1>1, <2>1, <2>5 DEF Replied
  <2> HIDE DEF m, i
  <2>7. ASSUME rules' = [rules EXCEPT ![i] = m]
        PROVE  rules' \in Book /\ Copies(rules', f) = before /\ rules'[i].sets = f.sets
    <3>1. /\ rules' \in Book /\ rules'[i] = m
          /\ \A j \in RuleIds \ {i} : rules'[j] = rules[j]
      BY <1>2, <2>1, <2>2, <2>7 DEF Book
    <3>2. /\ Copies(rules', f) \subseteq RuleIds
          /\ \A j \in RuleIds : j \in Copies(rules', f) <=>
                 rules'[j] # Unset /\ ConditionsMatch(rules'[j], f.conds, f.op)
      BY <1>2, <3>1, CopiesOf
    <3>3. \A j \in RuleIds : j \in Copies(rules', f) <=> j \in before
      BY <1>4, <2>1, <2>3, <2>4, <3>1, <3>2
    <3> QED
      BY <1>4, <2>3, <3>1, <3>2, <3>3
  <2>8. rules' \in Book /\ reply' \in {"updated", "failed"}
    BY <1>2, <2>6, <2>7
  <2>9. RuleTypeOK' /\ request'.tool = "rules_create_or_update" /\ request'.in = f
    BY <1>3, <2>8, RuleCallTyped DEF RuleTypeOK
  <2>10. Copies(rules', f) = before
    BY <2>6, <2>7 DEF before
  <2>11. reply' = "updated" => \E j \in Copies(rules', f) : rules'[j].sets = f.sets
    BY <2>1, <2>6, <2>7, <2>10
  <2>12. Copies(rules, f) = before /\ Cardinality(before) <= Cardinality(before) + 1
    BY <1>6 DEF before
  <2> QED
    BY <1>8, <2>8, <2>9, <2>10, <2>11, <2>12
<1> QED
  BY <1>7, <1>8

LEMMA DeliveredTyped == ASSUME RuleTypeOK, Delivered PROVE RuleTypeOK' /\ ruleOps' = ruleOps
  BY DEF RuleTypeOK, Delivered, Replies

LEMMA RuleNextTyped == ASSUME RuleTypeOK, [RuleNext]_ruleVars PROVE RuleTypeOK'
<1>1. CASE Delivered
  BY <1>1, DeliveredTyped
<1>2. CASE CreateRule \/ UpdateRule \/ UpsertRule \/ DeleteRule \/ SetPayeeCategory
  BY <1>2, CreateRuleTyped, UpdateRuleTyped, UpsertRuleTyped, DeleteRuleTyped,
     SetPayeeCategoryTyped
<1>3. CASE CreateSchedule \/ UpdateSchedule \/ DeleteSchedule
  BY <1>3, CreateScheduleTyped, UpdateScheduleTyped, DeleteScheduleTyped
<1>4. CASE CreateTag \/ UpdateTag \/ DeleteTag
  BY <1>4, CreateTagTyped, UpdateTagTyped, DeleteTagTyped
<1>5. CASE UNCHANGED ruleVars
  BY <1>5 DEF RuleTypeOK, ruleVars
<1> QED
  BY <1>1, <1>2, <1>3, <1>4, <1>5 DEF RuleNext

(* The rules, schedules and tags keep their types.                          *)
THEOREM RuleTyped == RuleSpec => []RuleTypeOK
<1>1. RuleTypeOK /\ [RuleNext]_ruleVars => RuleTypeOK'
  BY RuleNextTyped
<1> QED
  BY RuleInitTyped, <1>1, PTL DEF RuleSpec

(* However many rules there are and in whatever order conditions come, an   *)
(* upsert makes no second rule with the conditions of one that exists, and  *)
(* a success leaves one with the new actions (rules_create_or_update,       *)
(* rule-matching.ts).                                                       *)
THEOREM RuleUpsertOnce == RuleSpec => UpsertOnce
<1> DEFINE Once == (ruleOps' # ruleOps /\ request'.tool = "rules_create_or_update") =>
                      LET f == request'.in
                          before == Copies(rules, f)
                          after == Copies(rules', f)
                      IN  /\ before # {} => after = before
                          /\ Cardinality(after) <= Cardinality(before) + 1
                          /\ before = {} => Cardinality(after) <= 1
                          /\ reply' \in {"created", "updated"} =>
                                 \E i \in after : rules'[i].sets = f.sets
<1>1. ASSUME RuleTypeOK, [RuleNext]_ruleVars
      PROVE  [Once]_ruleVars
  <2>1. CASE UpsertRule
    BY <1>1, <2>1, UpsertRuleTyped
  <2>2. CASE Delivered
    BY <1>1, <2>2, DeliveredTyped
  <2>3. CASE CreateRule \/ UpdateRule \/ DeleteRule \/ SetPayeeCategory
    <3>1. request'.tool \in {"rules_create", "rules_update", "rules_delete", "payees_update"}
      BY <1>1, <2>3, CreateRuleTyped, UpdateRuleTyped, DeleteRuleTyped, SetPayeeCategoryTyped
    <3> QED
      BY <3>1
  <2>4. CASE CreateSchedule \/ UpdateSchedule \/ DeleteSchedule
    <3>1. request'.tool \in {"schedules_create", "schedules_update", "schedules_delete"}
      BY <1>1, <2>4, CreateScheduleTyped, UpdateScheduleTyped, DeleteScheduleTyped
    <3> QED
      BY <3>1
  <2>5. CASE CreateTag \/ UpdateTag \/ DeleteTag
    <3>1. request'.tool \in {"tags_create", "tags_update", "tags_delete"}
      BY <1>1, <2>5, CreateTagTyped, UpdateTagTyped, DeleteTagTyped
    <3> QED
      BY <3>1
  <2>6. CASE UNCHANGED ruleVars
    BY <2>6
  <2> QED
    BY <1>1, <2>1, <2>2, <2>3, <2>4, <2>5, <2>6 DEF RuleNext
<1>2. RuleTypeOK /\ [RuleNext]_ruleVars => [Once]_ruleVars
  BY <1>1
<1> QED
  BY <1>2, RuleTyped, PTL DEF RuleSpec, UpsertOnce

(* A deletion, an update, a schedule's deletion and a tag's update that     *)
(* answer with success did what they say (rules_delete, rules_update,       *)
(* schedules_delete, tags_update).                                          *)
THEOREM RuleAnswers == RuleSpec => RuleAnswersHold
<1> DEFINE Held == (ruleOps' # ruleOps /\ reply' = "done") =>
          LET in == request'.in
          IN CASE request'.tool = "rules_delete" -> rules'[in.id] = Unset
               [] request'.tool = "rules_update" ->
                      LET r == rules'[in.id]
                      IN /\ r.stage = (IF in.fields.stage = Unset THEN rules[in.id].stage
                                       ELSE in.fields.stage)
                         /\ in.fields.sets = Unset => r.sets = rules[in.id].sets
                         /\ in.fields.conds # Unset => r.conds = in.fields.conds
               [] request'.tool = "schedules_delete" ->
                      \A i \in RuleIds : rules'[i] # Unset => rules'[i].owner # in.id
               [] request'.tool = "tags_update" -> tags[in.id] # Unset /\ tags'[in.id] # Unset
               [] OTHER -> TRUE
<1>1. ASSUME RuleTypeOK, [RuleNext]_ruleVars
      PROVE  [Held]_ruleVars
  <2>1. CASE DeleteRule
    BY <1>1, <2>1, DeleteRuleTyped
  <2>2. CASE UpdateRule
    BY <1>1, <2>2, UpdateRuleTyped
  <2>3. CASE DeleteSchedule
    BY <1>1, <2>3, DeleteScheduleTyped
  <2>4. CASE UpdateTag
    BY <1>1, <2>4, UpdateTagTyped
  <2>5. CASE CreateRule \/ UpsertRule
    BY <1>1, <2>5, CreateRuleTyped, UpsertRuleTyped
  <2>6. CASE Delivered
    BY <1>1, <2>6, DeliveredTyped
  <2>7. CASE SetPayeeCategory \/ CreateSchedule \/ UpdateSchedule
    <3>1. request'.tool \in {"payees_update", "schedules_create", "schedules_update"}
      BY <1>1, <2>7, SetPayeeCategoryTyped, CreateScheduleTyped, UpdateScheduleTyped
    <3> QED
      BY <3>1
  <2>8. CASE CreateTag \/ DeleteTag
    <3>1. request'.tool \in {"tags_create", "tags_delete"}
      BY <1>1, <2>8, CreateTagTyped, DeleteTagTyped
    <3> QED
      BY <3>1
  <2>9. CASE UNCHANGED ruleVars
    BY <2>9
  <2> QED
    BY <1>1, <2>1, <2>2, <2>3, <2>4, <2>5, <2>6, <2>7, <2>8, <2>9 DEF RuleNext
<1>2. RuleTypeOK /\ [RuleNext]_ruleVars => [Held]_ruleVars
  BY <1>1
<1> QED
  BY <1>2, RuleTyped, PTL DEF RuleSpec, RuleAnswersHold

-----------------------------------------------------------------------------
(***************************************************************************)
(* BudgetMonth.  The type is inductive: whatever an operation, a transfer, *)
(* an attempt of a batch or a hold does leaves a sheet and a hold.  The    *)
(* batch is two folds, one over the operations of an attempt and one over  *)
(* the attempts, and a month's total is a third: what they compute is by   *)
(* induction over the subsets they have folded (SequenceFacts).            *)
(***************************************************************************)

LEMMA BudgetFacts ==
    /\ Outside \notin Months /\ Months \subseteq Nat /\ Ghost \notin Cells /\ IsFiniteSet(Cells)
    /\ Funds \in [Months -> Int] /\ Sums \subseteq Int
    /\ MaxAttempts \in Nat \ {0} /\ MaxCalls \in Nat
    /\ \A ops \in Batches : ops \in Seq(BatchOps)
  BY BudgetMonthAssumption

(* Writes keep the shape of the sheet.                                     *)
LEMMA SetInTyped ==
    ASSUME NEW s \in Sheets, NEW m \in Months \cup {Outside}, NEW c, NEW n \in Int
    PROVE  /\ SetIn(s, m, c, n) \in Sheets
           /\ \A x \in Months \cup {Outside}, y \in Cells :
                  SetIn(s, m, c, n).amount[x][y] = IF x = m /\ y = c THEN n ELSE s.amount[x][y]
           /\ SetIn(s, m, c, n).carry = s.carry
<1>1. CASE c \notin Cells
  BY <1>1 DEF SetIn
<1>2. CASE c \in Cells
  <2> DEFINE row == [s.amount[m] EXCEPT ![c] = n]
             amount == [s.amount EXCEPT ![m] = row]
  <2>1. row \in [Cells -> Int] /\ \A y \in Cells : row[y] = IF y = c THEN n ELSE s.amount[m][y]
    BY <1>2 DEF Sheets
  <2>2. SetIn(s, m, c, n) = [s EXCEPT !.amount = amount]
    BY <1>2 DEF SetIn, Sheets
  <2> HIDE DEF row
  <2>3. amount \in [Months \cup {Outside} -> [Cells -> Int]]
        /\ \A x \in Months \cup {Outside} : amount[x] = IF x = m THEN row ELSE s.amount[x]
    BY <2>1 DEF Sheets
  <2> HIDE DEF amount
  <2>4. /\ SetIn(s, m, c, n) \in Sheets /\ SetIn(s, m, c, n).amount = amount
        /\ SetIn(s, m, c, n).carry = s.carry
    BY <2>2, <2>3 DEF Sheets
  <2> QED
    BY <2>1, <2>3, <2>4
<1> QED
  BY <1>1, <1>2

LEMMA CarryInTyped ==
    ASSUME NEW s \in Sheets, NEW m, NEW c, NEW flag
    PROVE  /\ CarryIn(s, m, c, flag) \in Sheets
           /\ CarryIn(s, m, c, flag).amount = s.amount
           /\ \A x \in Months, y \in Cells :
                  y \in CarryIn(s, m, c, flag).carry[x]
                      <=> IF x = m /\ y = c THEN flag ELSE y \in s.carry[x]
<1> DEFINE set == IF flag THEN s.carry[m] \cup {c} ELSE s.carry[m] \ {c}
           carry == [s.carry EXCEPT ![m] = set]
<1>1. CASE m \notin Months \/ c \notin Cells
  BY <1>1 DEF CarryIn
<1>2. CASE m \in Months /\ c \in Cells
  <2>1. CarryIn(s, m, c, flag) = [s EXCEPT !.carry = carry]
    BY <1>2 DEF CarryIn, Sheets
  <2>2. /\ set \in SUBSET Cells
        /\ \A y \in Cells : y \in set <=> IF y = c THEN flag ELSE y \in s.carry[m]
    BY <1>2 DEF Sheets
  <2> HIDE DEF set
  <2>3. carry \in [Months -> SUBSET Cells]
        /\ \A x \in Months : carry[x] = IF x = m THEN set ELSE s.carry[x]
    BY <1>2, <2>2 DEF Sheets
  <2> HIDE DEF carry
  <2>4. /\ CarryIn(s, m, c, flag) \in Sheets /\ CarryIn(s, m, c, flag).amount = s.amount
        /\ CarryIn(s, m, c, flag).carry = carry
    BY <2>1, <2>3 DEF Sheets
  <2> QED
    BY <2>2, <2>3, <2>4
<1> QED
  BY <1>1, <1>2

(* A batch leaves a sheet, whatever of it is applied.                      *)
LEMMA ApplyTyped ==
    ASSUME NEW s \in Sheets, NEW op \in BatchOps, NEW r
    PROVE  /\ Apply(s, op, r) \in Sheets
           /\ \A m \in Months \cup {Outside}, c \in Cells :
                  Apply(s, op, r).amount[m][c]
                      = IF Sets(op, m, c, "amount") /\ r # "none" THEN op.amount
                        ELSE s.amount[m][c]
           /\ \A m \in Months, c \in Cells :
                  c \in Apply(s, op, r).carry[m]
                      <=> IF Sets(op, m, c, "carry") /\ r = "all" THEN op.carry
                          ELSE c \in s.carry[m]
<1> DEFINE amounted == IF op.amount # Nothing /\ r # "none"
                       THEN SetIn(s, op.month, op.cell, op.amount) ELSE s
<1>1. op.month \in Months \cup {Outside} /\ (op.amount # Nothing => op.amount \in Int)
  BY BudgetFacts DEF BatchOps
<1>2. /\ amounted \in Sheets /\ amounted.carry = s.carry
      /\ \A m \in Months \cup {Outside}, c \in Cells :
             amounted.amount[m][c]
                 = IF Sets(op, m, c, "amount") /\ r # "none" THEN op.amount
                   ELSE s.amount[m][c]
  <2>1. CASE op.amount # Nothing /\ r # "none"
    BY <1>1, <2>1, SetInTyped DEF Sets
  <2>2. CASE ~(op.amount # Nothing /\ r # "none")
    BY <2>2 DEF Sets
  <2> QED
    BY <2>1, <2>2
<1>3. Apply(s, op, r) = IF op.carry # Nothing /\ r = "all"
                        THEN CarryIn(amounted, op.month, op.cell, op.carry) ELSE amounted
  BY DEF Apply
<1> HIDE DEF amounted
<1>4. Apply(s, op, r) \in Sheets /\ Apply(s, op, r).amount = amounted.amount
  BY <1>2, <1>3, CarryInTyped
<1>5. ASSUME NEW m \in Months, NEW c \in Cells
      PROVE  c \in Apply(s, op, r).carry[m]
                 <=> IF Sets(op, m, c, "carry") /\ r = "all" THEN op.carry
                     ELSE c \in s.carry[m]
  <2>1. CASE op.carry # Nothing /\ r = "all"
    <3>1. c \in CarryIn(amounted, op.month, op.cell, op.carry).carry[m]
              <=> IF m = op.month /\ c = op.cell THEN op.carry ELSE c \in amounted.carry[m]
      BY <1>2, CarryInTyped
    <3>2. Sets(op, m, c, "carry") <=> m = op.month /\ c = op.cell
      BY <2>1 DEF Sets
    <3> QED
      BY <1>2, <1>3, <2>1, <3>1, <3>2
  <2>2. CASE ~(op.carry # Nothing /\ r = "all")
    BY <1>2, <1>3, <2>2 DEF Sets
  <2> QED
    BY <2>1, <2>2
<1> QED
  BY <1>2, <1>4, <1>5

\* The fold that Attempt is defined by.
AttemptStep(s, ops, r, it) ==
    [t \in SUBSET DOMAIN ops |->
        IF t = {} THEN s ELSE Apply(it[t \ {Max(t)}], ops[Max(t)], r[Max(t)])]

LEMMA AttemptFolds ==
    ASSUME NEW s \in Sheets, NEW ops \in Seq(BatchOps), NEW r
    PROVE  \E it : it = AttemptStep(s, ops, r, it) /\ Attempt(s, ops, r) = it[DOMAIN ops]
<1> DEFINE dom == [i \in DOMAIN ops |-> i]
           Step(it) == [t \in SUBSET DOMAIN dom |->
                           IF t = {} THEN s
                           ELSE Apply(it[t \ {Max(t)}], ops[dom[Max(t)]], r[dom[Max(t)]])]
           I == CHOOSE it : it = Step(it)
           h == [p \in (DOMAIN ops) \X Sheets |-> Apply(p[2], ops[p[1]], r[p[1]])]
<1>1. Attempt(s, ops, r) = I[DOMAIN dom]
  BY DEF Attempt, FoldLeftDomain, FoldLeft, MapThenFoldSet
<1>2. DOMAIN ops = 1..Len(ops) /\ Len(ops) \in Nat /\ \A i \in 1..Len(ops) : ops[i] \in BatchOps
  OBVIOUS
<1>3. \A i \in 1..Len(ops), y \in Sheets : h[<<i, y>>] \in Sheets
                                           /\ h[<<i, y>>] = Apply(y, ops[i], r[i])
  BY <1>2, ApplyTyped
<1> HIDE DEF h
<1>4. PICK it \in [SUBSET (1..Len(ops)) -> Sheets] : IsLeftFold(it, Len(ops), s, h)
  <2>1. \A x \in 1..Len(ops), y \in Sheets : h[<<x, y>>] \in Sheets
    BY <1>2, <1>3
  <2> QED
    BY <1>2, <2>1, LeftFoldExists
<1>5. \A t \in SUBSET (1..Len(ops)) : t # {} => Max(t) \in t
  BY <1>2, GreatestIsOne
<1>6. ASSUME NEW f \in [SUBSET (1..Len(ops)) -> Sheets]
      PROVE  \A t \in SUBSET (1..Len(ops)) : t # {} =>
                 /\ Apply(f[t \ {Max(t)}], ops[dom[Max(t)]], r[dom[Max(t)]])
                        = h[<<Max(t), f[t \ {Max(t)}]>>]
                 /\ Apply(f[t \ {Max(t)}], ops[Max(t)], r[Max(t)])
                        = h[<<Max(t), f[t \ {Max(t)}]>>]
  <2> TAKE t \in SUBSET (1..Len(ops))
  <2> HAVE t # {}
  <2>1. Max(t) \in 1..Len(ops) /\ t \ {Max(t)} \in SUBSET (1..Len(ops))
    BY <1>5
  <2>2. dom[Max(t)] = Max(t)
    BY <1>2, <2>1
  <2>3. f[t \ {Max(t)}] \in Sheets
    BY <2>1
  <2> QED
    BY <1>3, <2>1, <2>2, <2>3
<1>7. it = Step(it)
  <2>1. DOMAIN dom = 1..Len(ops)
    BY <1>2
  <2> HIDE DEF dom
  <2> QED
    BY <1>4, <1>6, <2>1 DEF IsLeftFold
<1>8. I = Step(I)
  BY <1>7
<1> HIDE DEF I
<1>9. I = AttemptStep(s, ops, r, I)
  <2>1. DOMAIN dom = DOMAIN ops
    OBVIOUS
  <2>2. \A t \in SUBSET DOMAIN ops : t # {} => dom[Max(t)] = Max(t)
    BY <1>2, <1>5
  <2> HIDE DEF dom
  <2> QED
    BY <1>8, <2>1, <2>2 DEF AttemptStep
<1> QED
  BY <1>1, <1>9

Latest(ops, t, i, m, c, what) ==
    Sets(ops[i], m, c, what) /\ \A j \in t : j > i => ~Sets(ops[j], m, c, what)

\* An earlier one is the latest only if the greatest does not set the same.
LEMMA LatestBefore ==
    ASSUME NEW ops, NEW t \in SUBSET Int, NEW k \in t, \A j \in t : k >= j, NEW i \in t, i # k,
           NEW m, NEW c, NEW what, Latest(ops, t, i, m, c, what)
    PROVE  ~Sets(ops[k], m, c, what) /\ i \in t \ {k} /\ Latest(ops, t \ {k}, i, m, c, what)
<1>1. k > i
  <2>1. i \in Int /\ k \in Int /\ k >= i
    OBVIOUS
  <2> QED
    BY <2>1
<1> QED
  BY <1>1 DEF Latest

(* One call of the callback gives a sheet, and when none of its operations *)
(* failed the last one on a category is what counts.                       *)
LEMMA AttemptTyped ==
    ASSUME NEW s \in Sheets, NEW ops \in Seq(BatchOps), NEW r
    PROVE  /\ Attempt(s, ops, r) \in Sheets
           /\ (\A i \in DOMAIN ops : r[i] = "all") =>
                  /\ \A m \in Months \cup {Outside}, c \in Cells, i \in DOMAIN ops :
                         Latest(ops, DOMAIN ops, i, m, c, "amount") =>
                             Attempt(s, ops, r).amount[m][c] = ops[i].amount
                  /\ \A m \in Months, c \in Cells, i \in DOMAIN ops :
                         Latest(ops, DOMAIN ops, i, m, c, "carry") =>
                             (c \in Attempt(s, ops, r).carry[m] <=> ops[i].carry)
<1> DEFINE all == \A i \in DOMAIN ops : r[i] = "all"
<1>1. PICK it : it = AttemptStep(s, ops, r, it) /\ Attempt(s, ops, r) = it[DOMAIN ops]
  BY AttemptFolds
<1> DEFINE Amounts(t) ==
               \A m \in Months \cup {Outside}, c \in Cells, i \in t :
                   all /\ Latest(ops, t, i, m, c, "amount") => it[t].amount[m][c] = ops[i].amount
           Carries(t) ==
               \A m \in Months, c \in Cells, i \in t :
                   all /\ Latest(ops, t, i, m, c, "carry") =>
                       (c \in it[t].carry[m] <=> ops[i].carry)
           Q == {t \in SUBSET DOMAIN ops : it[t] \in Sheets /\ Amounts(t) /\ Carries(t)}
<1>2. DOMAIN ops = 1..Len(ops) /\ Len(ops) \in Nat /\ \A i \in 1..Len(ops) : ops[i] \in BatchOps
  OBVIOUS
<1>3. ASSUME NEW t \in SUBSET DOMAIN ops, \A x \in t : t \ {x} \in Q
      PROVE  t \in Q
  <2>1. it[t] = IF t = {} THEN s ELSE Apply(it[t \ {Max(t)}], ops[Max(t)], r[Max(t)])
    BY <1>1 DEF AttemptStep
  <2>2. CASE t = {}
    BY <2>1, <2>2
  <2>3. CASE t # {}
    <3> DEFINE k == Max(t)
               u == it[t \ {k}]
    <3>1. k \in t /\ \A j \in t : k >= j
      BY <1>2, <2>3, GreatestIsOne
    <3> HIDE DEF k
    <3>2. t \ {k} \in Q /\ ops[k] \in BatchOps
      BY <1>2, <1>3, <3>1
    <3>3. u \in Sheets
      BY <3>2
    <3>4. it[t] = Apply(u, ops[k], r[k])
      BY <2>1, <2>3 DEF k
    <3>5. /\ it[t] \in Sheets
          /\ \A m \in Months \cup {Outside}, c \in Cells :
                 it[t].amount[m][c]
                     = IF Sets(ops[k], m, c, "amount") /\ r[k] # "none" THEN ops[k].amount
                       ELSE u.amount[m][c]
          /\ \A m \in Months, c \in Cells :
                 c \in it[t].carry[m]
                     <=> IF Sets(ops[k], m, c, "carry") /\ r[k] = "all" THEN ops[k].carry
                         ELSE c \in u.carry[m]
      <4> HIDE DEF u
      <4> QED
        BY <3>2, <3>3, <3>4, ApplyTyped
    <3>6. t \in SUBSET Int /\ k \in DOMAIN ops
      BY <1>2, <3>1
    <3>7. ASSUME NEW m \in Months \cup {Outside}, NEW c \in Cells, NEW i \in t,
                 all, Latest(ops, t, i, m, c, "amount")
          PROVE  it[t].amount[m][c] = ops[i].amount
      <4>1. CASE i = k
        <5>1. Sets(ops[k], m, c, "amount") /\ r[k] # "none"
          BY <3>6, <3>7, <4>1 DEF Latest
        <5> QED
          BY <3>5, <4>1, <5>1
      <4>2. CASE i # k
        <5>1. /\ ~Sets(ops[k], m, c, "amount")
              /\ i \in t \ {k} /\ Latest(ops, t \ {k}, i, m, c, "amount")
          BY <3>1, <3>6, <3>7, <4>2, LatestBefore
        <5>2. u.amount[m][c] = ops[i].amount
          BY <3>2, <3>7, <5>1
        <5> QED
          BY <3>5, <5>1, <5>2
      <4> QED
        BY <4>1, <4>2
    <3>8. ASSUME NEW m \in Months, NEW c \in Cells, NEW i \in t,
                 all, Latest(ops, t, i, m, c, "carry")
          PROVE  c \in it[t].carry[m] <=> ops[i].carry
      <4>1. CASE i = k
        <5>1. Sets(ops[k], m, c, "carry") /\ r[k] = "all"
          BY <3>6, <3>8, <4>1 DEF Latest
        <5> QED
          BY <3>5, <4>1, <5>1
      <4>2. CASE i # k
        <5>1. /\ ~Sets(ops[k], m, c, "carry")
              /\ i \in t \ {k} /\ Latest(ops, t \ {k}, i, m, c, "carry")
          BY <3>1, <3>6, <3>8, <4>2, LatestBefore
        <5>2. c \in u.carry[m] <=> ops[i].carry
          BY <3>2, <3>8, <5>1
        <5> QED
          BY <3>5, <5>1, <5>2
      <4> QED
        BY <4>1, <4>2
    <3>9. Amounts(t)
      BY <3>7
    <3>10. Carries(t)
      BY <3>8
    <3> QED
      <4> HIDE DEF Amounts, Carries
      <4> QED
        BY <3>5, <3>9, <3>10
  <2> QED
    BY <2>2, <2>3
<1>4. IsFiniteSet(DOMAIN ops)
  BY <1>2, FS_Interval
<1>5. DOMAIN ops \in Q
  <2> DEFINE D == DOMAIN ops
  <2>1. \A t \in SUBSET D : (\A x \in t : t \ {x} \in Q) => t \in Q
    BY <1>3
  <2>2. IsFiniteSet(D)
    BY <1>4
  <2> HIDE DEF Q, D
  <2>3. SUBSET D \subseteq Q
    BY <2>1, <2>2, SubsetInduction
  <2> QED
    BY <2>3 DEF D
<1> QED
  BY <1>1, <1>5

LEMMA FinalIsLast ==
    ASSUME NEW ops \in Seq(BatchOps), NEW m, NEW c, NEW what, NEW i \in DOMAIN ops,
           Sets(ops[i], m, c, what)
    PROVE  /\ Final(ops, m, c, what) \in DOMAIN ops
           /\ Latest(ops, DOMAIN ops, Final(ops, m, c, what), m, c, what)
<1> DEFINE S == {j \in DOMAIN ops : Sets(ops[j], m, c, what)}
<1>1. DOMAIN ops = 1..Len(ops) /\ Len(ops) \in Nat
  OBVIOUS
<1>2. Max(S) \in S /\ \A j \in S : Max(S) >= j
  BY <1>1, GreatestIsOne
<1>3. \A j \in DOMAIN ops : j > Max(S) => ~Sets(ops[j], m, c, what)
  <2> SUFFICES ASSUME NEW j \in DOMAIN ops, j > Max(S), j \in S
               PROVE  FALSE
    OBVIOUS
  <2>1. j \in Int /\ Max(S) \in Int /\ Max(S) >= j
    BY <1>1, <1>2
  <2> QED
    BY <2>1
<1> DEFINE k == Max(S)
<1>4. /\ k \in DOMAIN ops /\ Sets(ops[k], m, c, what)
      /\ \A j \in DOMAIN ops : j > k => ~Sets(ops[j], m, c, what)
  BY <1>2, <1>3
<1> HIDE DEF S, k
<1> QED
  BY <1>4 DEF Final, Latest

(* The last attempt of a batch starts from a sheet that the ones before it *)
(* left.                                                                   *)
Attempts(s, ops, reach) == FoldLeftDomain(LAMBDA t, k : Attempt(t, ops, reach[k]), s, reach)

LEMMA AttemptsFold ==
    ASSUME NEW s \in Sheets, NEW ops \in Seq(BatchOps), NEW n \in Nat \ {0}, NEW reach,
           DOMAIN reach = 1..n
    PROVE  \E u \in Sheets : Attempts(s, ops, reach) = Attempt(u, ops, reach[n])
<1> DEFINE dom == [k \in DOMAIN reach |-> k]
           Step(it) == [t \in SUBSET DOMAIN dom |->
                           IF t = {} THEN s
                           ELSE Attempt(it[t \ {Max(t)}], ops, reach[dom[Max(t)]])]
           I == CHOOSE it : it = Step(it)
           h == [p \in (1..n) \X Sheets |-> Attempt(p[2], ops, reach[p[1]])]
<1>1. Attempts(s, ops, reach) = I[DOMAIN dom]
  BY DEF Attempts, FoldLeftDomain, FoldLeft, MapThenFoldSet
<1>2. \A k \in 1..n, y \in Sheets : h[<<k, y>>] \in Sheets
                                    /\ h[<<k, y>>] = Attempt(y, ops, reach[k])
  BY AttemptTyped
<1> HIDE DEF h
<1>3. PICK it \in [SUBSET (1..n) -> Sheets] : IsLeftFold(it, n, s, h)
  <2>1. \A x \in 1..n, y \in Sheets : h[<<x, y>>] \in Sheets
    BY <1>2
  <2> QED
    BY <2>1, LeftFoldExists
<1>4. DOMAIN dom = 1..n /\ \A k \in 1..n : dom[k] = k
  OBVIOUS
<1> HIDE DEF dom
<1>5. \A t \in SUBSET (1..n) : t # {} => Max(t) \in t /\ \A k \in t : Max(t) >= k
  BY GreatestIsOne
<1>6. \A t \in SUBSET (1..n) : t # {} =>
          Attempt(it[t \ {Max(t)}], ops, reach[dom[Max(t)]]) = h[<<Max(t), it[t \ {Max(t)}]>>]
  <2> TAKE t \in SUBSET (1..n)
  <2> HAVE t # {}
  <2>1. Max(t) \in 1..n /\ it[t \ {Max(t)}] \in Sheets
    BY <1>5
  <2> QED
    BY <1>2, <1>4, <2>1
<1>7. it = Step(it)
  BY <1>3, <1>4, <1>6 DEF IsLeftFold
<1>8. I = Step(I)
  BY <1>7
<1> HIDE DEF I
<1>9. \A t \in SUBSET (1..n) :
          I[t] = IF t = {} THEN s ELSE Attempt(I[t \ {Max(t)}], ops, reach[Max(t)])
  BY <1>4, <1>5, <1>8
<1> DEFINE Q == {t \in SUBSET (1..n) : I[t] \in Sheets}
<1>10. ASSUME NEW t \in SUBSET (1..n), \A x \in t : t \ {x} \in Q
       PROVE  t \in Q
  <2>1. CASE t = {}
    BY <1>9, <2>1
  <2>2. CASE t # {}
    <3>1. Max(t) \in t /\ I[t \ {Max(t)}] \in Sheets
      BY <1>5, <1>10, <2>2
    <3> QED
      <4> DEFINE u == I[t \ {Max(t)}]
      <4>1. I[t] = Attempt(u, ops, reach[Max(t)]) /\ u \in Sheets
        BY <1>9, <2>2, <3>1
      <4>2. Attempt(u, ops, reach[Max(t)]) \in Sheets
        <5> HIDE DEF u
        <5> QED
          BY <4>1, AttemptTyped
      <4> QED
        BY <4>1, <4>2
  <2> QED
    BY <2>1, <2>2
<1>11. SUBSET (1..n) \subseteq Q
  <2> DEFINE D == 1..n
  <2>1. \A t \in SUBSET D : (\A x \in t : t \ {x} \in Q) => t \in Q
    BY <1>10
  <2>2. IsFiniteSet(D)
    BY FS_Interval
  <2> HIDE DEF Q, D
  <2>3. SUBSET D \subseteq Q
    BY <2>1, <2>2, SubsetInduction
  <2> QED
    BY <2>3 DEF D
<1>12. Max(1..n) = n
  <2>1. 1..n \in SUBSET (1..n) /\ n \in 1..n
    OBVIOUS
  <2>2. Max(1..n) \in 1..n /\ Max(1..n) >= n
    BY <1>5, <2>1
  <2> QED
    BY <2>2
<1>13. I[(1..n) \ {n}] \in Sheets
  BY <1>11
<1>14. I[1..n] = Attempt(I[(1..n) \ {n}], ops, reach[n])
  <2>1. 1..n \in SUBSET (1..n) /\ n \in 1..n
    OBVIOUS
  <2> QED
    BY <1>9, <1>12, <2>1
<1> QED
  BY <1>1, <1>4, <1>13, <1>14

LEMMA AttemptsTyped ==
    ASSUME NEW s \in Sheets, NEW ops \in Seq(BatchOps), NEW n \in Nat \ {0}, NEW reach,
           DOMAIN reach = 1..n
    PROVE  Attempts(s, ops, reach) \in Sheets
<1>1. PICK u \in Sheets : Attempts(s, ops, reach) = Attempt(u, ops, reach[n])
  BY AttemptsFold
<1>2. Attempt(u, ops, reach[n]) \in Sheets
  BY AttemptTyped
<1> QED
  BY <1>1, <1>2

LEMMA AttemptsApplied ==
    ASSUME NEW s \in Sheets, NEW ops \in Seq(BatchOps), NEW n \in Nat \ {0}, NEW reach,
           DOMAIN reach = 1..n, BatchOk(reach, ops),
           \A k \in 1..n : \A i \in DOMAIN ops : Possible(ops[i], reach[k][i])
    PROVE  Applied(Attempts(s, ops, reach), ops)
<1>1. PICK u \in Sheets : Attempts(s, ops, reach) = Attempt(u, ops, reach[n])
  BY AttemptsFold
<1>2. n \in DOMAIN reach /\ n \in 1..n
  OBVIOUS
<1>3. \A j \in DOMAIN ops : reach[n][j] = "all"
  BY <1>2 DEF BatchOk
<1> DEFINE t == Attempt(u, ops, reach[n])
<1>4. /\ \A m \in Months \cup {Outside}, c \in Cells, i \in DOMAIN ops :
             Latest(ops, DOMAIN ops, i, m, c, "amount") => t.amount[m][c] = ops[i].amount
      /\ \A m \in Months, c \in Cells, i \in DOMAIN ops :
             Latest(ops, DOMAIN ops, i, m, c, "carry") => (c \in t.carry[m] <=> ops[i].carry)
  BY <1>3, AttemptTyped
<1> HIDE DEF t
<1>5. ASSUME NEW i \in DOMAIN ops, NEW m, m = ops[i].month, NEW c, c = ops[i].cell
      PROVE  /\ (ops[i].amount # Nothing /\ c \in Cells) =>
                    t.amount[m][c] = ops[Final(ops, m, c, "amount")].amount
             /\ ops[i].carry # Nothing =>
                    /\ m \in Months /\ c \in Cells
                    /\ c \in t.carry[m] <=> ops[Final(ops, m, c, "carry")].carry
  <2>1. ops[i] \in BatchOps
    OBVIOUS
  <2>2. m \in Months \cup {Outside}
    BY <1>5, <2>1 DEF BatchOps
  <2>3. ASSUME ops[i].amount # Nothing, c \in Cells
        PROVE  t.amount[m][c] = ops[Final(ops, m, c, "amount")].amount
    <3> DEFINE k == Final(ops, m, c, "amount")
    <3>1. Sets(ops[i], m, c, "amount")
      BY <1>5, <2>3 DEF Sets
    <3>2. k \in DOMAIN ops /\ Latest(ops, DOMAIN ops, k, m, c, "amount")
      BY <3>1, FinalIsLast
    <3> HIDE DEF k
    <3>3. t.amount[m][c] = ops[k].amount
      BY <1>4, <2>2, <2>3, <3>2
    <3> QED
      BY <3>3 DEF k
  <2>4. ASSUME ops[i].carry # Nothing
        PROVE  /\ m \in Months /\ c \in Cells
               /\ c \in t.carry[m] <=> ops[Final(ops, m, c, "carry")].carry
    <3> DEFINE k == Final(ops, m, c, "carry")
    <3>1. m \in Months /\ c \in Cells
      BY <1>2, <1>3, <1>5, <2>4 DEF Possible
    <3>2. Sets(ops[i], m, c, "carry")
      BY <1>5, <2>4 DEF Sets
    <3>3. k \in DOMAIN ops /\ Latest(ops, DOMAIN ops, k, m, c, "carry")
      BY <3>2, FinalIsLast
    <3> HIDE DEF k
    <3>4. c \in t.carry[m] <=> ops[k].carry
      BY <1>4, <3>1, <3>3
    <3> QED
      BY <3>1, <3>4 DEF k
  <2> QED
    BY <2>3, <2>4
<1> QED
  BY <1>1, <1>5 DEF Applied, t

(* What a month has left is a number, and a hold takes at most that.       *)
LEMMA BudgetedTyped ==
    ASSUME NEW s \in Sheets, NEW m \in Months
    PROVE  SumFunction(s.amount[m]) \in Int
<1> DEFINE f == s.amount[m]
<1>1. f \in [Cells -> Int]
  BY DEF Sheets
<1> HIDE DEF f
<1>2. \A x \in Cells : f[x] \in Int
  BY <1>1
<1>3. SumFunctionOnSet(f, Cells) \in Int
  BY <1>2, BudgetFacts, SumFolds
<1>4. SumFunction(f) = SumFunctionOnSet(f, Cells)
  BY <1>1 DEF SumFunction
<1> QED
  BY <1>3, <1>4 DEF f

LEMMA HoldFacts ==
    ASSUME BudgetTypeOK, NEW m \in Months, NEW n \in Int, n > 0, NEW h, h \in HoldOnce(m, n)
    PROVE  /\ h \in [Months -> Nat] /\ ToBudget(m) \in Int
           /\ \/ h = held
              \/ /\ ToBudget(m) > 0
                 /\ h = [held EXCEPT ![m] = @ + IF n <= ToBudget(m) THEN n ELSE ToBudget(m)]
<1> DEFINE left == ToBudget(m)
<1>1. Budgeted(m) \in Int
  BY BudgetedTyped DEF BudgetTypeOK, Budgeted
<1>2. Funds[m] \in Int /\ held[m] \in Nat /\ (m - 1 \in Months => held[m - 1] \in Nat)
  BY BudgetFacts DEF BudgetTypeOK
<1>3. left \in Int
  BY <1>1, <1>2 DEF ToBudget
<1>4. h = HoldIn(held, m, n)
  BY DEF HoldOnce
<1> HIDE DEF left
<1>5. left - (held[m] - held[m]) = left
  BY <1>2, <1>3
<1>6. h = IF left <= 0 THEN held ELSE [held EXCEPT ![m] = @ + (IF n <= left THEN n ELSE left)]
  BY <1>4, <1>5 DEF HoldIn, left
<1>7. held \in [Months -> Nat]
  BY DEF BudgetTypeOK
<1>8. CASE left <= 0
  BY <1>3, <1>6, <1>7, <1>8 DEF left
<1>9. CASE ~(left <= 0)
  <2>1. held[m] + (IF n <= left THEN n ELSE left) \in Nat
    BY <1>2, <1>3, <1>9
  <2>2. h \in [Months -> Nat]
    BY <1>6, <1>7, <1>9, <2>1
  <2>3. left > 0
    BY <1>3, <1>9
  <2> QED
    BY <1>3, <1>6, <1>9, <2>2, <2>3 DEF left
<1> QED
  BY <1>8, <1>9

(* Every operation keeps the types.                                        *)
LEMMA SaysTyped ==
    ASSUME NEW word, Says(word), word \in {"none", "done", "refused", "failed", "full", "partial"}
    PROVE  /\ answer'.said \in {"none", "done", "refused", "failed", "full", "partial"}
           /\ answer'.held \in Int
  BY DEF Says

LEMMA AsksTyped ==
    ASSUME BudgetTypeOK, NEW tool, NEW in, Asks(tool, in)
    PROVE  /\ calls' \in 0..MaxCalls /\ calls' = calls + 1
           /\ calls' # calls
           /\ asked'.tool = tool /\ asked'.in = in
<1>1. calls \in 0..MaxCalls /\ calls < MaxCalls /\ MaxCalls \in Nat
  BY BudgetFacts DEF BudgetTypeOK, Asks, BudgetIdle
<1> QED
  BY <1>1 DEF Asks

(* A batch, whatever fails in it, leaves a sheet.                          *)
LEMMA BatchFacts ==
    ASSUME BudgetTypeOK, BatchUpdates
    PROVE  \E ops \in Batches, n \in 1..MaxAttempts : \E reach \in [1..n -> [DOMAIN ops -> Reach]] :
               /\ ops \in Seq(BatchOps) /\ n \in Nat \ {0}
               /\ \A k \in 1..n : \A i \in DOMAIN ops : Possible(ops[i], reach[k][i])
               /\ Asks("batch", ops) /\ sheet' = Attempts(sheet, ops, reach)
               /\ \/ Says(IF BatchOk(reach, ops) THEN "done" ELSE "partial")
                  \/ Says("failed")
               /\ UNCHANGED held
<1>1. PICK ops \in Batches : \E n \in 1..MaxAttempts :
        \E reach \in [1..n -> [DOMAIN ops -> Reach]] :
            /\ \A k \in 1..n : \A i \in DOMAIN ops : Possible(ops[i], reach[k][i])
            /\ Asks("batch", ops)
            /\ sheet' = Attempts(sheet, ops, reach)
            /\ \/ Says(IF BatchOk(reach, ops) THEN "done" ELSE "partial")
               \/ n = MaxAttempts /\ Says("failed")
            /\ UNCHANGED held
  BY DEF BatchUpdates, Attempts
<1>2. ops \in Seq(BatchOps) /\ \A n \in 1..MaxAttempts : n \in Nat \ {0}
  BY BudgetFacts
<1> QED
  BY <1>1, <1>2

LEMMA TransferFacts ==
    ASSUME BudgetTypeOK, NEW in \in TransferRequests, TransferAllowed(in)
    PROVE  LET prev == sheet.amount[in.month]
               less == SetIn(sheet, in.month, in.from, prev[in.from] - in.amount)
               both == SetIn(less, in.month, in.to, prev[in.to] + in.amount)
           IN /\ less \in Sheets /\ both \in Sheets
              /\ \A x \in Months \cup {Outside}, y \in Cells :
                     both.amount[x][y] = IF x = in.month /\ y = in.to THEN prev[in.to] + in.amount
                                         ELSE IF x = in.month /\ y = in.from
                                         THEN prev[in.from] - in.amount
                                         ELSE sheet.amount[x][y]
<1> DEFINE prev == sheet.amount[in.month]
           out == prev[in.from] - in.amount
           got == prev[in.to] + in.amount
           less == SetIn(sheet, in.month, in.from, out)
           both == SetIn(less, in.month, in.to, got)
<1>1. /\ in.month \in Months \cup {Outside} /\ in.from \in Cells /\ in.to \in Cells
      /\ in.amount \in Int /\ sheet \in Sheets
  BY BudgetFacts DEF TransferRequests, TransferAllowed, BudgetTypeOK
<1>2. prev[in.from] \in Int /\ prev[in.to] \in Int
  BY <1>1 DEF Sheets
<1>3. out \in Int /\ got \in Int
  BY <1>1, <1>2
<1> HIDE DEF out, got
<1>4. /\ less \in Sheets
      /\ \A x \in Months \cup {Outside}, y \in Cells :
             less.amount[x][y] = IF x = in.month /\ y = in.from THEN out ELSE sheet.amount[x][y]
  BY <1>1, <1>3, SetInTyped
<1> HIDE DEF less
<1>5. /\ both \in Sheets
      /\ \A x \in Months \cup {Outside}, y \in Cells :
             both.amount[x][y] = IF x = in.month /\ y = in.to THEN got ELSE less.amount[x][y]
  BY <1>1, <1>3, <1>4, SetInTyped
<1> HIDE DEF both
<1>6. \A x \in Months \cup {Outside}, y \in Cells :
          both.amount[x][y] = IF x = in.month /\ y = in.to THEN got
                              ELSE IF x = in.month /\ y = in.from THEN out
                              ELSE sheet.amount[x][y]
  BY <1>4, <1>5
<1> QED
  BY <1>4, <1>5, <1>6 DEF less, both, out, got

LEMMA BudgetTypeKeeps ==
    ASSUME BudgetTypeOK, [BudgetNext]_budgetVars
    PROVE  BudgetTypeOK'
<1>1. sheet \in Sheets /\ held \in [Months -> Nat] /\ calls \in 0..MaxCalls
  BY DEF BudgetTypeOK
<1>2. CASE Settled
  BY <1>1, <1>2 DEF Settled, BudgetTypeOK
<1>3. CASE SetBudgetAmount
  <2>1. PICK m \in Months \cup {Outside}, c \in Cells \cup {Ghost}, n \in Sums :
            /\ Asks("setAmount", [month |-> m, cell |-> c, amount |-> n])
            /\ sheet' \in {sheet, SetIn(sheet, m, c, n)} /\ UNCHANGED held
            /\ Says("done") \/ Says("failed") \/ Says("refused")
    BY <1>3 DEF SetBudgetAmount, Refused
  <2>2. SetIn(sheet, m, c, n) \in Sheets
    BY <1>1, BudgetFacts, SetInTyped
  <2>3. calls' \in 0..MaxCalls
    BY <2>1, AsksTyped
  <2> QED
    BY <1>1, <2>1, <2>2, <2>3, SaysTyped DEF BudgetTypeOK
<1>4. CASE SetCarryover
  <2>1. PICK m \in Months \cup {Outside}, c \in Cells \cup {Ghost}, flag \in BOOLEAN :
            /\ Asks("setCarryover", [month |-> m, cell |-> c])
            /\ sheet' \in {sheet, CarryIn(sheet, m, c, flag)} /\ UNCHANGED held
            /\ Says("done") \/ Says("failed")
    BY <1>4 DEF SetCarryover
  <2>2. CarryIn(sheet, m, c, flag) \in Sheets
    BY <1>1, CarryInTyped
  <2>3. calls' \in 0..MaxCalls
    BY <2>1, AsksTyped
  <2> QED
    BY <1>1, <2>1, <2>2, <2>3, SaysTyped DEF BudgetTypeOK
<1>5. CASE TransferBudget
  <2>1. PICK in \in TransferRequests :
            /\ Asks("transfer", in) /\ UNCHANGED held
            /\ \/ sheet' = sheet
               \/ /\ TransferAllowed(in)
                  /\ LET prev == sheet.amount[in.month]
                         less == SetIn(sheet, in.month, in.from, prev[in.from] - in.amount)
                         both == SetIn(less, in.month, in.to, prev[in.to] + in.amount)
                     IN  sheet' \in {sheet, less, both}
            /\ Says("done") \/ Says("failed") \/ Says("refused")
    BY <1>5 DEF TransferBudget, Refused
  <2> DEFINE prev == sheet.amount[in.month]
             less == SetIn(sheet, in.month, in.from, prev[in.from] - in.amount)
             both == SetIn(less, in.month, in.to, prev[in.to] + in.amount)
  <2>2. sheet' \in Sheets
    <3>1. sheet' = sheet \/ (TransferAllowed(in) /\ sheet' \in {sheet, less, both})
      BY <2>1
    <3>2. TransferAllowed(in) => less \in Sheets /\ both \in Sheets
      BY TransferFacts
    <3> HIDE DEF less, both
    <3> QED
      BY <1>1, <3>1, <3>2
  <2>3. calls' \in 0..MaxCalls
    BY <2>1, AsksTyped
  <2> QED
    BY <1>1, <2>1, <2>2, <2>3, SaysTyped DEF BudgetTypeOK
<1>6. CASE BatchUpdates
  <2>1. PICK ops \in Batches, n \in 1..MaxAttempts : \E reach \in [1..n -> [DOMAIN ops -> Reach]] :
            /\ ops \in Seq(BatchOps) /\ n \in Nat \ {0}
            /\ Asks("batch", ops) /\ sheet' = Attempts(sheet, ops, reach)
            /\ Says("done") \/ Says("partial") \/ Says("failed")
            /\ UNCHANGED held
    BY <1>6, BatchFacts
  <2>2. sheet' \in Sheets
    BY <1>1, <2>1, AttemptsTyped
  <2>3. calls' \in 0..MaxCalls
    BY <2>1, AsksTyped
  <2> QED
    BY <1>1, <2>1, <2>2, <2>3, SaysTyped DEF BudgetTypeOK
<1>7. CASE HoldForNextMonth
  <2>1. PICK m \in Months, n \in {x \in Sums : x > 0} :
            /\ Asks("hold", [month |-> m, amount |-> n]) /\ UNCHANGED sheet
            /\ \/ held' \in HoldOnce(m, n) /\ answer' = HoldAnswer(held'[m] - held[m], n)
               \/ held' \in {held} \cup HoldOnce(m, n) /\ Says("failed")
    BY <1>7 DEF HoldForNextMonth
  <2>2. n \in Int /\ n > 0
    BY BudgetFacts
  <2>3. held' \in [Months -> Nat]
    BY <1>1, <2>1, <2>2, HoldFacts
  <2>4. held'[m] - held[m] \in Int
    BY <1>1, <2>3
  <2>5. calls' \in 0..MaxCalls
    BY <2>1, AsksTyped
  <2>6. /\ answer'.said \in {"none", "done", "refused", "failed", "full", "partial"}
        /\ answer'.held \in Int
    BY <2>1, <2>4, SaysTyped DEF HoldAnswer
  <2> QED
    BY <1>1, <2>1, <2>3, <2>5, <2>6 DEF BudgetTypeOK
<1>8. CASE ResetHold
  <2>1. PICK m \in Months :
            /\ Asks("resetHold", [month |-> m]) /\ UNCHANGED sheet
            /\ held' \in {held, [held EXCEPT ![m] = 0]}
            /\ Says("done") \/ Says("failed")
    BY <1>8 DEF ResetHold
  <2>2. calls' \in 0..MaxCalls
    BY <2>1, AsksTyped
  <2> QED
    BY <1>1, <2>1, <2>2, SaysTyped DEF BudgetTypeOK
<1>9. CASE UNCHANGED budgetVars
  BY <1>9 DEF budgetVars, BudgetTypeOK
<1> QED
  BY <1>2, <1>3, <1>4, <1>5, <1>6, <1>7, <1>8, <1>9 DEF BudgetNext

(* The state of the budget keeps its types.                                *)
THEOREM BudgetTyped == BudgetSpec => []BudgetTypeOK
<1>1. BudgetInit => BudgetTypeOK
  BY BudgetFacts DEF BudgetInit, BudgetTypeOK, Sheets
<1>2. BudgetTypeOK /\ [BudgetNext]_budgetVars => BudgetTypeOK'
  BY BudgetTypeKeeps
<1> QED
  BY <1>1, <1>2, PTL DEF BudgetSpec

\* The tool of each action.
LEMMA BudgetTool ==
    ASSUME BudgetTypeOK, [BudgetNext]_budgetVars, calls' # calls
    PROVE  /\ asked'.tool = "transfer" => TransferBudget
           /\ asked'.tool = "batch" => BatchUpdates
           /\ asked'.tool = "hold" => HoldForNextMonth
<1>1. ~Settled /\ ~UNCHANGED budgetVars
  BY DEF Settled, budgetVars
<1>2. SetBudgetAmount => asked'.tool = "setAmount"
  BY AsksTyped DEF SetBudgetAmount
<1>3. SetCarryover => asked'.tool = "setCarryover"
  BY AsksTyped DEF SetCarryover
<1>4. TransferBudget => asked'.tool = "transfer"
  BY AsksTyped DEF TransferBudget
<1>5. BatchUpdates => asked'.tool = "batch"
  BY AsksTyped DEF BatchUpdates
<1>6. HoldForNextMonth => asked'.tool = "hold"
  BY AsksTyped DEF HoldForNextMonth
<1>7. ResetHold => asked'.tool = "resetHold"
  BY AsksTyped DEF ResetHold
<1> QED
  BY <1>1, <1>2, <1>3, <1>4, <1>5, <1>6, <1>7 DEF BudgetNext

\* A sheet in which month m has the amounts f instead of the amounts of s, moved from one
\* category to another.
LEMMA TransferKeepsTotals ==
    ASSUME BudgetTypeOK, NEW in \in TransferRequests, TransferAllowed(in), NEW t \in Sheets,
           \A x \in Months \cup {Outside}, y \in Cells :
               t.amount[x][y] = IF x = in.month /\ y = in.to
                                THEN sheet.amount[in.month][in.to] + in.amount
                                ELSE IF x = in.month /\ y = in.from
                                THEN sheet.amount[in.month][in.from] - in.amount
                                ELSE sheet.amount[x][y],
           NEW m \in Months
    PROVE  SumFunction(t.amount[m]) = SumFunction(sheet.amount[m])
<1> DEFINE f == sheet.amount[m]
           g == t.amount[m]
<1>1. f \in [Cells -> Int] /\ g \in [Cells -> Int]
  BY DEF BudgetTypeOK, Sheets
<1>2. in.from \in Cells /\ in.to \in Cells /\ in.from # in.to /\ in.amount \in Int
  BY BudgetFacts DEF TransferRequests, TransferAllowed
<1>3. m # in.month => \A y \in Cells : g[y] = f[y]
  OBVIOUS
<1>4. m = in.month => /\ g[in.to] = f[in.to] + in.amount /\ g[in.from] = f[in.from] - in.amount
                      /\ \A y \in Cells \ {in.from, in.to} : g[y] = f[y]
  BY <1>2
<1> HIDE DEF f, g
<1>5. SumFunctionOnSet(g, Cells) = SumFunctionOnSet(f, Cells)
  <2>1. (\A x \in Cells : f[x] \in Int) /\ (\A x \in Cells : g[x] \in Int)
    BY <1>1
  <2>2. CASE m # in.month
    BY <1>3, <2>1, <2>2, BudgetFacts, SumSame
  <2>3. CASE m = in.month
    <3> DEFINE a == in.from
               b == in.to
    <3>1. a \in Cells /\ b \in Cells /\ a # b
      BY <1>2
    <3>2. g[a] + g[b] = f[a] + f[b]
      <4>1. f[a] \in Int /\ f[b] \in Int
        BY <2>1, <3>1
      <4> QED
        BY <1>2, <1>4, <2>3, <4>1
    <3>3. \A y \in Cells \ {a, b} : g[y] = f[y]
      BY <1>4, <2>3
    <3> HIDE DEF a, b
    <3> QED
      BY <2>1, <3>1, <3>2, <3>3, BudgetFacts, SumMoves
  <2> QED
    BY <2>2, <2>3
<1>6. SumFunction(g) = SumFunctionOnSet(g, Cells) /\ SumFunction(f) = SumFunctionOnSet(f, Cells)
  BY <1>1 DEF SumFunction
<1> QED
  BY <1>5, <1>6 DEF f, g

(* A transfer that reports success leaves the total of every month as it   *)
(* was, for whatever categories and amounts, and takes from the source no  *)
(* more than it had.                                                       *)
THEOREM BudgetMoneyConserved == BudgetSpec => MoneyConserved
<1> DEFINE Moved == calls' # calls /\ asked'.tool = "transfer" /\ answer'.said = "done"
           Conserved ==
               LET in == asked'.in
               IN /\ \A m \in Months : Budgeted(m)' = Budgeted(m)
                  /\ sheet.amount[in.month][in.from] - sheet'.amount[in.month][in.from] = in.amount
                  /\ sheet'.amount[in.month][in.from] >= 0
<1>1. ASSUME BudgetTypeOK, [BudgetNext]_budgetVars, Moved
      PROVE  Conserved
  <2>1. TransferBudget
    BY <1>1, BudgetTool
  <2>2. PICK in \in TransferRequests :
            /\ Asks("transfer", in)
            /\ IF ~TransferAllowed(in) THEN Refused
               ELSE LET prev == sheet.amount[in.month]
                        less == SetIn(sheet, in.month, in.from, prev[in.from] - in.amount)
                        both == SetIn(less, in.month, in.to, prev[in.to] + in.amount)
                    IN  (Says("done") /\ sheet' = both) \/ Says("failed")
    BY <2>1 DEF TransferBudget
  <2>3. asked'.in = in
    BY <1>1, <2>2, AsksTyped
  <2>4. ~Says("failed") /\ ~Refused
    BY <1>1 DEF Says, Refused
  <2>5. /\ TransferAllowed(in)
        /\ LET prev == sheet.amount[in.month]
               less == SetIn(sheet, in.month, in.from, prev[in.from] - in.amount)
               both == SetIn(less, in.month, in.to, prev[in.to] + in.amount)
           IN  sheet' = both
    BY <2>2, <2>4
  <2>6. /\ sheet' \in Sheets
        /\ \A x \in Months \cup {Outside}, y \in Cells :
               sheet'.amount[x][y] = IF x = in.month /\ y = in.to
                                     THEN sheet.amount[in.month][in.to] + in.amount
                                     ELSE IF x = in.month /\ y = in.from
                                     THEN sheet.amount[in.month][in.from] - in.amount
                                     ELSE sheet.amount[x][y]
    BY <1>1, <2>5, TransferFacts
  <2>7. \A m \in Months : Budgeted(m)' = Budgeted(m)
    BY <1>1, <2>5, <2>6, TransferKeepsTotals DEF Budgeted
  <2>8. /\ in.month \in Months /\ in.from \in Cells /\ in.from # in.to /\ in.amount \in Int
        /\ sheet.amount[in.month][in.from] >= in.amount
    BY <2>5, BudgetFacts DEF TransferRequests, TransferAllowed
  <2>9. sheet.amount[in.month][in.from] \in Int
    BY <1>1, <2>8 DEF BudgetTypeOK, Sheets
  <2>10. sheet'.amount[in.month][in.from] = sheet.amount[in.month][in.from] - in.amount
    BY <2>6, <2>8
  <2> QED
    BY <2>3, <2>7, <2>8, <2>9, <2>10
<1>2. BudgetTypeOK /\ [BudgetNext]_budgetVars => [Moved => Conserved]_budgetVars
  BY <1>1
<1>3. BudgetSpec => [][Moved => Conserved]_budgetVars
  <2> HIDE DEF Moved, Conserved
  <2> QED
    BY <1>2, BudgetTyped, PTL DEF BudgetSpec
<1> QED
  BY <1>3 DEF MoneyConserved

\* A hold leaves what is left above zero.
LEMMA HoldLeaves ==
    ASSUME BudgetTypeOK, NEW m \in Months, NEW n \in Int, n > 0,
           held' \in HoldOnce(m, n), UNCHANGED sheet
    PROVE  LET got == held'[m] - held[m]
           IN /\ got \in Int /\ got <= n
              /\ got > 0 => ToBudget(m)' >= 0
<1> DEFINE got == held'[m] - held[m]
           left == ToBudget(m)
           carried == IF m - 1 \in Months THEN held[m - 1] ELSE 0
<1>1. /\ held' \in [Months -> Nat] /\ left \in Int
      /\ \/ held' = held
         \/ /\ left > 0
            /\ held' = [held EXCEPT ![m] = @ + IF n <= left THEN n ELSE left]
  <2> DEFINE h == held'
  <2>1. h \in HoldOnce(m, n)
    OBVIOUS
  <2> QED
    BY <2>1, HoldFacts
<1>2. Budgeted(m) \in Int
  BY BudgetedTyped DEF BudgetTypeOK, Budgeted
<1>3. /\ Funds[m] \in Int /\ held[m] \in Nat /\ m \in Nat
      /\ carried \in Int /\ held \in [Months -> Nat]
  BY BudgetFacts DEF BudgetTypeOK
<1>4. left = Funds[m] + carried - Budgeted(m) - held[m]
  BY DEF ToBudget
<1>5. Budgeted(m)' = Budgeted(m)
  BY DEF Budgeted
<1>6. m - 1 \in Months => held'[m - 1] = held[m - 1]
  <2>1. m - 1 # m
    BY <1>3
  <2> QED
    BY <1>1, <1>3, <2>1
<1>7. ToBudget(m)' = Funds[m] + carried - Budgeted(m) - held'[m]
  BY <1>5, <1>6 DEF ToBudget
<1> HIDE DEF left, carried
<1>8. CASE held' = held
  BY <1>3, <1>8
<1>9. CASE left > 0 /\ held' = [held EXCEPT ![m] = @ + IF n <= left THEN n ELSE left]
  <2>1. held'[m] = held[m] + IF n <= left THEN n ELSE left
    BY <1>3, <1>9
  <2>2. got = IF n <= left THEN n ELSE left
    BY <1>1, <1>3, <2>1
  <2>3. ToBudget(m)' = left - got
    BY <1>1, <1>2, <1>3, <1>4, <1>7, <2>1, <2>2
  <2> QED
    BY <1>1, <2>2, <2>3
<1> QED
  BY <1>1, <1>8, <1>9

(* A batch that reports success has applied every operation, amount and    *)
(* carryover, the last one where two meet, however many attempts and       *)
(* operations there were, but for amounts of a category that does not      *)
(* exist; a hold that reports money reports what it held, and leaves the   *)
(* month above zero.                                                       *)
THEOREM BudgetAnswers == BudgetSpec => BudgetAnswersHold
<1> DEFINE Batched ==
               (asked'.tool = "batch" /\ answer'.said = "done") => Applied(sheet', asked'.in)
           Held ==
               (asked'.tool = "hold" /\ answer'.said \in {"full", "partial"}) =>
               LET in == asked'.in
               IN /\ answer'.held = held'[in.month] - held[in.month]
                  /\ answer'.held \in 1..in.amount
                  /\ answer'.said = "full" <=> answer'.held = in.amount
                  /\ \A m \in Months : m = in.month => ToBudget(m)' >= 0
           Truthful ==
               calls' # calls =>
               /\ (asked'.tool = "batch" /\ answer'.said = "done") => Applied(sheet', asked'.in)
               /\ (asked'.tool = "hold" /\ answer'.said \in {"full", "partial"}) =>
                     LET in == asked'.in
                     IN /\ answer'.held = held'[in.month] - held[in.month]
                        /\ answer'.held \in 1..in.amount
                        /\ answer'.said = "full" <=> answer'.held = in.amount
                        /\ \A m \in Months : m = in.month => ToBudget(m)' >= 0
<1>1. ASSUME BudgetTypeOK, [BudgetNext]_budgetVars, calls' # calls
      PROVE  Batched
  <2> SUFFICES ASSUME asked'.tool = "batch", answer'.said = "done"
               PROVE  Applied(sheet', asked'.in)
    OBVIOUS
  <2>1. BatchUpdates
    BY <1>1, BudgetTool
  <2>2. PICK ops \in Batches, n \in 1..MaxAttempts :
            \E reach \in [1..n -> [DOMAIN ops -> Reach]] :
               /\ ops \in Seq(BatchOps) /\ n \in Nat \ {0}
               /\ \A k \in 1..n : \A i \in DOMAIN ops : Possible(ops[i], reach[k][i])
               /\ Asks("batch", ops) /\ sheet' = Attempts(sheet, ops, reach)
               /\ \/ Says(IF BatchOk(reach, ops) THEN "done" ELSE "partial")
                  \/ Says("failed")
    BY <1>1, <2>1, BatchFacts
  <2>3. PICK reach \in [1..n -> [DOMAIN ops -> Reach]] :
               /\ \A k \in 1..n : \A i \in DOMAIN ops : Possible(ops[i], reach[k][i])
               /\ Asks("batch", ops) /\ sheet' = Attempts(sheet, ops, reach)
               /\ \/ Says(IF BatchOk(reach, ops) THEN "done" ELSE "partial")
                  \/ Says("failed")
    BY <2>2
  <2>4. BatchOk(reach, ops)
    BY <2>3 DEF Says
  <2>5. asked'.in = ops
    BY <1>1, <2>3, AsksTyped
  <2>6. sheet \in Sheets /\ DOMAIN reach = 1..n
    BY <1>1 DEF BudgetTypeOK
  <2>7. Applied(Attempts(sheet, ops, reach), ops)
    BY <2>2, <2>3, <2>4, <2>6, AttemptsApplied
  <2> QED
    BY <2>3, <2>5, <2>7
<1>2. ASSUME BudgetTypeOK, [BudgetNext]_budgetVars, calls' # calls
      PROVE  Held
  <2> SUFFICES ASSUME asked'.tool = "hold", answer'.said \in {"full", "partial"}
               PROVE  LET in == asked'.in
                      IN /\ answer'.held = held'[in.month] - held[in.month]
                         /\ answer'.held \in 1..in.amount
                         /\ answer'.said = "full" <=> answer'.held = in.amount
                         /\ \A m \in Months : m = in.month => ToBudget(m)' >= 0
    OBVIOUS
  <2>1. HoldForNextMonth
    BY <1>2, BudgetTool
  <2>2. PICK m \in Months, n \in {x \in Sums : x > 0} :
            /\ Asks("hold", [month |-> m, amount |-> n]) /\ UNCHANGED sheet
            /\ \/ held' \in HoldOnce(m, n) /\ answer' = HoldAnswer(held'[m] - held[m], n)
               \/ Says("failed")
    BY <2>1 DEF HoldForNextMonth
  <2>3. held' \in HoldOnce(m, n) /\ answer' = HoldAnswer(held'[m] - held[m], n)
    BY <2>2 DEF Says
  <2>4. asked'.in = [month |-> m, amount |-> n]
    BY <1>2, <2>2, AsksTyped
  <2>5. n \in Int /\ n > 0
    BY BudgetFacts
  <2> DEFINE got == held'[m] - held[m]
  <2>6. got \in Int /\ got <= n /\ (got > 0 => ToBudget(m)' >= 0)
    BY <1>2, <2>2, <2>3, <2>5, HoldLeaves
  <2> HIDE DEF got
  <2>7. /\ answer'.held = got /\ got > 0
        /\ answer'.said = "full" <=> got = n
    <3>1. answer' = HoldAnswer(got, n)
      BY <2>3 DEF got
    <3> QED
      BY <2>5, <2>6, <3>1 DEF HoldAnswer
  <2>8. \A x \in Months : x = m => ToBudget(x)' >= 0
    BY <2>6, <2>7
  <2> QED
    BY <2>4, <2>5, <2>6, <2>7, <2>8 DEF got
<1>3. BudgetTypeOK /\ [BudgetNext]_budgetVars => [Truthful]_budgetVars
  BY <1>1, <1>2
<1>4. BudgetSpec => [][Truthful]_budgetVars
  <2> HIDE DEF Truthful
  <2> QED
    BY <1>3, BudgetTyped, PTL DEF BudgetSpec
<1> QED
  BY <1>4 DEF BudgetAnswersHold

-----------------------------------------------------------------------------
(***************************************************************************)
(* BudgetAcl.  Access is bounded by what was granted, and cached answers   *)
(* only advance, for any number of subjects, names, budgets, sessions and  *)
(* requests and for any lifetimes and time-outs.                           *)
(***************************************************************************)
USE AclAssumption

\* What holds now has not lapsed.
Remembered == \A f \in Facts : HoldsNow(f) => lapse[f] = 0

\* A usable cached answer was true not much longer ago than it is old.
NameFresh(c, s, lp) ==
    c.age < CacheTtl => c.name \in Names /\ lp[<<s, c.name>>] <= c.age + MaxFetch
AllowanceFresh(c, n, lp) ==
    c.age < CacheTtl => \A b \in c.allowed : lp[<<n, b>>] <= c.age + MaxRead
CachesFresh ==
    /\ \A s \in Subjects : NameFresh(names[s], s, lapse)
    /\ \A n \in Names : AllowanceFresh(allowances[n], n, lapse)

\* A request knows what its phase says it knows, and knows it from recently.
Identifying(q) ==
    /\ setup.source # "static" /\ setup.identity # "token" /\ setup.bound[q.subject] = NoName
    /\ q.age <= MaxFetch
Named(q) == setup.source # "static" /\ q.name \in Names /\ q.name \in q.known
RequestOK(q, lp) ==
    q # NoRequest =>
    /\ ~q.behind
    /\ q.phase \in {"asking", "replied"} => Identifying(q)
    /\ q.phase = "replied" /\ q.name # NoName => lp[<<q.subject, q.name>>] <= q.age
    /\ q.phase \in {"waiting", "listing", "listed"} => Named(q)
    /\ q.phase \in {"listing", "listed"} => q.age <= MaxRead
    /\ q.phase = "listed" => \A b \in q.allowed : lp[<<q.name, b>>] <= q.age
    /\ q.phase \in {"authorised", "queued"} => q.allowed \subseteq q.recent
    /\ q.phase = "ran" /\ ~q.cleared => q.ran \in q.recent
RequestsOK == \A r \in Flights : RequestOK(flight[r], lapse)

\* One request lists at a time.
OneLister == \A r \in Flights : flight[r].phase \in {"listing", "listed"} => lister = r

\* The budget a queued operation will find is one its request may use.
WillRunOn(sl) == IF sl = NoBudget THEN FirstBudget ELSE sl
QueueOK(q, sl) == q.phase = "queued" /\ ~q.cleared => WillRunOn(sl) \in q.recent
Queued == \A r \in Flights : QueueOK(flight[r], slot[flight[r].session])

AclInv ==
    /\ AclTypeOK /\ Remembered /\ CachesFresh
    /\ RequestsOK /\ OneLister /\ Queued

-----------------------------------------------------------------------------
(* Lemmas                                                                  *)

LEMMA Numbers ==
    /\ Horizon \in Nat /\ CacheTtl + MaxFetch < Horizon /\ CacheTtl + MaxRead < Horizon
    /\ \A n \in 0..Horizon : Older(n) \in 0..Horizon /\ Older(n) <= n + 1
  BY DEF Horizon, Older

LEMMA RequestShape ==
    ASSUME NEW q \in Requests
    PROVE  /\ q # NoRequest /\ q.phase # "none"
           /\ q.session \in AclSessions /\ q.subject \in Subjects
           /\ q.name \in Names \cup {NoName} /\ q.known \subseteq Names
           /\ q.allowed \subseteq Budgets /\ q.recent \subseteq Budgets
           /\ q.age \in 0..(MaxFetch + MaxRead) /\ q.ran \in Budgets \cup {NoBudget}
<1>1. q.phase # "none"
  BY DEF Requests
<1>2. NoRequest.phase = "none"
  BY DEF NoRequest
<1> QED
  BY <1>1, <1>2 DEF Requests

LEMMA FlightShape ==
    ASSUME AclTypeOK, NEW r \in Flights, flight[r].phase # "none"
    PROVE  flight[r] \in Requests
  BY DEF AclTypeOK, NoRequest

(* What fades stays fresh: a request or a cached answer that was fresh is  *)
(* fresh when facts have been true since (no clock tick).                  *)
LEMMA Fading ==
    ASSUME NEW lp \in [Facts -> 0..Horizon], NEW lq \in [Facts -> 0..Horizon],
           \A f \in Facts : lq[f] <= lp[f]
    PROVE  /\ \A q \in Requests \cup {NoRequest} : RequestOK(q, lp) => RequestOK(q, lq)
           /\ \A s \in Subjects, c \in [name : Names \cup {NoName}, age : 0..CacheTtl] :
                  NameFresh(c, s, lp) => NameFresh(c, s, lq)
           /\ \A n \in Names, c \in [allowed : SUBSET Budgets, age : 0..CacheTtl] :
                  AllowanceFresh(c, n, lp) => AllowanceFresh(c, n, lq)
<1>0. Horizon \in Nat
  BY Numbers
<1>1. ASSUME NEW q \in Requests \cup {NoRequest}, RequestOK(q, lp)
      PROVE  RequestOK(q, lq)
  <2> SUFFICES ASSUME q # NoRequest PROVE RequestOK(q, lq)
    BY DEF RequestOK
  <2>1. q \in Requests
    OBVIOUS
  <2>2. ASSUME q.phase = "replied", q.name # NoName
        PROVE  lq[<<q.subject, q.name>>] <= q.age
    <3>1. <<q.subject, q.name>> \in Facts
      BY <2>1, <2>2, RequestShape DEF Facts
    <3>2. lp[<<q.subject, q.name>>] <= q.age /\ q.age \in Nat
      BY <1>1, <2>1, <2>2, RequestShape DEF RequestOK
    <3> QED
      BY <1>0, <3>1, <3>2
  <2>3. ASSUME q.phase = "listed", NEW b \in q.allowed
        PROVE  lq[<<q.name, b>>] <= q.age
    <3>1. <<q.name, b>> \in Facts
      BY <1>1, <2>1, <2>3, RequestShape DEF Facts, RequestOK, Named
    <3>2. lp[<<q.name, b>>] <= q.age /\ q.age \in Nat
      BY <1>1, <2>1, <2>3, RequestShape DEF RequestOK
    <3> QED
      BY <1>0, <3>1, <3>2
  <2> QED
    BY <1>1, <2>2, <2>3 DEF RequestOK
<1>2. ASSUME NEW s \in Subjects, NEW c \in [name : Names \cup {NoName}, age : 0..CacheTtl],
             NameFresh(c, s, lp)
      PROVE  NameFresh(c, s, lq)
  BY <1>0, <1>2 DEF NameFresh, Facts
<1>3. ASSUME NEW n \in Names, NEW c \in [allowed : SUBSET Budgets, age : 0..CacheTtl],
             AllowanceFresh(c, n, lp)
      PROVE  AllowanceFresh(c, n, lq)
  BY <1>0, <1>3 DEF AllowanceFresh, Facts
<1> QED
  BY <1>1, <1>2, <1>3

(* A verdict carries no more than what was granted recently (budget-acl.ts, *)
(* resolveDynamicAcl).                                                      *)
LEMMA DecidedOK ==
    ASSUME AclTypeOK, NEW q \in Requests, ~q.behind,
           NEW allowed \in SUBSET Budgets, allowed \subseteq EntitledRecently(q)
    PROVE  /\ Decided(q, allowed) \in Requests \cup {NoRequest}
           /\ RequestOK(Decided(q, allowed), lapse)
           /\ Decided(q, allowed).phase \in {"none", "authorised"}
<1>1. EntitledRecently(q) \subseteq Budgets
  BY RequestShape DEF EntitledRecently, AclTypeOK, Setups
<1>2. CASE allowed = {}
  BY <1>2 DEF Decided, NoRequest, RequestOK
<1>3. CASE allowed # {}
  <2> DEFINE d == [q EXCEPT !.phase = "authorised", !.allowed = allowed,
                            !.recent = EntitledRecently(q)]
  <2>1. Decided(q, allowed) = d
    BY <1>3 DEF Decided
  <2>2. d \in Requests
    BY <1>1 DEF Requests
  <2>3. d.phase = "authorised" /\ d.allowed = allowed /\ d.recent = EntitledRecently(q)
        /\ d.behind = q.behind
    BY DEF Requests
  <2> QED
    BY <2>1, <2>2, <2>3 DEF RequestOK
<1> QED
  BY <1>2, <1>3

(* What a name is allowed that was granted recently enough.                *)
LEMMA RecentGrants ==
    ASSUME AclTypeOK, NEW q \in Requests, setup.source # "static",
           q.name \in Names, q.name \in q.known,
           NEW allowed \in SUBSET Budgets,
           \A b \in allowed : lapse[<<q.name, b>>] <= CacheTtl + MaxRead
    PROVE  allowed \subseteq EntitledRecently(q)
  BY DEF EntitledRecently, Within

(* A request whose name is known is denied, decided from the cache, or     *)
(* waits for a listing (budget-acl-dynamic.ts).                            *)
LEMMA ResolveOK ==
    ASSUME AclTypeOK, CachesFresh, NEW q \in Requests, ~q.behind, setup.source # "static",
           NEW n \in Names \cup {NoName}, n # NoName => n \in NamedRecently(q.subject)
    PROVE  /\ Resolve(q, n) \in Requests \cup {NoRequest}
           /\ RequestOK(Resolve(q, n), lapse)
           /\ Resolve(q, n).phase \in {"none", "authorised", "waiting"}
<1>1. CASE n = NoName
  BY <1>1 DEF Resolve, NoRequest, RequestOK
<1>2. CASE n # NoName
  <2> DEFINE known == NamedRecently(q.subject)
             named == [q EXCEPT !.name = n, !.known = known]
  <2>1. known \subseteq Names
    BY RequestShape DEF NamedRecently, AclTypeOK, Setups
  <2>2. named \in Requests
    BY <2>1 DEF Requests
  <2>3. named.name = n /\ named.known = known /\ ~named.behind
    BY DEF Requests
  <2>4. Resolve(q, n) = IF FreshAllowance(n) THEN Decided(named, allowances[n].allowed)
                        ELSE [named EXCEPT !.phase = "waiting"]
    BY <1>2 DEF Resolve
  <2> HIDE DEF named, known
  <2>5. CASE FreshAllowance(n)
    <3>1. n \in Names /\ allowances[n].allowed \in SUBSET Budgets
          /\ allowances[n].age \in 0..CacheTtl
      BY <1>2 DEF AclTypeOK
    <3>2. ASSUME NEW b \in allowances[n].allowed
          PROVE  lapse[<<n, b>>] <= CacheTtl + MaxRead
      <4>1. lapse[<<n, b>>] <= allowances[n].age + MaxRead
        BY <3>1, <2>5 DEF CachesFresh, AllowanceFresh, FreshAllowance
      <4>2. lapse[<<n, b>>] \in Nat
        BY <3>1, Numbers DEF AclTypeOK, Facts
      <4> QED
        BY <4>1, <4>2, <3>1
    <3>3. n \in known
      BY <1>2 DEF known
    <3>4. allowances[n].allowed \subseteq EntitledRecently(named)
      BY <3>1, <3>2, <3>3, <2>2, <2>3, RecentGrants
    <3> QED
      BY <2>2, <2>3, <2>4, <2>5, <3>1, <3>4, DecidedOK
  <2>6. CASE ~FreshAllowance(n)
    <3> DEFINE w == [named EXCEPT !.phase = "waiting"]
    <3>1. w \in Requests /\ w.phase = "waiting" /\ w.name = n /\ w.known = known /\ ~w.behind
      BY <2>2, <2>3 DEF Requests
    <3>2. n \in Names /\ n \in known
      BY <1>2 DEF known
    <3> HIDE DEF w
    <3>3. RequestOK(w, lapse)
      BY <3>1, <3>2 DEF RequestOK, Named
    <3>4. Resolve(q, n) = w
      BY <2>4, <2>6 DEF w
    <3> QED
      BY <3>1, <3>3, <3>4
  <2> QED
    BY <2>5, <2>6
<1> QED
  BY <1>1, <1>2

(* A step that gives one request its next state, while nothing else that   *)
(* matters to the others moves.                                            *)
LEMMA OneRequest ==
    ASSUME AclInv, NEW r \in Flights, NEW q \in Requests \cup {NoRequest},
           flight' = Set(r, q), RequestOK(q, lapse), q.phase # "queued",
           UNCHANGED <<setup, lapse, slot>>
    PROVE  flight' \in [Flights -> Requests \cup {NoRequest}] /\ RequestsOK' /\ Queued'
<1>1. /\ flight' \in [Flights -> Requests \cup {NoRequest}]
      /\ \A t \in Flights : flight'[t] = IF t = r THEN q ELSE flight[t]
  BY DEF AclInv, AclTypeOK, Set
<1>2. RequestsOK'
  <2>1. \A t \in Flights : RequestOK(flight'[t], lapse)
    BY <1>1 DEF AclInv, RequestsOK
  <2> QED
    BY <2>1 DEF RequestsOK, RequestOK, Identifying, Named
<1>3. Queued'
  <2>1. \A t \in Flights : t # r => QueueOK(flight[t], slot[flight[t].session])
    BY DEF AclInv, Queued
  <2> QED
    BY <1>1, <2>1 DEF Queued, QueueOK
<1> QED
  BY <1>1, <1>2, <1>3

\* What the steps of the middleware leave alone.
Rest == <<setup, granted, goesBy, lapse, slot, preferred>>

(* Nothing else moves but the lister and the caches: the other conjuncts.  *)
LEMMA RestKept ==
    ASSUME AclInv, UNCHANGED Rest,
           flight' \in [Flights -> Requests \cup {NoRequest}], RequestsOK', Queued', OneLister',
           lister' \in Flights \cup {Nobody}, events' \in 0..MaxEvents,
           names' \in [Subjects -> [name : Names \cup {NoName}, age : 0..CacheTtl]],
           \A s \in Subjects : NameFresh(names'[s], s, lapse),
           allowances' \in [Names -> [allowed : SUBSET Budgets, age : 0..CacheTtl]],
           \A n \in Names : AllowanceFresh(allowances'[n], n, lapse)
    PROVE  AclInv'
<1>1. AclTypeOK'
  BY DEF AclInv, AclTypeOK, Rest
<1>2. Remembered'
  BY DEF AclInv, Remembered, HoldsNow, Rest
<1>3. CachesFresh'
  BY DEF CachesFresh, NameFresh, AllowanceFresh, Rest
<1> QED
  BY <1>1, <1>2, <1>3 DEF AclInv


(* A step of one request that moves neither the lister nor the caches.     *)
LEMMA Steps ==
    ASSUME AclInv, NEW r \in Flights, NEW q \in Requests \cup {NoRequest},
           flight' = Set(r, q), RequestOK(q, lapse), q.phase # "queued",
           q.phase \in {"listing", "listed"} => lister = r,
           UNCHANGED Rest, UNCHANGED <<names, allowances, lister>>, events' \in 0..MaxEvents
    PROVE  AclInv'
<1>1. flight' \in [Flights -> Requests \cup {NoRequest}] /\ RequestsOK' /\ Queued'
  BY OneRequest DEF Rest
<1>2. OneLister'
  <2>1. \A t \in Flights : flight'[t] = IF t = r THEN q ELSE flight[t]
    BY DEF AclInv, AclTypeOK, Set
  <2> QED
    BY <2>1 DEF AclInv, OneLister
<1>3. /\ \A s \in Subjects : NameFresh(names'[s], s, lapse)
      /\ \A n \in Names : AllowanceFresh(allowances'[n], n, lapse)
  BY DEF AclInv, CachesFresh
<1> QED
  BY <1>1, <1>2, <1>3, RestKept DEF AclInv, AclTypeOK

(* What an arriving request becomes (budget-acl.ts, the identity sources). *)
LEMMA ArrivalOK ==
    ASSUME AclInv, NEW s \in AclSessions,
           NEW d, d = IF setup.source = "static" THEN AllowedByStaticMap(Arrival(s))
                      ELSE ResolvePrincipal(Arrival(s))
    PROVE  /\ d \in Requests \cup {NoRequest} /\ RequestOK(d, lapse)
           /\ d.phase \in {"none", "authorised", "waiting", "asking"}
<1> DEFINE q == Arrival(s)
<1>1. q \in Requests
  BY DEF Arrival, Requests
<1>2. ~q.behind /\ q.subject = OwnerOf[s] /\ q.age = 0
  BY DEF Arrival
<1>3. /\ setup.static[q.subject] \in SUBSET Budgets
      /\ setup.bound[q.subject] \in Names \cup {NoName}
      /\ setup.claim[q.subject] \in Names \cup {NoName}
      /\ setup.identity \in {"userinfo", "token"}
      /\ names[q.subject] \in [name : Names \cup {NoName}, age : 0..CacheTtl]
      /\ q.subject \in Subjects
  BY <1>2 DEF AclInv, AclTypeOK, Setups
<1> HIDE DEF q
<1>4. CASE setup.source = "static"
  <2>1. d = Decided(q, setup.static[q.subject])
    BY <1>4 DEF q, AllowedByStaticMap
  <2>2. setup.static[q.subject] \subseteq EntitledRecently(q)
    BY <1>4 DEF EntitledRecently
  <2> QED
    BY <1>1, <1>2, <1>3, <2>1, <2>2, DecidedOK DEF AclInv
<1>5. CASE setup.source # "static" /\ setup.bound[q.subject] # NoName
  <2>1. d = Resolve(q, setup.bound[q.subject])
    BY <1>5 DEF q, ResolvePrincipal, IdentifiedByMap
  <2>2. setup.bound[q.subject] \in NamedRecently(q.subject)
    BY <1>5 DEF NamedRecently
  <2> QED
    BY <1>1, <1>2, <1>3, <1>5, <2>1, <2>2, ResolveOK DEF AclInv
<1>6. CASE setup.source # "static" /\ setup.bound[q.subject] = NoName
           /\ setup.identity # "userinfo"
  <2>1. d = Resolve(q, setup.claim[q.subject])
    BY <1>6 DEF q, ResolvePrincipal, IdentifiedByToken
  <2>2. setup.claim[q.subject] # NoName => setup.claim[q.subject] \in NamedRecently(q.subject)
    BY <1>3, <1>6 DEF NamedRecently
  <2> QED
    BY <1>1, <1>2, <1>3, <1>6, <2>1, <2>2, ResolveOK DEF AclInv
<1>7. CASE setup.source # "static" /\ setup.bound[q.subject] = NoName
           /\ setup.identity = "userinfo"
  <2>1. d = IF names[q.subject].age < CacheTtl THEN Resolve(q, names[q.subject].name)
            ELSE [q EXCEPT !.phase = "asking"]
    BY <1>7 DEF q, ResolvePrincipal, IdentifiedByUserInfo
  <2>2. CASE names[q.subject].age < CacheTtl
    <3> DEFINE n == names[q.subject].name
    <3>1. n \in Names /\ lapse[<<q.subject, n>>] <= names[q.subject].age + MaxFetch
      BY <1>3, <2>2 DEF AclInv, CachesFresh, NameFresh
    <3>2. lapse[<<q.subject, n>>] \in Nat /\ names[q.subject].age \in Nat
      BY <1>3, <3>1, Numbers DEF AclInv, AclTypeOK, Facts
    <3>3. lapse[<<q.subject, n>>] <= CacheTtl + MaxFetch
      BY <2>2, <3>1, <3>2
    <3>4. n \in NamedRecently(q.subject)
      BY <1>7, <3>1, <3>3 DEF NamedRecently, Within
    <3> QED
      BY <1>1, <1>2, <1>3, <1>7, <2>1, <2>2, <3>1, <3>4, ResolveOK DEF AclInv
  <2>3. CASE ~(names[q.subject].age < CacheTtl)
    <3> DEFINE a == [q EXCEPT !.phase = "asking"]
    <3>1. a \in Requests /\ a.phase = "asking" /\ a.subject = q.subject /\ a.age = 0 /\ ~a.behind
      BY <1>1, <1>2 DEF Requests
    <3>2. d = a
      BY <2>1, <2>3
    <3> HIDE DEF a
    <3>3. RequestOK(a, lapse)
      BY <1>7, <3>1 DEF RequestOK, Identifying
    <3> QED
      BY <3>1, <3>2, <3>3
  <2> QED
    BY <2>2, <2>3
<1> QED
  BY <1>3, <1>4, <1>5, <1>6, <1>7

LEMMA NoRequestOK == NoRequest.phase = "none" /\ RequestOK(NoRequest, lapse)
  BY DEF NoRequest, RequestOK

(* The steps of the middleware.                                            *)
LEMMA ArriveOK ==
    ASSUME AclInv, NEW r \in Flights, NEW s \in AclSessions, Arrive(r, s)
    PROVE  AclInv'
<1> DEFINE d == IF setup.source = "static" THEN AllowedByStaticMap(Arrival(s))
                ELSE ResolvePrincipal(Arrival(s))
<1>1. flight' = Set(r, d) /\ UNCHANGED Rest /\ UNCHANGED <<names, allowances, lister>>
  BY DEF Arrive, Rest
<1>2. events' \in 0..MaxEvents
  BY DEF Arrive, Spend, AclInv, AclTypeOK
<1>3. /\ d \in Requests \cup {NoRequest} /\ RequestOK(d, lapse)
      /\ d.phase \in {"none", "authorised", "waiting", "asking"}
  BY ArrivalOK
<1> HIDE DEF d
<1> QED
  BY <1>1, <1>2, <1>3, Steps

LEMMA UserInfoRepliesOK ==
    ASSUME AclInv, NEW r \in Flights, UserInfoReplies(r)
    PROVE  AclInv'
<1> DEFINE o == flight[r]
           n == goesBy[o.subject]
           q == [o EXCEPT !.phase = "replied", !.name = n]
<1>1. o \in Requests /\ o.phase = "asking"
  BY FlightShape DEF UserInfoReplies, AclInv
<1>2. o.subject \in Subjects /\ n \in Names \cup {NoName} /\ o.age \in Nat
  BY <1>1, RequestShape DEF AclInv, AclTypeOK
<1>3. flight' = Set(r, q)
  BY DEF UserInfoReplies, Set
<1>4. q \in Requests /\ q.phase = "replied" /\ q.name = n /\ q.subject = o.subject
      /\ q.age = o.age /\ q.behind = o.behind
  BY <1>1, <1>2 DEF Requests
<1> HIDE DEF q
<1>5. ~o.behind /\ Identifying(o)
  BY <1>1, RequestShape DEF AclInv, RequestsOK, RequestOK
<1>6. n # NoName => lapse[<<o.subject, n>>] = 0
  <2> SUFFICES ASSUME n # NoName PROVE lapse[<<o.subject, n>>] = 0
    OBVIOUS
  <2> DEFINE f == <<o.subject, n>>
  <2>1. f \in Facts /\ f[1] = o.subject /\ f[2] = n
    BY <1>2 DEF Facts
  <2>2. HoldsNow(f)
    BY <1>2, <2>1 DEF HoldsNow
  <2> QED
    BY <2>1, <2>2 DEF AclInv, Remembered
<1>7. RequestOK(q, lapse)
  BY <1>2, <1>4, <1>5, <1>6 DEF RequestOK, Identifying
<1> QED
  BY <1>3, <1>4, <1>7, Steps DEF UserInfoReplies, Rest, AclInv, AclTypeOK

LEMMA UserInfoFailsOK ==
    ASSUME AclInv, NEW r \in Flights, UserInfoFails(r)
    PROVE  AclInv'
  BY Steps, NoRequestOK DEF UserInfoFails, Rest, AclInv, AclTypeOK

LEMMA UserInfoArrivesOK ==
    ASSUME AclInv, NEW r \in Flights, UserInfoArrives(r)
    PROVE  AclInv'
<1> DEFINE o == flight[r]
           n == o.name
           d == Resolve(o, n)
<1>1. o \in Requests /\ o.phase = "replied"
  BY FlightShape DEF UserInfoArrives, AclInv
<1>2. o.subject \in Subjects /\ n \in Names \cup {NoName} /\ o.age \in Nat
  BY <1>1, RequestShape
<1>3. RequestOK(o, lapse) /\ o # NoRequest
  BY <1>1, RequestShape DEF AclInv, RequestsOK
<1>4. n # NoName => lapse[<<o.subject, n>>] <= MaxFetch
  <2> SUFFICES ASSUME n # NoName PROVE lapse[<<o.subject, n>>] <= MaxFetch
    OBVIOUS
  <2>1. lapse[<<o.subject, n>>] <= o.age /\ o.age <= MaxFetch
    BY <1>1, <1>3 DEF RequestOK, Identifying
  <2>2. lapse[<<o.subject, n>>] \in Nat
    BY <1>2, Numbers DEF AclInv, AclTypeOK, Facts
  <2> QED
    BY <1>2, <2>1, <2>2
<1>5. setup.source # "static" /\ setup.identity # "token" /\ setup.bound[o.subject] = NoName
      /\ ~o.behind
  BY <1>1, <1>3 DEF RequestOK, Identifying
<1>6. n # NoName => n \in NamedRecently(o.subject)
  <2> SUFFICES ASSUME n # NoName PROVE n \in NamedRecently(o.subject)
    OBVIOUS
  <2>1. lapse[<<o.subject, n>>] \in Nat
    BY <1>2, Numbers DEF AclInv, AclTypeOK, Facts
  <2>2. lapse[<<o.subject, n>>] <= CacheTtl + MaxFetch
    BY <1>4, <2>1
  <2> QED
    BY <1>2, <1>5, <2>2 DEF NamedRecently, Within
<1>7. /\ d \in Requests \cup {NoRequest} /\ RequestOK(d, lapse)
      /\ d.phase \in {"none", "authorised", "waiting"}
  BY <1>1, <1>2, <1>5, <1>6, ResolveOK DEF AclInv
<1>8. /\ flight' = Set(r, d) /\ UNCHANGED Rest
      /\ UNCHANGED <<allowances, lister, events>>
      /\ names' = IF n = NoName THEN names
                  ELSE [names EXCEPT ![o.subject] = [name |-> n, age |-> 0]]
  BY DEF UserInfoArrives, Rest
<1> HIDE DEF d
<1>9. names' \in [Subjects -> [name : Names \cup {NoName}, age : 0..CacheTtl]]
  <2>1. [name |-> n, age |-> 0] \in [name : Names \cup {NoName}, age : 0..CacheTtl]
    BY <1>2
  <2> QED
    BY <1>2, <1>8, <2>1 DEF AclInv, AclTypeOK
<1>10. \A s \in Subjects : NameFresh(names'[s], s, lapse)
  <2>1. n # NoName => NameFresh([name |-> n, age |-> 0], o.subject, lapse)
    BY <1>2, <1>4 DEF NameFresh
  <2>2. \A s \in Subjects : NameFresh(names[s], s, lapse)
    BY DEF AclInv, CachesFresh
  <2> QED
    BY <1>2, <1>8, <2>1, <2>2 DEF AclInv, AclTypeOK
<1>11. flight' \in [Flights -> Requests \cup {NoRequest}] /\ RequestsOK' /\ Queued'
  BY <1>7, <1>8, OneRequest DEF Rest
<1>12. OneLister'
  <2>1. \A t \in Flights : flight'[t] = IF t = r THEN d ELSE flight[t]
    BY <1>8 DEF AclInv, AclTypeOK, Set
  <2> QED
    BY <1>7, <1>8, <2>1 DEF AclInv, OneLister
<1> QED
  BY <1>8, <1>9, <1>10, <1>11, <1>12, RestKept DEF AclInv, AclTypeOK, CachesFresh

LEMMA StartListingOK ==
    ASSUME AclInv, NEW r \in Flights, StartListing(r)
    PROVE  AclInv'
<1> DEFINE o == flight[r]
           q == [o EXCEPT !.phase = "listing", !.age = 0]
<1>1. o \in Requests /\ o.phase = "waiting"
  BY FlightShape DEF StartListing, AclInv
<1>2. RequestOK(o, lapse) /\ o # NoRequest
  BY <1>1, RequestShape DEF AclInv, RequestsOK
<1>3. q \in Requests /\ q.phase = "listing" /\ q.age = 0 /\ q.behind = o.behind
      /\ q.name = o.name /\ q.known = o.known
  <2>1. 0 \in 0..(MaxFetch + MaxRead)
    OBVIOUS
  <2> QED
    BY <1>1, <2>1 DEF Requests
<1>4. flight' = Set(r, q) /\ lister' = r /\ UNCHANGED Rest
      /\ UNCHANGED <<names, allowances, events>> /\ lister = Nobody
  <2>1. flight' = [flight EXCEPT ![r].phase = "listing", ![r].age = 0]
    BY DEF StartListing
  <2>2. flight' = [flight EXCEPT ![r] = q]
    BY <2>1 DEF AclInv, AclTypeOK
  <2> QED
    BY <2>2 DEF StartListing, Set, Rest, LockForListing
<1> HIDE DEF q
<1>5. RequestOK(q, lapse)
  BY <1>1, <1>2, <1>3 DEF RequestOK, Named
<1>6. flight' \in [Flights -> Requests \cup {NoRequest}] /\ RequestsOK' /\ Queued'
  BY <1>3, <1>4, <1>5, OneRequest DEF Rest
<1>7. OneLister'
  <2>1. \A t \in Flights : flight'[t] = IF t = r THEN q ELSE flight[t]
    BY <1>4 DEF AclInv, AclTypeOK, Set
  <2>2. \A t \in Flights : flight[t].phase \notin {"listing", "listed"}
    BY <1>4 DEF AclInv, OneLister
  <2> QED
    BY <1>4, <2>1, <2>2 DEF OneLister
<1> QED
  BY <1>4, <1>6, <1>7, RestKept DEF AclInv, AclTypeOK, CachesFresh

LEMMA ServerListsOK ==
    ASSUME AclInv, NEW r \in Flights, ServerLists(r)
    PROVE  AclInv'
<1> DEFINE o == flight[r]
           files == MatchAllowedFiles(o.name)
           q == [o EXCEPT !.phase = "listed", !.allowed = files]
<1>1. o \in Requests /\ o.phase = "listing"
  BY FlightShape DEF ServerLists, AclInv
<1>2. RequestOK(o, lapse) /\ o # NoRequest /\ o.age \in Nat /\ lister = r
  BY <1>1, RequestShape DEF AclInv, RequestsOK, OneLister
<1>3. files \subseteq Budgets
  BY DEF MatchAllowedFiles
<1>4. q \in Requests /\ q.phase = "listed" /\ q.age = o.age /\ q.behind = o.behind
      /\ q.name = o.name /\ q.known = o.known /\ q.allowed = files
  BY <1>1, <1>3 DEF Requests
<1>5. flight' = Set(r, q)
  <2>1. flight' = [flight EXCEPT ![r].phase = "listed", ![r].allowed = files]
    BY DEF ServerLists
  <2> QED
    BY <2>1 DEF Set, AclInv, AclTypeOK
<1>6. \A b \in files : lapse[<<o.name, b>>] = 0
  <2>1. o.name \in Names
    BY <1>1, <1>2 DEF RequestOK, Named
  <2>2. \A b \in files : <<o.name, b>> \in granted /\ <<o.name, b>> \in Facts
    BY <2>1, <1>3 DEF MatchAllowedFiles, Facts
  <2> QED
    BY <2>2 DEF AclInv, Remembered, HoldsNow
<1> HIDE DEF q, files
<1>7. RequestOK(q, lapse)
  BY <1>1, <1>2, <1>4, <1>6 DEF RequestOK, Named
<1> QED
  BY <1>2, <1>4, <1>5, <1>7, Steps DEF ServerLists, Rest, AclInv, AclTypeOK

(* While a request has an answer of the server in hand, no other has: so   *)
(* an answer that arrives finds none behind it.                            *)
LEMMA ListingArrivesOK ==
    ASSUME AclInv, NEW r \in Flights, ListingArrives(r)
    PROVE  AclInv'
<1> DEFINE o == flight[r]
           d == Decided(o, o.allowed)
<1>1. o \in Requests /\ o.phase = "listed"
  BY FlightShape DEF ListingArrives, AclInv
<1>2. RequestOK(o, lapse) /\ o # NoRequest
  BY <1>1, RequestShape DEF AclInv, RequestsOK
<1>3. /\ setup.source # "static" /\ o.name \in Names /\ o.name \in o.known /\ ~o.behind
      /\ o.allowed \subseteq Budgets /\ o.age \in Nat /\ o.age <= MaxRead
      /\ \A b \in o.allowed : lapse[<<o.name, b>>] <= o.age
  BY <1>1, <1>2, RequestShape DEF RequestOK, Named
<1>4. \A b \in o.allowed : lapse[<<o.name, b>>] \in Nat
  BY <1>3, Numbers DEF AclInv, AclTypeOK, Facts
<1>5. \A b \in o.allowed : lapse[<<o.name, b>>] <= MaxRead
                           /\ lapse[<<o.name, b>>] <= CacheTtl + MaxRead
  BY <1>3, <1>4
<1>6. o.allowed \subseteq EntitledRecently(o)
  BY <1>1, <1>3, <1>5, RecentGrants DEF AclInv
<1>7. /\ d \in Requests \cup {NoRequest} /\ RequestOK(d, lapse)
      /\ d.phase \in {"none", "authorised"}
  BY <1>1, <1>3, <1>6, DecidedOK DEF AclInv
<1>8. \A t \in Flights : flight[t].phase \in {"listing", "listed"} => t = r
  BY <1>1 DEF AclInv, OneLister
<1>9. /\ flight' = Set(r, d) /\ lister' = Nobody /\ UNCHANGED Rest
      /\ UNCHANGED <<names, events>>
      /\ allowances' = [allowances EXCEPT ![o.name] = [allowed |-> o.allowed, age |-> 0]]
  <2>1. flight' = [t \in Flights |-> IF t = r THEN d ELSE flight[t]]
    BY <1>8 DEF ListingArrives
  <2>2. flight' = [flight EXCEPT ![r] = d]
    BY <2>1 DEF AclInv, AclTypeOK
  <2>3. lister = r
    BY <1>1 DEF AclInv, OneLister
  <2> QED
    BY <2>2, <2>3 DEF ListingArrives, Set, Rest, Fill
<1> HIDE DEF d
<1>10. allowances' \in [Names -> [allowed : SUBSET Budgets, age : 0..CacheTtl]]
  <2>1. [allowed |-> o.allowed, age |-> 0] \in [allowed : SUBSET Budgets, age : 0..CacheTtl]
    BY <1>3
  <2> QED
    BY <1>3, <1>9, <2>1 DEF AclInv, AclTypeOK
<1>11. \A n \in Names : AllowanceFresh(allowances'[n], n, lapse)
  <2>1. AllowanceFresh([allowed |-> o.allowed, age |-> 0], o.name, lapse)
    BY <1>5 DEF AllowanceFresh
  <2>2. \A n \in Names : AllowanceFresh(allowances[n], n, lapse)
    BY DEF AclInv, CachesFresh
  <2> QED
    BY <1>3, <1>9, <2>1, <2>2 DEF AclInv, AclTypeOK
<1>12. flight' \in [Flights -> Requests \cup {NoRequest}] /\ RequestsOK' /\ Queued'
  BY <1>7, <1>9, OneRequest DEF Rest
<1>13. OneLister'
  <2>1. \A t \in Flights : flight'[t] = IF t = r THEN d ELSE flight[t]
    BY <1>9 DEF AclInv, AclTypeOK, Set
  <2> QED
    BY <1>7, <1>8, <2>1 DEF OneLister
<1> QED
  BY <1>9, <1>10, <1>11, <1>12, <1>13, RestKept DEF AclInv, AclTypeOK, CachesFresh

LEMMA ListingFailsOK ==
    ASSUME AclInv, NEW r \in Flights, ListingFails(r)
    PROVE  AclInv'
<1>1. \A t \in Flights : flight[t].phase \in {"listing", "listed"} => t = r
  BY DEF AclInv, OneLister, ListingFails
<1>2. flight' = Set(r, NoRequest) /\ lister' \in Flights \cup {Nobody} /\ UNCHANGED Rest
      /\ UNCHANGED <<names, allowances, events>>
  BY DEF ListingFails, OnListingError, Rest, AclInv, AclTypeOK
<1>3. flight' \in [Flights -> Requests \cup {NoRequest}] /\ RequestsOK' /\ Queued'
  BY <1>2, NoRequestOK, OneRequest DEF Rest
<1>4. OneLister'
  <2>1. \A t \in Flights : flight'[t] = IF t = r THEN NoRequest ELSE flight[t]
    BY <1>2 DEF AclInv, AclTypeOK, Set
  <2> QED
    BY <1>1, <2>1, NoRequestOK DEF OneLister
<1> QED
  BY <1>2, <1>3, <1>4, RestKept DEF AclInv, AclTypeOK, CachesFresh

(* A request makes budget b its session's, or leaves the slot as it is; the *)
(* queued requests of that session are entitled to b by it.                 *)
LEMMA SlotMoves ==
    ASSUME AclInv, NEW r \in Flights, flight[r].phase # "none",
           NEW b \in Budgets \cup {NoBudget}, b # NoBudget => b \in flight[r].recent,
           slot' = IF b = NoBudget THEN slot ELSE [slot EXCEPT ![flight[r].session] = b],
           NEW q \in Requests \cup {NoRequest}, flight' = [Carrying(r, b) EXCEPT ![r] = q],
           RequestOK(q, lapse), QueueOK(q, slot'[q.session]), q.phase \notin {"listing", "listed"},
           UNCHANGED <<setup, granted, goesBy, lapse, names, allowances, lister, events>>,
           preferred' \in [Subjects -> Budgets \cup {NoBudget}]
    PROVE  AclInv'
<1> DEFINE o == flight[r]
           next(p) == [p EXCEPT !.recent = @ \cup (o.recent \cap {b})]
           mine(t) == flight[t].phase = "queued" /\ flight[t].session = o.session
<1>1. o \in Requests
  BY FlightShape DEF AclInv
<1>2. \A t \in Flights : flight'[t] = IF t = r THEN q
                                      ELSE IF mine(t) THEN next(flight[t]) ELSE flight[t]
  BY DEF Carrying
<1>3. ASSUME NEW p \in Requests
      PROVE  /\ next(p) \in Requests
             /\ next(p).recent = p.recent \cup (o.recent \cap {b})
             /\ next(p).phase = p.phase /\ next(p).cleared = p.cleared
             /\ next(p).session = p.session /\ next(p).behind = p.behind
             /\ next(p).allowed = p.allowed
  BY <1>1 DEF Requests
<1>4. \A t \in Flights : mine(t) => flight[t] \in Requests
  BY FlightShape DEF AclInv
<1>5. flight' \in [Flights -> Requests \cup {NoRequest}]
  <2>1. Carrying(r, b) = [t \in Flights |-> IF t # r /\ mine(t) THEN next(flight[t])
                                            ELSE flight[t]]
    BY DEF Carrying
  <2> HIDE DEF next, mine
  <2>2. \A t \in Flights : flight[t] \in Requests \cup {NoRequest}
    BY DEF AclInv, AclTypeOK
  <2>3. \A t \in Flights : mine(t) => next(flight[t]) \in Requests
    BY <1>3, <1>4
  <2>4. Carrying(r, b) \in [Flights -> Requests \cup {NoRequest}]
    BY <2>1, <2>2, <2>3
  <2> QED
    BY <2>4
<1>6. RequestsOK'
  <2>1. ASSUME NEW t \in Flights PROVE RequestOK(flight'[t], lapse)
    <3>1. CASE t = r
      BY <1>2, <3>1
    <3>2. CASE t # r /\ ~mine(t)
      BY <1>2, <3>2 DEF AclInv, RequestsOK
    <3>3. CASE t # r /\ mine(t)
      <4>1. flight[t] \in Requests /\ flight'[t] = next(flight[t]) /\ flight[t].phase = "queued"
        BY <1>2, <1>4, <3>3
      <4>2. RequestOK(flight[t], lapse) /\ flight[t] # NoRequest
        BY <4>1, RequestShape DEF AclInv, RequestsOK
      <4> HIDE DEF next
      <4> QED
        BY <1>3, <4>1, <4>2 DEF RequestOK
    <3> QED
      BY <3>1, <3>2, <3>3
  <2> QED
    BY <2>1 DEF RequestsOK, RequestOK, Identifying, Named
<1>7. Queued'
  <2>1. ASSUME NEW t \in Flights PROVE QueueOK(flight'[t], slot'[flight'[t].session])
    <3>0. QueueOK(flight[t], slot[flight[t].session])
      BY DEF AclInv, Queued
    <3>1. CASE t = r
      BY <1>2, <3>1
    <3>2. CASE t # r /\ flight[t].phase # "queued"
      BY <1>2, <3>2 DEF QueueOK
    <3>3. CASE t # r /\ flight[t].phase = "queued" /\ ~mine(t)
      <4>1. flight'[t] = flight[t] /\ flight[t].session \in AclSessions
            /\ flight[t].session # o.session
        BY <1>2, <3>3, FlightShape, RequestShape DEF AclInv
      <4>2. slot'[flight[t].session] = slot[flight[t].session]
        BY <4>1 DEF AclInv, AclTypeOK
      <4> QED
        BY <3>0, <4>1, <4>2
    <3>4. CASE t # r /\ mine(t)
      <4>1. flight[t] \in Requests /\ flight'[t] = next(flight[t])
            /\ flight[t].phase = "queued" /\ flight[t].session = o.session
        BY <1>2, <1>4, <3>4
      <4>2. o.session \in AclSessions
        BY <1>1, RequestShape
      <4>3. slot'[o.session] = IF b = NoBudget THEN slot[o.session] ELSE b
        BY <4>2 DEF AclInv, AclTypeOK
      <4>4. next(flight[t]).recent = flight[t].recent \cup (o.recent \cap {b})
            /\ next(flight[t]).cleared = flight[t].cleared
            /\ next(flight[t]).session = o.session
        BY <1>3, <4>1
      <4> HIDE DEF next
      <4> QED
        BY <3>0, <4>1, <4>3, <4>4 DEF QueueOK, WillRunOn
    <3> QED
      BY <3>1, <3>2, <3>3, <3>4
  <2> QED
    BY <2>1 DEF Queued, QueueOK
<1>8. OneLister'
  <2>1. \A t \in Flights : flight'[t].phase \in {"listing", "listed"} => flight'[t] = flight[t]
    <3>1. \A t \in Flights : mine(t) => next(flight[t]).phase = "queued"
      BY <1>3, <1>4
    <3> QED
      BY <1>2, <3>1
  <2> QED
    BY <2>1 DEF AclInv, OneLister
<1>9. AclTypeOK'
  BY <1>1, <1>5, RequestShape DEF AclInv, AclTypeOK
<1>10. Remembered' /\ CachesFresh'
  BY DEF AclInv, Remembered, HoldsNow, CachesFresh, NameFresh, AllowanceFresh
<1> QED
  BY <1>6, <1>7, <1>8, <1>9, <1>10 DEF AclInv

(* The active budget is the one in the slot once the restored preference   *)
(* has been memoised, and a preference is restored only if it is allowed.  *)
LEMMA Restoring ==
    ASSUME AclInv, NEW r \in Flights, flight[r] \in Requests
    PROVE  LET s == flight[r].session
               b == Memoises(r)
           IN  /\ b \in Budgets \cup {NoBudget}
               /\ b # NoBudget => b \in flight[r].allowed /\ slot[s] = NoBudget
               /\ Memoised(r) = IF b = NoBudget THEN slot ELSE [slot EXCEPT ![s] = b]
               /\ Memoised(r)[s] = IF b = NoBudget THEN slot[s] ELSE b
               /\ ActiveBudget(r) = WillRunOn(Memoised(r)[s])
               /\ ActiveBudget(r) \in Budgets
               /\ Carrying(r, b)[r] = flight[r]
<1> DEFINE s == flight[r].session
           b == Memoises(r)
<1>1. s \in AclSessions /\ flight[r].subject \in Subjects /\ flight[r].allowed \subseteq Budgets
  BY RequestShape
<1>2. slot[s] \in Budgets \cup {NoBudget} /\ FirstBudget \in Budgets /\ NoBudget \notin Budgets
  BY <1>1 DEF AclInv, AclTypeOK
<1>3. \/ Restored(r) = NoBudget
      \/ Restored(r) \in Budgets /\ Restored(r) \in flight[r].allowed
  BY DEF Restored, PickAllowedPreferred
<1>4. /\ b \in Budgets \cup {NoBudget}
      /\ b # NoBudget => b \in flight[r].allowed /\ slot[s] = NoBudget
      /\ Memoised(r) = IF b = NoBudget THEN slot ELSE [slot EXCEPT ![s] = b]
  BY <1>2, <1>3 DEF Memoises, Memoised
<1>5. Memoised(r)[s] = IF b = NoBudget THEN slot[s] ELSE b
  BY <1>1, <1>4 DEF AclInv, AclTypeOK
<1>6. ActiveBudget(r) = IF slot[s] # NoBudget THEN slot[s]
                        ELSE IF Restored(r) # NoBudget THEN Restored(r) ELSE FirstBudget
  BY DEF ActiveBudget
<1>7. ActiveBudget(r) = WillRunOn(Memoised(r)[s]) /\ ActiveBudget(r) \in Budgets
  BY <1>2, <1>3, <1>5, <1>6 DEF Memoises, WillRunOn
<1>8. Carrying(r, b)[r] = flight[r]
  BY DEF Carrying
<1> QED
  BY <1>4, <1>5, <1>7, <1>8

(* What an authorised request does.                                        *)
LEMMA EnforceOK ==
    ASSUME AclInv, NEW r \in Flights, EnforceBudgetAcl(r)
    PROVE  AclInv'
<1> DEFINE o == flight[r]
           b == Memoises(r)
           runs == [o EXCEPT !.phase = "queued"]
           q == IF ActiveBudget(r) \in o.allowed THEN runs ELSE NoRequest
<1>1. o \in Requests /\ o.phase = "authorised"
  BY FlightShape DEF EnforceBudgetAcl, AclInv
<1>2. RequestOK(o, lapse) /\ o # NoRequest
  BY <1>1, RequestShape DEF AclInv, RequestsOK
<1>3. o.allowed \subseteq o.recent /\ ~o.behind
  BY <1>1, <1>2 DEF RequestOK
<1>4. runs \in Requests /\ runs.phase = "queued" /\ runs.session = o.session
      /\ runs.allowed = o.allowed /\ runs.recent = o.recent /\ ~runs.behind
  BY <1>1, <1>3 DEF Requests
<1>5. flight' = [Carrying(r, b) EXCEPT ![r] = q] /\ slot' = Memoised(r)
  BY <1>1, Restoring DEF EnforceBudgetAcl
<1>6. /\ b \in Budgets \cup {NoBudget} /\ (b # NoBudget => b \in o.recent)
      /\ slot' = IF b = NoBudget THEN slot ELSE [slot EXCEPT ![o.session] = b]
      /\ ActiveBudget(r) = WillRunOn(slot'[o.session])
  BY <1>1, <1>3, <1>5, Restoring
<1> HIDE DEF b, runs
<1>7. q \in Requests \cup {NoRequest} /\ q.phase \in {"queued", "none"}
      /\ RequestOK(q, lapse) /\ QueueOK(q, slot'[q.session])
  <2>1. CASE ActiveBudget(r) \in o.allowed
    <3>1. RequestOK(runs, lapse)
      BY <1>3, <1>4 DEF RequestOK
    <3>2. QueueOK(runs, slot'[runs.session])
      BY <1>3, <1>4, <1>6, <2>1 DEF QueueOK
    <3> QED
      BY <1>4, <2>1, <3>1, <3>2
  <2>2. CASE ActiveBudget(r) \notin o.allowed
    BY <2>2, NoRequestOK DEF QueueOK
  <2> QED
    BY <2>1, <2>2
<1>8. UNCHANGED <<setup, granted, goesBy, lapse, names, allowances, lister, events>>
      /\ preferred' \in [Subjects -> Budgets \cup {NoBudget}]
  BY DEF EnforceBudgetAcl, AclInv, AclTypeOK
<1> HIDE DEF q
<1> QED
  BY <1>1, <1>5, <1>6, <1>7, <1>8, SlotMoves

LEMMA OperateOK ==
    ASSUME AclInv, NEW r \in Flights, Operate(r)
    PROVE  AclInv'
<1> DEFINE o == flight[r]
           b == Memoises(r)
           q == [o EXCEPT !.phase = "ran", !.ran = ActiveBudget(r)]
<1>1. o \in Requests /\ o.phase = "queued"
  BY FlightShape DEF Operate, AclInv
<1>2. RequestOK(o, lapse) /\ o # NoRequest /\ QueueOK(o, slot[o.session])
  BY <1>1, RequestShape DEF AclInv, RequestsOK, Queued
<1>3. o.allowed \subseteq o.recent /\ ~o.behind
  BY <1>1, <1>2 DEF RequestOK
<1>4. q \in Requests /\ q.phase = "ran" /\ q.ran = ActiveBudget(r) /\ q.cleared = o.cleared
      /\ q.recent = o.recent /\ ~q.behind
  BY <1>1, <1>3, Restoring DEF Requests
<1>5. flight' = [Carrying(r, b) EXCEPT ![r] = q] /\ slot' = Memoised(r)
  <2>1. flight' = [Carrying(r, b) EXCEPT ![r].phase = "ran", ![r].ran = ActiveBudget(r)]
        /\ slot' = Memoised(r)
    BY DEF Operate
  <2>2. Carrying(r, b)[r] = o
    BY <1>1, Restoring
  <2>3. \E f \in [Flights -> Requests \cup {NoRequest} \cup {Carrying(r, b)[t] : t \in Flights}] :
            f = Carrying(r, b)
    BY DEF Carrying
  <2> QED
    BY <2>1, <2>2, <2>3
<1>6. /\ b \in Budgets \cup {NoBudget} /\ (b # NoBudget => b \in o.recent)
      /\ slot' = IF b = NoBudget THEN slot ELSE [slot EXCEPT ![o.session] = b]
      /\ slot'[o.session] = IF b = NoBudget THEN slot[o.session] ELSE b
      /\ ActiveBudget(r) = WillRunOn(slot'[o.session])
  BY <1>1, <1>3, <1>5, Restoring
<1>7. ~o.cleared => ActiveBudget(r) \in o.recent
  BY <1>1, <1>2, <1>6 DEF QueueOK, WillRunOn
<1> HIDE DEF b, q
<1>8. RequestOK(q, lapse) /\ QueueOK(q, slot'[q.session])
  BY <1>4, <1>7 DEF RequestOK, QueueOK
<1>9. UNCHANGED <<setup, granted, goesBy, lapse, names, allowances, lister, events>>
      /\ preferred' \in [Subjects -> Budgets \cup {NoBudget}]
  BY DEF Operate, AclInv, AclTypeOK
<1> QED
  BY <1>1, <1>4, <1>5, <1>6, <1>8, <1>9, SlotMoves

LEMMA RespondOK ==
    ASSUME AclInv, NEW r \in Flights, Respond(r)
    PROVE  AclInv'
  BY Steps, NoRequestOK DEF Respond, Rest, AclInv, AclTypeOK

LEMMA SwitchBudgetOK ==
    ASSUME AclInv, NEW r \in Flights, NEW b \in Budgets, SwitchBudget(r, b)
    PROVE  AclInv'
<1> DEFINE o == flight[r]
<1>1. o \in Requests /\ o.phase = "authorised"
  BY FlightShape DEF SwitchBudget, AclInv
<1>2. RequestOK(o, lapse) /\ o # NoRequest /\ o.subject \in Subjects
  BY <1>1, RequestShape DEF AclInv, RequestsOK
<1>3. b \in o.recent /\ b # NoBudget
  BY <1>1, <1>2 DEF RequestOK, SwitchBudget, MaySwitchTo
<1>4. preferred' \in [Subjects -> Budgets \cup {NoBudget}]
  <2>1. preferred \in [Subjects -> Budgets \cup {NoBudget}]
    BY DEF AclInv, AclTypeOK
  <2>2. preferred' = preferred \/ preferred' = [preferred EXCEPT ![o.subject] = b]
    BY DEF SwitchBudget, Persisted
  <2> QED
    BY <2>1, <2>2
<1>5. QueueOK(NoRequest, slot'[NoRequest.session])
  BY NoRequestOK DEF QueueOK
<1>6. /\ slot' = [slot EXCEPT ![o.session] = b]
      /\ flight' = [Carrying(r, b) EXCEPT ![r] = NoRequest]
      /\ UNCHANGED <<setup, granted, goesBy, lapse, names, allowances, lister, events>>
  BY DEF SwitchBudget
<1> QED
  BY <1>1, <1>3, <1>4, <1>5, <1>6, NoRequestOK, SlotMoves

(* A close by another session clears the slot and marks what is queued.    *)
LEMMA CloseSessionOK ==
    ASSUME AclInv, NEW r \in Flights, NEW s \in AclSessions, CloseSession(r, s)
    PROVE  AclInv'
<1> DEFINE mine(t) == flight[t].phase = "queued" /\ flight[t].session = s
           marked(p) == [p EXCEPT !.cleared = TRUE]
<1>1. flight' = [t \in Flights |-> IF t = r THEN NoRequest
                                   ELSE IF mine(t) THEN marked(flight[t]) ELSE flight[t]]
  BY DEF CloseSession
<1>2. ASSUME NEW p \in Requests
      PROVE  /\ marked(p) \in Requests /\ marked(p).cleared
             /\ marked(p).phase = p.phase /\ marked(p).behind = p.behind
             /\ marked(p).allowed = p.allowed /\ marked(p).recent = p.recent
  BY DEF Requests
<1>3. \A t \in Flights : mine(t) => flight[t] \in Requests
  BY FlightShape DEF AclInv
<1>4. flight' \in [Flights -> Requests \cup {NoRequest}]
  <2>1. \A t \in Flights : flight[t] \in Requests \cup {NoRequest}
    BY DEF AclInv, AclTypeOK
  <2>2. \A t \in Flights : mine(t) => marked(flight[t]) \in Requests
    BY <1>2, <1>3
  <2> HIDE DEF marked, mine
  <2> QED
    BY <1>1, <2>1, <2>2
<1>5. ASSUME NEW t \in Flights
      PROVE  /\ RequestOK(flight'[t], lapse)
             /\ QueueOK(flight'[t], slot'[flight'[t].session])
             /\ flight'[t].phase \in {"listing", "listed"} => flight'[t] = flight[t]
  <2>0. RequestOK(flight[t], lapse) /\ QueueOK(flight[t], slot[flight[t].session])
    BY DEF AclInv, RequestsOK, Queued
  <2>1. CASE t = r
    BY <1>1, <2>1, NoRequestOK DEF QueueOK
  <2>2. CASE t # r /\ mine(t)
    <3>1. flight[t] \in Requests /\ flight'[t] = marked(flight[t]) /\ flight[t].phase = "queued"
      BY <1>1, <1>3, <2>2
    <3>2. flight[t] # NoRequest
      BY <3>1, RequestShape
    <3> HIDE DEF marked
    <3> QED
      BY <1>2, <2>0, <3>1, <3>2 DEF RequestOK, QueueOK
  <2>3. CASE t # r /\ ~mine(t)
    <3>1. flight'[t] = flight[t]
      BY <1>1, <2>3
    <3>2. flight[t].phase = "queued" => slot'[flight[t].session] = slot[flight[t].session]
      <4>1. flight[t].phase = "queued" => flight[t].session \in AclSessions
        BY FlightShape, RequestShape DEF AclInv
      <4> QED
        BY <2>3, <4>1 DEF CloseSession, AclInv, AclTypeOK
    <3> QED
      BY <2>0, <3>1, <3>2 DEF QueueOK
  <2> QED
    BY <2>1, <2>2, <2>3
<1>6. RequestsOK'
  BY <1>5 DEF RequestsOK, RequestOK, Identifying, Named, CloseSession
<1>7. Queued'
  BY <1>5 DEF Queued, QueueOK
<1>8. OneLister'
  BY <1>5 DEF AclInv, OneLister, CloseSession
<1>9. AclTypeOK'
  BY <1>4 DEF AclInv, AclTypeOK, CloseSession
<1>10. Remembered' /\ CachesFresh'
  BY DEF AclInv, Remembered, HoldsNow, CachesFresh, NameFresh, AllowanceFresh, CloseSession
<1> QED
  BY <1>6, <1>7, <1>8, <1>9, <1>10 DEF AclInv

(* A clock tick: what does not hold ages by at most one, and so does       *)
(* everything that was learnt from it.                                     *)
LEMMA TickOK ==
    ASSUME AclInv, Tick
    PROVE  AclInv'
<1> DEFINE older(q) == [q EXCEPT !.age = @ + 1]
<1>1. /\ lapse' \in [Facts -> 0..Horizon]
      /\ \A f \in Facts : lapse'[f] <= lapse[f] + 1
      /\ \A f \in Facts : HoldsNow(f) => lapse'[f] = 0
      /\ \A f \in Facts : lapse[f] \in Nat /\ lapse'[f] \in Nat
  <2>1. lapse' = [f \in Facts |-> IF HoldsNow(f) THEN 0 ELSE Older(lapse[f])]
    BY DEF Tick
  <2>2. \A f \in Facts : lapse[f] \in 0..Horizon
    BY DEF AclInv, AclTypeOK
  <2>3. \A f \in Facts : Older(lapse[f]) \in 0..Horizon /\ Older(lapse[f]) <= lapse[f] + 1
    BY <2>2, Numbers
  <2>4. 0 \in 0..Horizon /\ Horizon \in Nat
    BY Numbers
  <2> QED
    BY <2>1, <2>2, <2>3, <2>4
<1>2. Remembered'
  BY <1>1 DEF Remembered, HoldsNow, Tick
<1>3. \A s \in Subjects : names'[s] = IF names[s].age + 1 < CacheTtl
                                      THEN [names[s] EXCEPT !.age = @ + 1] ELSE Absent
  BY DEF Tick
<1>4. ASSUME NEW s \in Subjects
      PROVE  /\ names'[s] \in [name : Names \cup {NoName}, age : 0..CacheTtl]
             /\ NameFresh(names'[s], s, lapse')
  <2>1. /\ names[s] \in [name : Names \cup {NoName}, age : 0..CacheTtl]
        /\ NameFresh(names[s], s, lapse)
    BY DEF AclInv, AclTypeOK, CachesFresh
  <2>2. CASE names[s].age + 1 < CacheTtl
    <3> DEFINE c == [names[s] EXCEPT !.age = @ + 1]
    <3>1. c.name = names[s].name /\ c.age = names[s].age + 1
          /\ c \in [name : Names \cup {NoName}, age : 0..CacheTtl]
      BY <2>1, <2>2
    <3>2. names[s].name \in Names /\ lapse[<<s, names[s].name>>] <= names[s].age + MaxFetch
      BY <2>1, <2>2 DEF NameFresh
    <3>3. <<s, names[s].name>> \in Facts
      BY <3>2 DEF Facts
    <3>4. lapse'[<<s, names[s].name>>] <= names[s].age + 1 + MaxFetch
      BY <1>1, <2>1, <3>2, <3>3
    <3> HIDE DEF c
    <3>5. names'[s] = c
      BY <1>3, <2>2 DEF c
    <3> QED
      BY <3>1, <3>2, <3>4, <3>5 DEF NameFresh
  <2>3. CASE ~(names[s].age + 1 < CacheTtl)
    <3>1. names'[s] = Absent
      BY <1>3, <2>3
    <3>2. Absent \in [name : Names \cup {NoName}, age : 0..CacheTtl] /\ Absent.age = CacheTtl
      BY DEF Absent
    <3> QED
      BY <3>1, <3>2 DEF NameFresh
  <2> QED
    BY <2>2, <2>3
<1>5. \A n \in Names : allowances'[n] = IF allowances[n].age + 1 < CacheTtl
                                        THEN [allowances[n] EXCEPT !.age = @ + 1] ELSE Unknown
  BY DEF Tick
<1>6. ASSUME NEW n \in Names
      PROVE  /\ allowances'[n] \in [allowed : SUBSET Budgets, age : 0..CacheTtl]
             /\ AllowanceFresh(allowances'[n], n, lapse')
  <2>1. allowances[n] \in [allowed : SUBSET Budgets, age : 0..CacheTtl]
        /\ AllowanceFresh(allowances[n], n, lapse)
    BY DEF AclInv, AclTypeOK, CachesFresh
  <2>2. CASE allowances[n].age + 1 < CacheTtl
    <3> DEFINE c == [allowances[n] EXCEPT !.age = @ + 1]
    <3>1. c.allowed = allowances[n].allowed /\ c.age = allowances[n].age + 1
          /\ c \in [allowed : SUBSET Budgets, age : 0..CacheTtl]
      BY <2>1, <2>2
    <3>2. ASSUME NEW b \in allowances[n].allowed
          PROVE  lapse'[<<n, b>>] <= allowances[n].age + 1 + MaxRead
      <4>1. <<n, b>> \in Facts
        BY <2>1 DEF Facts
      <4>2. lapse[<<n, b>>] <= allowances[n].age + MaxRead
        BY <2>1, <2>2 DEF AllowanceFresh
      <4> QED
        BY <1>1, <2>1, <4>1, <4>2
    <3> HIDE DEF c
    <3>3. allowances'[n] = c
      BY <1>5, <2>2 DEF c
    <3> QED
      BY <3>1, <3>2, <3>3 DEF AllowanceFresh
  <2>3. CASE ~(allowances[n].age + 1 < CacheTtl)
    <3>1. allowances'[n] = Unknown
      BY <1>5, <2>3
    <3>2. Unknown \in [allowed : SUBSET Budgets, age : 0..CacheTtl] /\ Unknown.age = CacheTtl
      BY DEF Unknown
    <3> QED
      BY <3>1, <3>2 DEF AllowanceFresh
  <2> QED
    BY <2>2, <2>3
<1>7. \A r \in Flights : flight'[r] = IF flight[r].phase \in Timed THEN older(flight[r])
                                      ELSE flight[r]
  BY DEF Tick
<1>8. ASSUME NEW r \in Flights
      PROVE  /\ flight'[r] \in Requests \cup {NoRequest}
             /\ flight'[r].phase = flight[r].phase
             /\ flight'[r].session = flight[r].session
             /\ flight'[r].cleared = flight[r].cleared
             /\ flight'[r].recent = flight[r].recent
             /\ RequestOK(flight'[r], lapse')
  <2> DEFINE o == flight[r]
             q == older(o)
  <2>0. RequestOK(o, lapse) /\ o \in Requests \cup {NoRequest}
    BY DEF AclInv, AclTypeOK, RequestsOK
  <2>1. CASE o.phase \in Timed
    <3>1. o \in Requests /\ o # NoRequest /\ o.age \in Nat
      BY <2>1, FlightShape, RequestShape DEF Timed, AclInv
    <3>2. Bounded(r)
      BY DEF Tick
    <3>3. /\ o.phase \in {"asking", "replied"} => o.age < MaxFetch
          /\ o.phase \in {"listing", "listed"} => o.age < MaxRead
      BY <3>2 DEF Bounded
    <3>4. o.age + 1 \in 0..(MaxFetch + MaxRead)
      BY <2>1, <3>1, <3>3 DEF Timed
    <3>5. /\ q \in Requests /\ q.age = o.age + 1 /\ q.phase = o.phase /\ q.session = o.session
          /\ q.cleared = o.cleared /\ q.recent = o.recent /\ q.behind = o.behind
          /\ q.subject = o.subject /\ q.name = o.name /\ q.known = o.known
          /\ q.allowed = o.allowed
      BY <3>1, <3>4 DEF Requests
    <3>6. o.phase = "replied" /\ o.name # NoName => lapse'[<<o.subject, o.name>>] <= o.age + 1
      <4> SUFFICES ASSUME o.phase = "replied", o.name # NoName
                   PROVE  lapse'[<<o.subject, o.name>>] <= o.age + 1
        OBVIOUS
      <4>1. <<o.subject, o.name>> \in Facts
        BY <3>1, RequestShape DEF Facts
      <4>2. lapse[<<o.subject, o.name>>] <= o.age
        BY <2>0, <3>1 DEF RequestOK
      <4> QED
        BY <1>1, <3>1, <4>1, <4>2
    <3>7. o.phase = "listed" => \A b \in o.allowed : lapse'[<<o.name, b>>] <= o.age + 1
      <4> SUFFICES ASSUME o.phase = "listed", NEW b \in o.allowed
                   PROVE  lapse'[<<o.name, b>>] <= o.age + 1
        OBVIOUS
      <4>1. <<o.name, b>> \in Facts
        BY <2>0, <3>1, RequestShape DEF Facts, RequestOK, Named
      <4>2. lapse[<<o.name, b>>] <= o.age
        BY <2>0, <3>1 DEF RequestOK
      <4> QED
        BY <1>1, <3>1, <4>1, <4>2
    <3>8. flight'[r] = q
      BY <1>7, <2>1
    <3>9. q.phase \in {"asking", "replied"} => Identifying(q)
      BY <2>0, <3>1, <3>3, <3>5 DEF RequestOK, Identifying
    <3>10. q.phase \in {"listing", "listed"} => q.age <= MaxRead
      BY <3>1, <3>3, <3>5
    <3> HIDE DEF older
    <3>11. RequestOK(q, lapse')
      BY <2>0, <2>1, <3>1, <3>5, <3>6, <3>7, <3>9, <3>10 DEF RequestOK, Named, Timed
    <3> QED
      BY <3>5, <3>8, <3>11
  <2>2. CASE o.phase \notin Timed
    <3>1. flight'[r] = o
      BY <1>7, <2>2
    <3>2. RequestOK(o, lapse')
      BY <2>0, <2>2 DEF RequestOK, Timed
    <3> QED
      BY <2>0, <3>1, <3>2
  <2> QED
    BY <2>1, <2>2
<1>9. flight' \in [Flights -> Requests \cup {NoRequest}]
  <2>1. flight' = [r \in Flights |-> IF flight[r].phase \in Timed THEN older(flight[r])
                                     ELSE flight[r]]
    BY DEF Tick
  <2> HIDE DEF older
  <2> QED
    BY <1>7, <1>8, <2>1
<1>10. names' \in [Subjects -> [name : Names \cup {NoName}, age : 0..CacheTtl]]
  BY <1>4 DEF Tick
<1>11. allowances' \in [Names -> [allowed : SUBSET Budgets, age : 0..CacheTtl]]
  BY <1>6 DEF Tick
<1>12. AclTypeOK'
  BY <1>1, <1>9, <1>10, <1>11 DEF AclInv, AclTypeOK, Tick
<1>13. CachesFresh'
  BY <1>4, <1>6 DEF CachesFresh, NameFresh, AllowanceFresh
<1>14. RequestsOK'
  BY <1>8 DEF RequestsOK, RequestOK, Identifying, Named, Tick
<1>15. OneLister'
  BY <1>8 DEF AclInv, OneLister, Tick
<1>16. Queued'
  BY <1>8 DEF AclInv, Queued, QueueOK, Tick
<1> QED
  BY <1>2, <1>12, <1>13, <1>14, <1>15, <1>16 DEF AclInv

(* The server's access lists, the identity provider and a restart.         *)
LEMMA WorldFades ==
    ASSUME AclInv, setup' = setup, UNCHANGED <<names, allowances, lister, flight, slot, preferred>>,
           lapse' \in [Facts -> 0..Horizon], \A f \in Facts : lapse'[f] <= lapse[f],
           \A f \in Facts : HoldsNow(f)' => lapse'[f] = 0,
           granted' \subseteq Names \X Budgets, goesBy' \in [Subjects -> Names \cup {NoName}],
           events' \in 0..MaxEvents
    PROVE  AclInv'
<1>1. AclTypeOK'
  BY DEF AclInv, AclTypeOK
<1>2. Remembered'
  BY DEF Remembered
<1>3. lapse \in [Facts -> 0..Horizon]
  BY DEF AclInv, AclTypeOK
<1>4. \A r \in Flights : RequestOK(flight[r], lapse')
  <2>1. \A r \in Flights : flight[r] \in Requests \cup {NoRequest} /\ RequestOK(flight[r], lapse)
    BY DEF AclInv, AclTypeOK, RequestsOK
  <2> QED
    BY <1>3, <2>1, Fading
<1>5. /\ \A s \in Subjects : NameFresh(names[s], s, lapse')
      /\ \A n \in Names : AllowanceFresh(allowances[n], n, lapse')
  <2>1. \A s \in Subjects : names[s] \in [name : Names \cup {NoName}, age : 0..CacheTtl]
                            /\ NameFresh(names[s], s, lapse)
    BY DEF AclInv, AclTypeOK, CachesFresh
  <2>2. \A n \in Names : allowances[n] \in [allowed : SUBSET Budgets, age : 0..CacheTtl]
                         /\ AllowanceFresh(allowances[n], n, lapse)
    BY DEF AclInv, AclTypeOK, CachesFresh
  <2> QED
    BY <1>3, <2>1, <2>2, Fading
<1>6. RequestsOK'
  BY <1>4 DEF RequestsOK, RequestOK, Identifying, Named
<1>7. CachesFresh'
  BY <1>5 DEF CachesFresh, NameFresh, AllowanceFresh
<1>8. OneLister' /\ Queued'
  BY DEF AclInv, OneLister, Queued, QueueOK
<1> QED
  BY <1>1, <1>2, <1>6, <1>7, <1>8 DEF AclInv

LEMMA ChangeAccessOK ==
    ASSUME AclInv, NEW n \in Names, NEW b \in Budgets, ChangeAccess(n, b)
    PROVE  AclInv'
<1>1. lapse' = [lapse EXCEPT ![<<n, b>>] = 0] /\ <<n, b>> \in Facts
  BY DEF ChangeAccess, Facts
<1>2. lapse \in [Facts -> 0..Horizon] /\ 0 \in 0..Horizon /\ Horizon \in Nat
  BY Numbers DEF AclInv, AclTypeOK
<1>3. /\ lapse' \in [Facts -> 0..Horizon]
      /\ \A f \in Facts : lapse'[f] = IF f = <<n, b>> THEN 0 ELSE lapse[f]
      /\ \A f \in Facts : lapse'[f] <= lapse[f]
  BY <1>1, <1>2
<1>4. ASSUME NEW f \in Facts, HoldsNow(f)'
      PROVE  lapse'[f] = 0
  <2>1. f = <<n, b>> \/ HoldsNow(f)
    BY <1>4 DEF HoldsNow, ChangeAccess
  <2> QED
    BY <1>3, <2>1 DEF AclInv, Remembered
<1>5. granted' \subseteq Names \X Budgets
  BY DEF ChangeAccess, AclInv, AclTypeOK
<1> QED
  BY <1>3, <1>4, <1>5, WorldFades DEF ChangeAccess, Spend, AclInv, AclTypeOK

LEMMA RenameOK ==
    ASSUME AclInv, NEW s \in Subjects, NEW n \in Names \cup {NoName}, Rename(s, n)
    PROVE  AclInv'
<1>1. lapse' = [f \in Facts |-> IF f = <<s, n>> \/ f = <<s, goesBy[s]>> THEN 0 ELSE lapse[f]]
      /\ goesBy' = [goesBy EXCEPT ![s] = n] /\ granted' = granted
  BY DEF Rename
<1>2. lapse \in [Facts -> 0..Horizon] /\ 0 \in 0..Horizon /\ Horizon \in Nat
      /\ goesBy \in [Subjects -> Names \cup {NoName}]
  BY Numbers DEF AclInv, AclTypeOK
<1>3. /\ lapse' \in [Facts -> 0..Horizon]
      /\ \A f \in Facts : f = <<s, n>> => lapse'[f] = 0
      /\ \A f \in Facts : lapse'[f] <= lapse[f]
      /\ \A f \in Facts : lapse[f] = 0 => lapse'[f] = 0
  BY <1>1, <1>2
<1>4. ASSUME NEW f \in Facts, HoldsNow(f)'
      PROVE  lapse'[f] = 0
  <2>1. f = <<f[1], f[2]>>
    BY DEF Facts
  <2>2. HoldsNow(f) \/ (f[1] = s /\ f[2] = n)
    BY <1>1, <1>2, <1>4 DEF HoldsNow
  <2>3. HoldsNow(f) \/ f = <<s, n>>
    BY <2>1, <2>2
  <2> QED
    BY <1>3, <2>3 DEF AclInv, Remembered
<1>5. goesBy' \in [Subjects -> Names \cup {NoName}]
  BY <1>1, <1>2
<1> QED
  BY <1>1, <1>3, <1>4, <1>5, WorldFades DEF Rename, Spend, AclInv, AclTypeOK

LEMMA GrantForgotten ==
    /\ Absent \in [name : Names \cup {NoName}, age : 0..CacheTtl]
    /\ Unknown \in [allowed : SUBSET Budgets, age : 0..CacheTtl]
    /\ \A s, lp : NameFresh(Absent, s, lp)
    /\ \A n, lp : AllowanceFresh(Unknown, n, lp)
<1>1. CacheTtl \in 0..CacheTtl /\ ~(CacheTtl < CacheTtl)
  OBVIOUS
<1>2. Absent \in [name : Names \cup {NoName}, age : 0..CacheTtl] /\ Absent.age = CacheTtl
  BY <1>1 DEF Absent
<1>3. Unknown \in [allowed : SUBSET Budgets, age : 0..CacheTtl] /\ Unknown.age = CacheTtl
  BY <1>1 DEF Unknown
<1> QED
  BY <1>1, <1>2, <1>3 DEF NameFresh, AllowanceFresh

LEMMA RestartOK ==
    ASSUME AclInv, Restart
    PROVE  AclInv'
<1>1. AclTypeOK'
  BY GrantForgotten DEF AclInv, AclTypeOK, Restart, Spend
<1>2. Remembered'
  BY DEF AclInv, Remembered, HoldsNow, Restart
<1>3. CachesFresh'
  BY GrantForgotten DEF CachesFresh, NameFresh, AllowanceFresh, Restart
<1>4. RequestsOK' /\ OneLister' /\ Queued'
  BY NoRequestOK DEF RequestsOK, RequestOK, OneLister, Queued, QueueOK, Restart
<1> QED
  BY <1>1, <1>2, <1>3, <1>4 DEF AclInv

-----------------------------------------------------------------------------
(* The theorems                                                            *)

LEMMA AclInitOK == AclInit => AclInv
<1> SUFFICES ASSUME AclInit PROVE AclInv
  OBVIOUS
<1>1. AclTypeOK
  <2>1. Horizon \in Nat /\ 0 \in 0..Horizon /\ Horizon \in 0..Horizon
    BY Numbers
  <2>2. lapse \in [Facts -> 0..Horizon]
    BY <2>1 DEF AclInit
  <2> QED
    BY <2>2, GrantForgotten DEF AclInit, AclTypeOK
<1>2. Remembered
  BY DEF AclInit, Remembered
<1>3. CachesFresh
  BY GrantForgotten DEF AclInit, CachesFresh
<1>4. RequestsOK /\ OneLister /\ Queued
  BY NoRequestOK DEF AclInit, RequestsOK, OneLister, Queued, QueueOK
<1> QED
  BY <1>1, <1>2, <1>3, <1>4 DEF AclInv

LEMMA AclStepOK == AclInv /\ [AclNext]_aclVars => AclInv'
<1> SUFFICES ASSUME AclInv, [AclNext]_aclVars PROVE AclInv'
  OBVIOUS
<1>1. CASE World
  BY <1>1, TickOK, RestartOK, ChangeAccessOK, RenameOK DEF World
<1>2. ASSUME NEW r \in Flights, Middleware(r)
      PROVE  AclInv'
  BY <1>2, ArriveOK, UserInfoRepliesOK, UserInfoArrivesOK, UserInfoFailsOK, StartListingOK,
     ServerListsOK, ListingArrivesOK, ListingFailsOK DEF Middleware
<1>3. ASSUME NEW r \in Flights, Acts(r)
      PROVE  AclInv'
  BY <1>3, EnforceOK, OperateOK, RespondOK, SwitchBudgetOK, CloseSessionOK DEF Acts
<1>4. CASE UNCHANGED aclVars
  BY <1>4 DEF aclVars, AclInv, AclTypeOK, Remembered, HoldsNow, CachesFresh, NameFresh,
     AllowanceFresh, RequestsOK, RequestOK, Identifying, Named, OneLister, Queued, QueueOK
<1> QED
  BY <1>1, <1>2, <1>3, <1>4 DEF AclNext

THEOREM AclInvariant == AclSpec => []AclInv
<1>1. AclInit => AclInv
  BY AclInitOK
<1>2. AclInv /\ [AclNext]_aclVars => AclInv'
  BY AclStepOK
<1> QED
  BY <1>1, <1>2, PTL DEF AclSpec

(* Types: the caches, the requests in flight, the slots and the file.      *)
THEOREM AclTyped == AclSpec => []AclTypeOK
<1>1. AclInv => AclTypeOK
  BY DEF AclInv
<1> QED
  BY <1>1, AclInvariant, PTL

(* However the caches, the time-outs and the requests are sized and        *)
(* interleaved, an operation only runs on a budget that was granted, under *)
(* a name that was the caller's, within one lifetime and one answer.       *)
THEOREM AclAccessWasGranted == AclSpec => []AccessWasGranted
<1>1. AclInv => AccessWasGranted
  <2> SUFFICES ASSUME AclInv, NEW r \in Flights, flight[r].phase = "ran", ~flight[r].cleared
               PROVE  flight[r].ran \in flight[r].recent
    BY DEF AccessWasGranted
  <2>1. flight[r] \in Requests
    BY FlightShape DEF AclInv
  <2> QED
    BY <2>1, RequestShape DEF AclInv, RequestsOK, RequestOK
<1> QED
  BY <1>1, AclInvariant, PTL

(* No answer of the server is cached after one that was read later: the    *)
(* listing of one request is over before the next one begins.              *)
THEOREM AclAnswersAdvance == AclSpec => []AnswersAdvance
<1>1. AclInv => AnswersAdvance
  <2> SUFFICES ASSUME AclInv, NEW r \in Flights, flight[r].phase = "listed"
               PROVE  ~flight[r].behind
    BY DEF AnswersAdvance
  <2>1. flight[r] \in Requests
    BY FlightShape DEF AclInv
  <2> QED
    BY <2>1, RequestShape DEF AclInv, RequestsOK, RequestOK
<1> QED
  BY <1>1, AclInvariant, PTL
=============================================================================
