----------------------------- MODULE TrainFailure -----------------------------
(***************************************************************************)
(* scripts/report-train-failure.mjs: the job that runs after every release *)
(* train, whatever became of it, and keeps the issues with the label       *)
(* train-failure: one is opened by the first failure, counted up by the    *)
(* next ones and closed by a success.  Trains run one after the other      *)
(* (dependency-update.yml); requests to the tracker fail, and one that     *)
(* failed may have been carried out.                                       *)
(***************************************************************************)
EXTENDS Integers, FiniteSets, FiniteSetsExt

CONSTANTS Issues,    \* numbers the tracker can give
          MaxTrains, \* bound: trains that run
          MaxHands   \* bound: things people do to the issues

ASSUME TrainAssumption == Issues \subseteq Nat /\ MaxTrains \in Nat /\ MaxHands \in Nat

VARIABLES
    tracker,  \* consecutive failures of each open issue, or Shut
    train,    \* the train that is reported on
    job,      \* what the reporter is doing: its phase, the issues it still has to close
    owed,     \* a failure is on file that no success has answered and nobody has closed
    trains, hands

trainVars == <<tracker, train, job, owed, trains, hands>>

Shut == -1
Filed == {i \in Issues : tracker[i] # Shut}

\* TRAIN_OUTCOME is written by the last step, so that only a post step can break a
\* train that has written it.
TrainRuns ==
    {r \in [wrote: {"unset", "success", "noop"}, broke: BOOLEAN,
            result: {"success", "failure", "cancelled"}] :
        (r.result = "success" => ~r.broke) /\ (r.result = "failure" => r.broke)}

KnownOutcomes == {"success", "noop"}

\* A cancelled job, an outcome that is missing, a failed step.
ClassifyOutcome(r, corroborated) ==
    IF \/ r.result = "cancelled" \/ r.wrote \notin KnownOutcomes
       \/ corroborated /\ r.broke
    THEN "failure"
    ELSE IF r.wrote = "success" THEN "success" ELSE "ignore"

\* Mutant: duplicates are closed with the oldest among them.
TransitionClosesAll(action, open) ==
    CASE action = "failure" /\ open = {}   -> [phase |-> "open", issue |-> {}, closing |-> {}]
      [] action = "failure" /\ open # {}   -> [phase |-> "count", issue |-> {Min(open)},
                                               closing |-> open]
      [] action = "success" /\ open # {}   -> [phase |-> "close", issue |-> {}, closing |-> open]
      [] OTHER                             -> [phase |-> "over", issue |-> {}, closing |-> {}]

\* Failures converge on the oldest issue; a success closes them all.
DecideTransition(action, open) ==
    CASE action = "failure" /\ open = {}   -> [phase |-> "open", issue |-> {}, closing |-> {}]
      [] action = "failure" /\ open # {}   -> [phase |-> "count", issue |-> {Min(open)},
                                               closing |-> open \ {Min(open)}]
      [] action = "success" /\ open # {}   -> [phase |-> "close", issue |-> {}, closing |-> open]
      [] OTHER                             -> [phase |-> "over", issue |-> {}, closing |-> {}]
-----------------------------------------------------------------------------
NoJob == [phase |-> "over", issue |-> {}, closing |-> {}, sawSteps |-> FALSE]

TrainInit ==
    /\ tracker = [i \in Issues |-> Shut] /\ job = NoJob /\ owed = FALSE
    /\ train \in {r \in TrainRuns : r.result = "success" /\ r.wrote = "noop"}
    /\ trains = 0 /\ hands = 0

\* concurrency: dependency-update-train.
RunTrain ==
    /\ job.phase = "over" /\ trains < MaxTrains /\ trains' = trains + 1
    /\ train' \in TrainRuns
    /\ job' = [NoJob EXCEPT !.phase = "listing"]
    /\ UNCHANGED <<tracker, owed, hands>>

\* The jobs API may be out: the reporter goes on without it.
ListOpenIssues ==
    /\ job.phase = "listing"
    /\ \E sawSteps \in BOOLEAN :
           LET t == DecideTransition(ClassifyOutcome(train, sawSteps), Filed)
           IN  /\ job' = [phase |-> t.phase, issue |-> t.issue, closing |-> t.closing,
                          sawSteps |-> sawSteps]
               /\ owed' = (owed /\ t.phase # "close")
    /\ UNCHANGED <<tracker, train, trains, hands>>

Lands(t) == tracker' = t

\* Nothing was read, or a request failed: the rest is left undone.
GivesUp ==
    /\ job.phase # "over" /\ job' = NoJob
    /\ UNCHANGED <<tracker, train, owed, trains, hands>>

OpenFailure ==
    /\ job.phase = "open" /\ Filed # Issues
    /\ \E i \in Issues \ Filed :
           /\ \A j \in Filed : i > j
           /\ Lands([tracker EXCEPT ![i] = 1])
    /\ job' = NoJob /\ owed' = TRUE
    /\ UNCHANGED <<train, trains, hands>>

\* The body is the one that was listed; that somebody has closed the issue since does
\* not reopen it.
CountFailure ==
    /\ job.phase = "count" /\ job.issue # {}
    /\ LET i == CHOOSE x \in job.issue : TRUE
       IN  /\ Lands([tracker EXCEPT ![i] = IF @ = Shut THEN @ ELSE @ + 1])
           /\ owed' = (owed \/ tracker[i] # Shut)
    /\ job' = [job EXCEPT !.issue = {}]
    /\ UNCHANGED <<train, trains, hands>>

\* Duplicates after a failure, every issue after a success: one request each.
CloseNext ==
    /\ job.phase = "close" \/ (job.phase = "count" /\ job.issue = {})
    /\ IF job.closing = {} THEN job' = NoJob /\ Lands(tracker)
       ELSE LET i == Min(job.closing)
            IN  /\ Lands([tracker EXCEPT ![i] = Shut])
                /\ job' = [job EXCEPT !.closing = @ \ {i}]
    /\ UNCHANGED <<train, owed, trains, hands>>

\* Somebody closes an issue, or puts the label on one of their own.
ByHand ==
    /\ hands < MaxHands /\ hands' = hands + 1
    /\ \E i \in Issues :
           \/ i \in Filed /\ Lands([tracker EXCEPT ![i] = Shut]) /\ owed' = FALSE
           \/ i \notin Filed /\ Lands([tracker EXCEPT ![i] = 0]) /\ owed' = owed
    /\ UNCHANGED <<train, job, trains>>

TrainNext ==
    \/ RunTrain \/ ListOpenIssues \/ GivesUp \/ OpenFailure \/ CountFailure \/ CloseNext
    \/ ByHand

TrainSpec == TrainInit /\ [][TrainNext]_trainVars
-----------------------------------------------------------------------------
TrainTypeOK ==
    /\ tracker \in [Issues -> Shut..MaxTrains] /\ owed \in BOOLEAN /\ train \in TrainRuns
    /\ job.phase \in {"over", "listing", "open", "count", "close"} /\ job.closing \subseteq Issues

(* A failure that was filed stays on file until a train succeeds or        *)
(* somebody closes it, duplicates or not; and a failure is not announced   *)
(* as recovered by a train that broke, unless the steps could not be seen. *)
FailureIsTrue ==
    /\ owed => Filed # {}
    /\ job.phase = "close" => train.wrote = "success" /\ (train.broke => ~job.sawSteps)
=============================================================================
