------------------------------ MODULE TrainStale ------------------------------
(***************************************************************************)
(* scripts/report-train-stale.mjs: on every push a pass reads the          *)
(* scheduled workflows that are watched and keeps one issue of the tracker *)
(* true: open while one of them does not run, closed once all of them do.  *)
(* What the API answers may be incomplete, or fail, or come too late: a    *)
(* newer push cancels the pass wherever it is (ci-cd.yml).                 *)
(***************************************************************************)
EXTENDS Integers, FiniteSets

CONSTANTS Watched,  \* WATCHED_WORKFLOWS
          MaxNews   \* bound: events outside the pass

ASSUME StaleAssumption == MaxNews \in Nat

VARIABLES
    cron,   \* the workflows; fired: in the last 48 h, past: before them, young: made in them
    issues, \* the open issues with the label train-stale
    pass,   \* the pass that is running
    news    \* events so far (bounded by MaxNews)

staleVars == <<cron, issues, pass, news>>

Unread == {0}  \* openStaleIssues = null; issues are numbered from 1

\* A run inside the window, and one before it, as far as there are any.
RunsOf(f) == {r \in {"recent", "old"} : IF r = "recent" THEN cron[f].fired ELSE cron[f].past}

\* By its date, never by its place in the page.
NewestScheduledRun(page) ==
    IF "recent" \in page THEN "recent" ELSE IF page = {} THEN "none" ELSE "old"

\* A workflow is no proof of a dead cron before it is as old as the window.
ClassifyLiveness(state, run, young) ==
    IF state # "active" THEN IF state = "gone" THEN "not_found" ELSE "disabled"
    ELSE CASE run = "recent"         -> "ok"
           [] run = "old"            -> "no_recent_run"
           [] run = "none" /\ young  -> "too_young"
           [] run = "none" /\ ~young -> "never_ran"

StaleReasons == {"not_found", "disabled", "no_recent_run", "never_ran"}

\* Only what a page of runs says is confirmed.
ShouldConfirm(reason) == reason \in {"no_recent_run", "never_ran"}

\* Mutant: a read that failed leaves the first verdict standing.
ReconcileKeepsFirst(first, second) == IF second = "inconclusive" THEN first ELSE second

\* A read that saw a run wins, and a read that failed is not a second observation.
Reconcile(first, second) ==
    IF first \in StaleReasons /\ (second \notin StaleReasons \/ first = "never_ran")
    THEN second ELSE first

\* Nothing is written from a read that did not happen.
DecideStaleTransition(finding, open) ==
    IF open = Unread THEN "off"
    ELSE IF \E f \in Watched : finding[f] \in StaleReasons
    THEN IF open = {} THEN "open" ELSE "update"
    ELSE IF open # {} /\ \A f \in Watched : finding[f] # "inconclusive" THEN "close" ELSE "off"
-----------------------------------------------------------------------------
\* `live`, `dead`: what the watched workflows were when the pass read them.
\* `short`: pages that lacked the newest run.
NewPass == [phase |-> "reading", todo |-> Watched, finding |-> [f \in Watched |-> "unread"],
            first |-> "none", at |-> {}, open |-> {},
            live |-> {}, dead |-> {}, short |-> [f \in Watched |-> 0]]

StaleInit ==
    /\ cron \in [Watched -> {[state |-> "active", fired |-> TRUE, past |-> TRUE, young |-> FALSE],
                             [state |-> "active", fired |-> FALSE, past |-> FALSE, young |-> TRUE]}]
    /\ issues = {} /\ pass = [NewPass EXCEPT !.phase = "off"] /\ news = 0

Event == news < MaxNews /\ news' = news + 1

\* on: push, cancel-in-progress.
Push == Event /\ pass' = NewPass /\ UNCHANGED <<cron, issues>>

Firing(f) == cron[f].fired \/ (cron[f].young /\ ~cron[f].past)

Witness(p, f, alive) == IF alive THEN [p EXCEPT !.live = @ \cup {f}]
                        ELSE [p EXCEPT !.dead = @ \cup {f}]

Finds(p, f, reason) ==
    [p EXCEPT !.phase = "reading", !.todo = @ \ {f}, !.finding[f] = reason, !.first = "none",
              !.at = {}]

Reads(p, f, page) ==
    IF NewestScheduledRun(page) = NewestScheduledRun(RunsOf(f)) THEN p
    ELSE [p EXCEPT !.short[f] = @ + 1]

\* The workflow itself, the question whether any run is inside the window, and a page
\* of runs.  Only an affirmative answer to the question counts.
ReadWorkflow(f) ==
    LET p == Witness(pass, f, cron[f].state = "active" /\ Firing(f))
    IN  /\ pass.phase = "reading" /\ f \in pass.todo
        /\ \/ pass' = Finds(p, f, "inconclusive")
           \/ /\ cron[f].state # "active"
              /\ pass' = Finds(p, f, ClassifyLiveness(cron[f].state, "none", FALSE))
           \/ cron[f].state = "active" /\ cron[f].fired /\ pass' = Finds(p, f, "ok")
           \/ /\ cron[f].state = "active"
              /\ \E page \in SUBSET RunsOf(f) :
                     LET reason == ClassifyLiveness("active", NewestScheduledRun(page),
                                                    cron[f].young)
                     IN  pass' = IF ShouldConfirm(reason)
                                 THEN [Reads(p, f, page) EXCEPT !.phase = "confirming",
                                                                !.first = reason, !.at = {f}]
                                 ELSE Finds(Reads(p, f, page), f, reason)
        /\ UNCHANGED <<cron, issues, news>>

\* One more read, CONFIRM_DELAY_MS later, of the page alone.
Confirm(f) ==
    LET p == Witness(pass, f, Firing(f))
    IN  /\ pass.phase = "confirming" /\ f \in pass.at
        /\ \/ pass' = Finds(p, f, Reconcile(pass.first, "inconclusive"))
           \/ \E page \in SUBSET RunsOf(f) :
                  pass' = Finds(Reads(p, f, page), f,
                                Reconcile(pass.first, ClassifyLiveness("active",
                                    NewestScheduledRun(page), cron[f].young)))
        /\ UNCHANGED <<cron, issues, news>>

ListIssues ==
    /\ pass.phase = "reading" /\ pass.todo = {}
    /\ \E open \in {issues, Unread} :
           pass' = [pass EXCEPT !.open = IF open = Unread THEN {} ELSE open,
                                !.phase = DecideStaleTransition(pass.finding, open)]
    /\ UNCHANGED <<cron, issues, news>>

Rests == pass' = [NewPass EXCEPT !.phase = "off"] /\ UNCHANGED <<cron, news>>

\* The request may fail; the run is red either way.
OpenIssue ==
    /\ pass.phase = "open" /\ Rests
    /\ issues' \in {issues, issues \cup {Cardinality(issues) + 1}}

UpdateIssue == pass.phase = "update" /\ Rests /\ issues' = issues

CloseIssues ==
    /\ pass.phase = "close" /\ Rests
    /\ \E closed \in SUBSET pass.open : issues' = issues \ closed

\* A schedule fires, misses every night of the window, is disabled or enabled; a
\* workflow is renamed; somebody closes the issue.
Scheduling(f) ==
    /\ Event
    /\ \E c \in {[cron[f] EXCEPT !.fired = TRUE],
                 [cron[f] EXCEPT !.fired = FALSE, !.past = @ \/ cron[f].fired, !.young = FALSE],
                 [cron[f] EXCEPT !.state = "disabled"], [cron[f] EXCEPT !.state = "gone"],
                 [cron[f] EXCEPT !.state = "active"]} :
           /\ cron[f].state = "active" \/ c.fired = cron[f].fired \/ ~c.fired
           /\ c # cron[f] /\ cron' = [cron EXCEPT ![f] = c]
    /\ UNCHANGED <<issues, pass>>

SomebodyCloses == Event /\ issues # {} /\ issues' = {} /\ UNCHANGED <<cron, pass>>

StaleNext ==
    \/ Push \/ ListIssues \/ OpenIssue \/ UpdateIssue \/ CloseIssues \/ SomebodyCloses
    \/ \E f \in Watched : ReadWorkflow(f) \/ Confirm(f) \/ Scheduling(f)

StaleSpec == StaleInit /\ [][StaleNext]_staleVars
-----------------------------------------------------------------------------
StaleTypeOK ==
    /\ issues \subseteq Nat /\ pass.todo \subseteq Watched /\ news \in 0..MaxNews
    /\ pass.phase \in {"off", "reading", "confirming", "open", "update", "close"}

(* There is one issue at most.  It is opened for a workflow that did not   *)
(* run when the pass read it, or whose page lacked the newest run both     *)
(* times: no single incomplete read opens it (#436).  It is closed when    *)
(* the pass has seen every watched workflow run, not when it could not     *)
(* look (#436, #442).                                                      *)
StaleIsTrue ==
    /\ Cardinality(issues) <= 1
    /\ pass.phase \in {"open", "update"} =>
           \E f \in Watched : /\ pass.finding[f] \in StaleReasons
                              /\ f \in pass.dead \/ pass.short[f] = 2
    /\ pass.phase = "close" => Watched \subseteq pass.live
=============================================================================
