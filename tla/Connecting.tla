------------------------------ MODULE Connecting ------------------------------
(***************************************************************************)
(* What a caller is told when its call fails: the login and its retries    *)
(* (auth-retry.ts), the version warning (server-version-guard.ts), the     *)
(* load of the budget with its diagnosis and the cache of reasons          *)
(* (budgetLoader.ts), the limiter and the retries around the operation     *)
(* (concurrency.ts, retry.ts), and the sentence a stdio client is given in *)
(* the end (init-failure.ts, stdioServer.ts).                              *)
(*                                                                         *)
(* One stdio process: its calls hold the api lock in turn (module ApiLock),*)
(* so one call is in progress at a time; what outlives a call is a load or *)
(* an operation that was abandoned at its time-out.                        *)
(***************************************************************************)
EXTENDS Integers

CONSTANTS
    Files,          \* the budgets a caller may have selected
    LoginRetries,   \* DEFAULT_RETRY_ATTEMPTS
    OpRetries,      \* retries of an operation
    AfterUses,      \* REDIAGNOSE_AFTER_USES
    ProbeAttempts,  \* MAX_PROBE_ATTEMPTS
    Slots,          \* MAX_CONCURRENCY
    MaxTalks,       \* model bounds: calls, and changes around them
    MaxTurns

ASSUME ConnectingAssumption ==
    /\ {LoginRetries, OpRetries, MaxTalks, MaxTurns} \subseteq Nat
    /\ {AfterUses, ProbeAttempts, Slots} \subseteq Nat \ {0}
    /\ {"none", "diagnosis"} \cap Files = {}

VARIABLES
    weather,  \* of the server: fine, or what a request meets now
    ahead,    \* the server is newer than the api this build bundles
    state,    \* of the local copy of each budget
    turns,    \* changes of the three above
    live,     \* _apiInitialized
    open,     \* _loadedBudgetSyncId
    reasons,  \* reasonCache
    guard,    \* checked, attempts; and whether a warning was logged, of what
    running,  \* of the limiter
    queued,   \* abandoned entries of the limiter's queue
    hung,     \* abandoned operations that have not settled
    late,     \* the load that was abandoned and has not settled
    talk,     \* the call in progress, or the last one
    talks,
    lately,   \* for a cause a cache may repeat: failed calls since it was true
    silent    \* diagnoses that failed since the last that answered

outside == <<weather, ahead, state, turns>>
memory == <<reasons, lately, silent>>
limiter == <<running, queued, hung>>
connectVars == <<outside, live, open, memory, guard, limiter, late, talk, talks>>

Weathers == {"fine", "throttle", "network", "stall", "password"}

\* Opens; the migrations of a newer server; a load that is out of sync; a copy that
\* is not a database; no copy.
States == {"fine", "schema", "sync", "raw", "gone"}

None == "none"
Never == (AfterUses + 1) * (MaxTalks + 1)
Forgotten == [schema_too_new |-> Never, timeout |-> Never]

(***************************************************************************)
(* Errors: a code, the words of the message that are matched, the reason   *)
(* it embeds, and the brand of an initialisation failure.                  *)
(***************************************************************************)
Fault(code, words) == [code |-> code, words |-> words, reason |-> None, branded |-> FALSE]

OpTimeout == Fault(None, {"timed out"})

LoginFault ==
    [throttle |-> Fault(None, {"Authentication failed", "Too many requests"}),
     network |-> Fault(None, {"Authentication failed", "network-failure"}),
     password |-> Fault(None, {"Authentication failed", "invalid-password"}),
     stall |-> OpTimeout]

LoadFault ==
    [throttle |-> Fault("too-many-requests", {}), network |-> Fault(None, {"network-failure"}),
     sync |-> Fault("out-of-sync", {})]

OpFault ==
    [throttle |-> Fault(None, {"Authentication failed", "Too many requests"}),
     network |-> Fault("ECONNRESET", {"ECONNRESET"}), domain |-> Fault(None, {})]

IsRateLimitError(e) == e.code = "too-many-requests" \/ "Too many requests" \in e.words

IsRetryableError(e) == e.words \cap {"Authentication failed", "ECONNRESET", "timed out"} # {}

IsRetryableAuthError(e) ==
    IsRateLimitError(e) \/ {"Authentication failed", "network-failure"} \subseteq e.words

ShouldDropPoolOnError(e) == IsRetryableError(e) /\ ~IsRateLimitError(e)

ReasonToCause ==
    [x \in {"out-of-sync", "out-of-sync-migrations"} |->
        IF x = "out-of-sync" THEN "out_of_sync" ELSE "schema_too_new"]

\* Mutant: the credentials are blamed before the rate limit is thought of.
ClassifyAuthFirst(e) ==
    IF e.code \in DOMAIN ReasonToCause THEN ReasonToCause[e.code]
    ELSE IF e.reason \in DOMAIN ReasonToCause THEN ReasonToCause[e.reason]
    ELSE IF "network-failure" \in e.words THEN "network_unreachable"
    ELSE IF "timed out" \in e.words THEN "timeout"
    ELSE IF "Authentication failed" \in e.words THEN "auth_failed"
    ELSE IF IsRateLimitError(e) THEN "rate_limited"
    ELSE "unknown"

\* The first rule that applies.
ClassifyInitFailure(e) ==
    IF e.code \in DOMAIN ReasonToCause THEN ReasonToCause[e.code]
    ELSE IF e.code = "ECONNRESET" THEN "network_unreachable"
    ELSE IF e.reason \in DOMAIN ReasonToCause THEN ReasonToCause[e.reason]
    ELSE IF "network-failure" \in e.words THEN "network_unreachable"
    ELSE IF "timed out" \in e.words THEN "timeout"
    ELSE IF IsRateLimitError(e) THEN "rate_limited"
    ELSE IF "Authentication failed" \in e.words THEN "auth_failed"
    ELSE "unknown"

MarkInitFailure(e) == [e EXCEPT !.branded = TRUE]

\* Only an error of the connection is given one of the fixed sentences.
StdioReply(e) ==
    LET cause == ClassifyInitFailure(e)
    IN  IF e.branded /\ cause # "unknown" THEN [how |-> "named", cause |-> cause]
        ELSE [how |-> "raw", cause |-> IF "timed out" \in e.words THEN "timeout" ELSE None]

NoReply == [how |-> None, cause |-> None]

-----------------------------------------------------------------------------
(***************************************************************************)
(* The call                                                                *)
(***************************************************************************)
\* met: what the connection met in this call; readable: the server was ahead and
\* could be asked when it was; stuck: the operation's own request stalled, or found
\* no slot; behind: the abandoned load that it waits for, or was stopped by.
Fresh ==
    [on |-> None, kind |-> "read", phase |-> "idle", tries |-> 0, met |-> {}, behind |-> None,
     readable |-> FALSE, stuck |-> FALSE, reply |-> NoReply]

ConnectInit ==
    /\ weather = "fine" /\ ahead = FALSE /\ state = [b \in Files |-> "fine"] /\ turns = 0
    /\ live = FALSE /\ open = None /\ late = None
    /\ reasons = [b \in Files |-> [reason |-> None, uses |-> 0]]
    /\ guard = [checked |-> FALSE, attempts |-> 0, judged |-> None]
    /\ running = 0 /\ queued = 0 /\ hung = 0 /\ talk = Fresh /\ talks = 0
    /\ lately = [b \in Files |-> Forgotten] /\ silent = [b \in Files |-> 0]

Resting == talk.phase \in {"idle", "told"}

\* withActualApi: log in when nothing is live, select the budget when it is not the
\* one that is loaded.
FirstStep(b) == IF ~live THEN "login" ELSE IF open # b THEN "probe" ELSE "admit"

\* The lock waits for an abandoned load before it lets the call in.
StartCall(b, kind) ==
    /\ Resting /\ talks < MaxTalks
    /\ talk' = [Fresh EXCEPT !.on = b, !.kind = kind, !.behind = late,
                             !.phase = IF late = None THEN FirstStep(b) ELSE "settle"]
    /\ talks' = talks + 1
    /\ UNCHANGED <<outside, live, open, memory, guard, limiter, late>>

LoadIsAwaited ==
    /\ talk.phase = "settle" /\ late = None
    /\ talk' = [talk EXCEPT !.phase = FirstStep(talk.on), !.behind = None]
    /\ UNCHANGED <<outside, live, open, memory, guard, limiter, late, talks>>

\* What a call that ends with an error leaves: the error that suggests a corrupted
\* connection tears the singleton down.
TornDown(e) == live' = (live /\ ~ShouldDropPoolOnError(e))

Told(t, e) == [t EXCEPT !.phase = "told", !.reply = StdioReply(e)]

\* The wait is bounded, and fails closed: the load stays registered, and the error
\* passes withActualApi by, which neither brands it nor tears anything down.
AwaitTimesOut ==
    /\ talk.phase = "settle" /\ late # None
    /\ talk' = Told(talk, OpTimeout)
    /\ UNCHANGED <<outside, live, open, memory, guard, limiter, late, talks>>

CauseOf == [throttle |-> "rate_limited", network |-> "network_unreachable",
            stall |-> "timeout", password |-> "auth_failed"]

Meets(cause) == [talk EXCEPT !.met = @ \cup {cause}]

\* withAuthRetry around api.init.
LogIn ==
    /\ talk.phase = "login"
    /\ IF weather = "fine"
       THEN talk' = [talk EXCEPT !.phase = "probe", !.tries = 0]
       ELSE LET e == LoginFault[weather]
                met == Meets(CauseOf[weather])
            IN  talk' = IF IsRetryableAuthError(e) /\ talk.tries < LoginRetries
                        THEN [met EXCEPT !.tries = @ + 1]
                        ELSE Told(met, MarkInitFailure(e))
    /\ UNCHANGED <<outside, live, open, memory, guard, limiter, late, talks>>

\* checkServerVersion of a version that was read.
Verdict == IF ahead THEN "ahead" ELSE "fit"

\* A version is judged once; a probe that fails leaves the next call another.  The
\* calls hold the lock, so that a probe never finds another in flight.
CheckServerVersionOnce ==
    IF guard.checked \/ guard.attempts >= ProbeAttempts THEN guard' = guard
    ELSE IF weather \in {"fine", "password"}
    THEN guard' = [guard EXCEPT !.checked = TRUE, !.judged = Verdict]
    ELSE guard' = [guard EXCEPT !.attempts = @ + 1]

ProbeBeforeLoad ==
    /\ talk.phase = "probe"
    /\ CheckServerVersionOnce
    /\ talk' = [talk EXCEPT !.phase = "load",
                            !.readable = ahead /\ weather \in {"fine", "password"}]
    /\ UNCHANGED <<outside, live, open, memory, limiter, late, talks>>

-----------------------------------------------------------------------------
(***************************************************************************)
(* The load and its diagnosis                                              *)
(***************************************************************************)
ClearCachedReason(b) ==
    /\ reasons' = [reasons EXCEPT ![b] = [reason |-> None, uses |-> 0]]
    /\ lately' = [lately EXCEPT ![b] = Forgotten]
    /\ silent' = [silent EXCEPT ![b] = 0]

\* The download resolved and the budget is open.
LoadOpens ==
    /\ talk.phase = "load" /\ weather \in {"fine", "password"} /\ state[talk.on] = "fine"
    /\ open' = talk.on /\ live' = TRUE
    /\ ClearCachedReason(talk.on)
    /\ talk' = [talk EXCEPT !.phase = "admit"]
    /\ UNCHANGED <<outside, guard, limiter, late, talks>>

\* It resolved and no budget is open.
LoadOpensNothing ==
    /\ talk.phase = "load" /\ weather \in {"fine", "password"}
    /\ state[talk.on] \in {"schema", "raw", "gone"}
    /\ open' = None /\ live' = FALSE
    /\ talk' = [talk EXCEPT !.phase = "diagnose"]
    /\ UNCHANGED <<outside, memory, guard, limiter, late, talks>>

LoadRejects ==
    /\ talk.phase = "load"
    /\ \/ weather \in {"throttle", "network"}
          /\ talk' = Told(Meets(CauseOf[weather]), MarkInitFailure(LoadFault[weather]))
       \/ weather \in {"fine", "password"} /\ state[talk.on] = "sync"
          /\ talk' = Told(Meets("out_of_sync"), MarkInitFailure(LoadFault.sync))
    /\ open' = None /\ live' = FALSE
    /\ UNCHANGED <<outside, memory, guard, limiter, late, talks>>

\* The load, or the probe of the open budget that ends it, is abandoned.
LoadTimesOut ==
    /\ talk.phase = "load" /\ weather = "stall"
    /\ talk' = Told(Meets("timeout"), MarkInitFailure(OpTimeout))
    /\ open' = None /\ TornDown(OpTimeout)
    /\ late' = talk.on
    /\ UNCHANGED <<outside, memory, guard, limiter, talks>>

\* An abandoned load leaves the record alone and still clears the reason; when it
\* rejects, the api is no longer live.
LateLoadSettles ==
    /\ late # None
    /\ late' = None
    /\ \/ late \in Files /\ ClearCachedReason(late) /\ live' = live
       \/ live' = FALSE /\ UNCHANGED memory
    /\ UNCHANGED <<outside, open, guard, limiter, talk, talks>>

\* The post-condition's error, with the reason in its text.
PostConditionError(reason) ==
    MarkInitFailure([Fault(None, IF reason = "timed out" THEN {"timed out"} ELSE {})
                     EXCEPT !.reason = reason])

\* A diagnosis is over: what is cached for the budget, and what the caller is told.
Answers(t, cached, reason) ==
    LET b == t.on
        true == t.met \cup (IF state[b] = "schema" THEN {"schema_too_new"} ELSE {})
    IN  /\ reasons' = [reasons EXCEPT ![b] = cached]
        /\ lately' = [lately EXCEPT ![b] = [c \in DOMAIN Forgotten |->
                          IF c \in true THEN 0
                          ELSE IF @[c] < Never THEN @[c] + 1 ELSE Never]]
        /\ talk' = Told(t, PostConditionError(reason))
        /\ TornDown(PostConditionError(reason))
        /\ UNCHANGED <<outside, open, guard, limiter, talks>>

Reusable(r) == r.reason # None /\ r.uses + 1 <= AfterUses

Diagnosing == talk.phase = "diagnose"
Cached == reasons[talk.on]

\* A budget that was diagnosed and has nothing safe to report is cached too.
Reported(reason) == IF reason = "nothing" THEN None ELSE reason

ReuseReason ==
    /\ Diagnosing /\ Reusable(Cached)
    /\ Answers(talk, [Cached EXCEPT !.uses = @ + 1], Reported(Cached.reason))
    /\ UNCHANGED <<late, silent>>

\* The listing or the second load fails: the older reason, if there is one, serves
\* for another round.
DiagnosisFails ==
    /\ Diagnosing /\ ~Reusable(Cached) /\ weather \in {"network", "throttle", "stall"}
    /\ Answers(talk, [Cached EXCEPT !.uses = 0], Reported(Cached.reason))
    /\ silent' = [silent EXCEPT ![talk.on] = @ + 1]
    /\ UNCHANGED late

\* The second load stalls: the words of its time-out are the reason.
DiagnosisStalls ==
    /\ Diagnosing /\ ~Reusable(Cached) /\ weather = "stall" /\ state[talk.on] # "gone"
    /\ Answers(Meets("timeout"), [reason |-> "timed out", uses |-> 0], "timed out")
    /\ silent' = [silent EXCEPT ![talk.on] = 0]
    /\ late' = "diagnosis"

\* The second load says why.
Why == [schema |-> "out-of-sync-migrations", raw |-> "nothing", gone |-> "no local copy",
        sync |-> "succeeded", fine |-> "succeeded"]

DiagnosisAnswers ==
    /\ Diagnosing /\ ~Reusable(Cached) /\ weather \in {"fine", "password"}
    /\ LET why == Why[state[talk.on]]
       IN  Answers(talk, [reason |-> IF why = "succeeded" THEN None ELSE why, uses |-> 0],
                   Reported(why))
    /\ silent' = [silent EXCEPT ![talk.on] = 0]
    /\ UNCHANGED late

-----------------------------------------------------------------------------
(***************************************************************************)
(* The operation                                                           *)
(***************************************************************************)
\* withConcurrency: a slot, or a place in the queue.
Admit ==
    /\ talk.phase = "admit" /\ running < Slots
    /\ running' = running + 1
    /\ talk' = [talk EXCEPT !.phase = "operate", !.tries = 0]
    /\ UNCHANGED <<outside, live, open, memory, guard, queued, hung, late, talks>>

QueueTimesOut ==
    /\ talk.phase = "admit" /\ running >= Slots
    /\ talk' = [Told(talk, OpTimeout) EXCEPT !.stuck = hung >= Slots]
    /\ queued' = queued + 1
    /\ TornDown(OpTimeout)
    /\ UNCHANGED <<outside, open, memory, guard, running, hung, late, talks>>

\* The slot is given back, or goes to the oldest of the queue: its caller is gone
\* too, since a call in progress is the last to have joined.
ReleaseSlot ==
    IF queued > 0 THEN queued' = queued - 1 /\ running' = running
    ELSE running' = running - 1 /\ queued' = queued

AbandonedSettles ==
    /\ hung > 0
    /\ ReleaseSlot
    /\ hung' = hung - (IF queued > 0 THEN 0 ELSE 1)
    /\ UNCHANGED <<outside, live, open, memory, guard, late, talk, talks>>

OperationEnds ==
    /\ talk.phase = "operate"
    /\ ReleaseSlot
    /\ talk' = [talk EXCEPT !.phase = "after"]
    /\ UNCHANGED <<outside, live, open, memory, guard, hung, late, talks>>

\* The time-out of an operation leaves its slot taken.
OperationTimesOut ==
    /\ talk.phase = "operate" /\ weather = "stall"
    /\ talk' = [Told(talk, OpTimeout) EXCEPT !.stuck = TRUE]
    /\ hung' = hung + 1
    /\ TornDown(OpTimeout)
    /\ UNCHANGED <<outside, open, memory, guard, running, queued, late, talks>>

\* Reads have no classifier: they retry what a write fails on at once.
OperationFails(why) ==
    LET e == OpFault[why]
    IN  /\ talk.phase = "operate" /\ why \in {weather, "domain"}
        /\ IF (talk.kind = "write" /\ ~IsRetryableError(e)) \/ talk.tries = OpRetries
           THEN talk' = Told(talk, e) /\ TornDown(e) /\ ReleaseSlot
           ELSE talk' = [talk EXCEPT !.tries = @ + 1] /\ UNCHANGED <<live, running, queued>>
        /\ UNCHANGED <<outside, open, memory, guard, hung, late, talks>>

\* The probe after the first operation that succeeds.
ReplyOk ==
    /\ talk.phase = "after"
    /\ CheckServerVersionOnce
    /\ talk' = [talk EXCEPT !.phase = "told", !.reply = [how |-> "ok", cause |-> None]]
    /\ UNCHANGED <<outside, live, open, memory, limiter, late, talks>>

-----------------------------------------------------------------------------
\* Around the calls: the weather turns, the server is upgraded, a local copy breaks
\* or is repaired.
Turn ==
    /\ turns < MaxTurns /\ turns' = turns + 1
    /\ \/ weather' \in Weathers \ {weather} /\ UNCHANGED <<ahead, state>>
       \/ ~ahead /\ ahead' = TRUE /\ UNCHANGED <<weather, state>>
       \/ \E b \in Files, s \in States :
              /\ s # state[b] /\ state' = [state EXCEPT ![b] = s]
              /\ UNCHANGED <<weather, ahead>>
    /\ UNCHANGED <<live, open, memory, guard, limiter, late, talk, talks>>

ConnectNext ==
    \/ \E b \in Files, kind \in {"read", "write"} : StartCall(b, kind)
    \/ LoadIsAwaited \/ AwaitTimesOut
    \/ LogIn \/ ProbeBeforeLoad
    \/ LoadOpens \/ LoadOpensNothing \/ LoadRejects \/ LoadTimesOut \/ LateLoadSettles
    \/ ReuseReason \/ DiagnosisFails \/ DiagnosisStalls \/ DiagnosisAnswers
    \/ Admit \/ QueueTimesOut \/ AbandonedSettles
    \/ OperationEnds \/ OperationTimesOut \/ ReplyOk
    \/ \E why \in DOMAIN OpFault : OperationFails(why)
    \/ Turn

ConnectSpec == ConnectInit /\ [][ConnectNext]_connectVars

-----------------------------------------------------------------------------
ConnectTypeOK ==
    /\ weather \in Weathers /\ state \in [Files -> States] /\ open \in Files \cup {None}
    /\ guard.attempts \in 0..ProbeAttempts /\ running \in 0..Slots
    /\ queued \in Nat /\ hung \in 0..Slots
    /\ late \in Files \cup {None, "diagnosis"} /\ talks \in 0..MaxTalks
    /\ \A b \in Files : reasons[b].uses \in 0..AfterUses

\* A cause that was true so many failed calls ago is repeated for AfterUses calls
\* (budgetLoader.ts:183-185).  A diagnosis that fails breaks that promise: the uses
\* start again, for as many more calls, though 304-305 says the next call diagnoses.
StillRepeated(age, failures) ==
    age <= AfterUses \/ (failures > 0 /\ age < (AfterUses + 1) * (failures + 1))

\* A cause that is named was met by this call, or is repeated by the cache of reasons.
CauseIsTrue ==
    talk.reply.how = "named" =>
        \/ talk.reply.cause \in talk.met
        \/ /\ talk.reply.cause \in DOMAIN Forgotten
           /\ StillRepeated(lately[talk.on][talk.reply.cause], silent[talk.on])

\* A time-out that is not named is one of the operation, which stalled or found every
\* slot held by stalled ones, or that of the wait for an abandoned load.
TimeoutIsItsOwn ==
    (talk.reply.how = "raw" /\ talk.reply.cause = "timeout") =>
        talk.stuck \/ talk.behind # None

\* A call that fails to connect to a server that is ahead, and could be asked, was
\* preceded by the warning, unless the server was upgraded after it was judged or
\* could not be asked too often.
WarnedFirst ==
    (talk.readable /\ talk.reply.how \in {"named", "raw"} /\ ~talk.stuck) =>
        guard.judged # None \/ guard.attempts >= ProbeAttempts

(* What a stdio client is told of a failed call is true: the named cause is *)
(* one its connection met, or one the cache of reasons may still repeat (for *)
(* so many failed calls, and as many more for each diagnosis that failed);  *)
(* a throttled login is never a wrong password, an operation's own failure  *)
(* never a cause of the connection, and a time-out without a name is never  *)
(* another call's unless those hold every slot, or an abandoned load keeps  *)
(* the call from starting.                                                  *)
ClientIsTold == CauseIsTrue /\ TimeoutIsItsOwn /\ WarnedFirst
=============================================================================
