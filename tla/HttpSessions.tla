---------------------------- MODULE HttpSessions ----------------------------
(***************************************************************************)
(* The sessions of the HTTP transport (src/server/httpServer.ts): the      *)
(* transports table, the promises and failures of initialisations, and the *)
(* clock of the connection pool that decides when a session is over.       *)
(*                                                                         *)
(* Two tables have to agree although neither is updated with the other:    *)
(* the transports, which decide whether a request is served, and the pool, *)
(* which decides how long.  The pool tells the server of an eviction; it   *)
(* does not tell it of an entry it recycles or drops.                      *)
(***************************************************************************)
EXTENDS Naturals, Sequences, FiniteSets, SequencesExt

CONSTANTS
    Sids,         \* session ids the server mints, or a client kept from a former process
    Posts,        \* HTTP requests in flight
    MaxPool,      \* MAX_CONCURRENT_SESSIONS
    IdleTimeout,  \* ticks (SESSION_IDLE_TIMEOUT_MINUTES)
    FailureTtl,   \* ticks (INIT_FAILURE_TTL_MS)
    FailureMax,   \* INIT_FAILURE_MAX
    NoSid,        \* no session
    MaxPosts      \* model bound: requests in a behaviour; none, and no new
                  \* session, once a signal's cleanup has ended

ASSUME SessionsAssumption ==
    /\ MaxPool \in Nat \ {0} /\ FailureMax \in Nat \ {0}
    /\ NoSid \notin Sids /\ IdleTimeout \in Nat /\ FailureTtl \in Nat /\ MaxPosts \in Nat

VARIABLES
    stage,      \* of a session: new, stale (of a former process), opening, open, failed
    transports, \* the sessions with a registered transport
    promises,   \* sessionInitPromises that are still pending
    entry,      \* the pool's entries: ticks since lastActivity
    failures,   \* sessionInitFailures, oldest first
    marked,     \* the sessions the sweep found expired and has not come to yet
    tearing,    \* the session whose connection is being shut down under the api lock
    leaving,    \* the sessions the signal handler has still to shut down
    signal,     \* no signal yet, its cleanup running, or done
    post,       \* the requests in flight
    posts,      \* model bound counter
    quiet,      \* ghost: ticks with an entry since a request of the session was served
    failedAgo,  \* ghost: ticks since the session's initialisation failed
    ended       \* ghost: the sessions that were evicted or closed

sessionVars == <<stage, transports, promises, entry, failures, marked, tearing, leaving,
                 signal, post, posts, quiet, failedAgo, ended>>

NoPost == [phase |-> "none", sid |-> NoSid, method |-> "none", target |-> NoSid]
NoEntry == IdleTimeout + 2  \* no entry in the pool
Later(n, cap) == IF n < cap THEN n + 1 ELSE n

LockFree == tearing = NoSid
HasEntry(s) == entry[s] # NoEntry
Live == {s \in Sids : HasEntry(s)}
\* Mutant: the sweep walks the transports instead of the pool.
ExpiredServed(s) == s \in transports /\ HasEntry(s) /\ entry[s] > IdleTimeout

Expired(s) == HasEntry(s) /\ entry[s] > IdleTimeout

CanAcceptNewSession == Cardinality(Live) < MaxPool
FailedSids == {failures[i] : i \in DOMAIN failures}

(***************************************************************************)
(* Initialisation                                                          *)
(***************************************************************************)
\* A POST without a session id: refused with 503 when the pool is full.
Initialize(s) ==
    /\ stage[s] = "new" /\ CanAcceptNewSession /\ signal # "done"
    /\ stage' = [stage EXCEPT ![s] = "opening"]
    /\ promises' = promises \cup {s}
    /\ UNCHANGED <<transports, entry, failures, marked, tearing, leaving, signal, post,
                   posts, quiet, failedAgo, ended>>

\* The pool entry, the transport and the promise in one run to completion.  A
\* settled promise is kept for a second; awaiting it is as good as finding none.
Connected(s) ==
    /\ stage[s] = "opening" /\ LockFree
    /\ stage' = [stage EXCEPT ![s] = "open"]
    /\ entry' = [entry EXCEPT ![s] = 0]
    /\ transports' = transports \cup {s}
    /\ promises' = promises \ {s}
    /\ quiet' = [quiet EXCEPT ![s] = 0]
    /\ UNCHANGED <<failures, marked, tearing, leaving, signal, post, posts, failedAgo,
                   ended>>

\* From position n on nothing has expired, and one more record is within the cap.
Keeps(n) ==
    /\ \A i \in n..Len(failures) : failedAgo[failures[i]] <= FailureTtl
    /\ Len(failures) + 1 < FailureMax + n

\* Expired records are dropped, then the oldest ones down to the cap.  Records are in
\* the order in which they were made: what has to go comes first.
RememberInitFailure(s) ==
    LET first == Min({n \in 1..(Len(failures) + 1) : Keeps(n)})
    IN  Append(SubSeq(failures, first, Len(failures)), s)

ConnectFails(s) ==
    /\ stage[s] = "opening" /\ LockFree
    /\ stage' = [stage EXCEPT ![s] = "failed"]
    /\ entry' = [entry EXCEPT ![s] = NoEntry]
    /\ failures' = RememberInitFailure(s)
    /\ failedAgo' = [failedAgo EXCEPT ![s] = 0]
    /\ promises' = promises \ {s}
    /\ UNCHANGED <<transports, marked, tearing, leaving, signal, post, posts, quiet, ended>>

(***************************************************************************)
(* Requests of a session                                                   *)
(***************************************************************************)
PeekInitFailure(s) == s \in FailedSids /\ failedAgo[s] <= FailureTtl

\* Mutant: the shim before the cause, as it was before #438.
WithoutTransportShimFirst(s, method) ==
    IF method = "list" THEN "discovery" ELSE IF PeekInitFailure(s) THEN "cause" ELSE "gone"

\* A request that found no transport: the known cause first, then the discovery shim.
WithoutTransport(s, method) ==
    CASE PeekInitFailure(s) -> "cause"
      [] ~PeekInitFailure(s) /\ method = "list" -> "discovery"
      [] OTHER -> "gone"

Touch(s) == IF HasEntry(s) THEN [entry EXCEPT ![s] = 0] ELSE entry

Req(s, method, phase) == [phase |-> phase, sid |-> s, method |-> method, target |-> s]
Put(p, req) == post' = [post EXCEPT ![p] = req]

Serve(p, s, method) ==
    /\ s \in transports
    /\ entry' = Touch(s)
    /\ quiet' = [quiet EXCEPT ![s] = 0]
    /\ Put(p, Req(s, method, "serving"))

Reject(p, s, method) ==
    /\ s \notin transports
    /\ Put(p, Req(s, method, WithoutTransport(s, method)))
    /\ UNCHANGED <<entry, quiet>>

WaitsForInit(s) == s \notin transports /\ s \in promises

PostArrives(p, s, method) ==
    /\ post[p] = NoPost /\ posts < MaxPosts /\ posts' = posts + 1 /\ signal # "done"
    /\ stage[s] # "new"
    /\ \/ WaitsForInit(s) /\ Put(p, Req(s, method, "waiting")) /\ UNCHANGED <<entry, quiet>>
       \/ ~WaitsForInit(s) /\ (Serve(p, s, method) \/ Reject(p, s, method))
    /\ UNCHANGED <<stage, transports, promises, failures, marked, tearing, leaving, signal,
                   failedAgo, ended>>

\* The promise settled, whichever way: look again.
Resume(p) ==
    LET s == post[p].sid
    IN  /\ post[p].phase = "waiting" /\ stage[s] # "opening"
        /\ Serve(p, s, post[p].method) \/ Reject(p, s, post[p].method)
        /\ UNCHANGED <<stage, transports, promises, failures, marked, tearing, leaving,
                       signal, posts, failedAgo, ended>>

\* The SSE GET touches the pool first and never waits for an initialisation.
GetArrives(p, s) ==
    /\ post[p] = NoPost /\ posts < MaxPosts /\ posts' = posts + 1 /\ signal # "done"
    /\ stage[s] # "new"
    /\ entry' = Touch(s)
    /\ quiet' = IF s \in transports THEN [quiet EXCEPT ![s] = 0] ELSE quiet
    /\ Put(p, Req(s, "get", IF s \in transports THEN "serving" ELSE WithoutTransport(s, "get")))
    /\ UNCHANGED <<stage, transports, promises, failures, marked, tearing, leaving, signal,
                   failedAgo, ended>>

Answered(p) ==
    /\ post[p].phase \in {"serving", "cause", "discovery", "gone"}
    /\ Put(p, NoPost)
    /\ UNCHANGED <<stage, transports, promises, entry, failures, marked, tearing, leaving,
                   signal, posts, quiet, failedAgo, ended>>

(***************************************************************************)
(* The pool                                                                *)
(***************************************************************************)
\* shutdownConnectionLocked with evict: without an entry it returns before the
\* listener.  The lock is held while the api shuts down; requests still arrive.
Teardown(s) == tearing' = IF HasEntry(s) THEN s ELSE NoSid

\* Then the entry goes and the listener takes the transport and the promise.
TornDown ==
    /\ ~LockFree /\ tearing' = NoSid
    /\ entry' = [entry EXCEPT ![tearing] = NoEntry]
    /\ transports' = transports \ {tearing}
    /\ promises' = promises \ {tearing}
    /\ ended' = ended \cup {tearing}
    /\ post' = [p \in Posts |-> IF post[p].phase = "tearing"
                                THEN NoPost ELSE post[p]]
    /\ UNCHANGED <<stage, failures, marked, leaving, signal, posts, quiet, failedAgo>>

\* An infrastructure error of an operation drops the entry, not the session.
InfraDrop(p) ==
    LET s == post[p].sid
    IN  /\ post[p].phase = "serving" /\ post[p].method = "call" /\ LockFree
        /\ entry' = [entry EXCEPT ![s] = NoEntry]
        /\ Put(p, NoPost)
        /\ UNCHANGED <<stage, transports, promises, failures, marked, tearing, leaving,
                       signal, posts, quiet, failedAgo, ended>>

\* switchBudget's slow path: the entry is released, then opened on the other budget.
SwitchReleases(p) ==
    /\ post[p].phase = "serving" /\ post[p].method = "call" /\ LockFree
    /\ entry' = [entry EXCEPT ![post[p].sid] = NoEntry]
    /\ Put(p, [post[p] EXCEPT !.phase = "switching"])
    /\ UNCHANGED <<stage, transports, promises, failures, marked, tearing, leaving, signal,
                   posts, quiet, failedAgo, ended>>

SwitchReopens(p) ==
    /\ post[p].phase = "switching" /\ LockFree
    /\ \/ entry' = [entry EXCEPT ![post[p].sid] = 0]
       \/ entry' = [entry EXCEPT ![post[p].sid] = NoEntry]
    /\ Put(p, NoPost)
    /\ UNCHANGED <<stage, transports, promises, failures, marked, tearing, leaving, signal,
                   posts, quiet, failedAgo, ended>>

\* session_close on another session: its presence is checked, then the lock is awaited.
CloseBegins(p, s) ==
    /\ post[p].phase = "serving" /\ post[p].method = "call"
    /\ s # post[p].sid /\ HasEntry(s)
    /\ Put(p, [post[p] EXCEPT !.phase = "closing", !.target = s])
    /\ UNCHANGED <<stage, transports, promises, entry, failures, marked, tearing, leaving,
                   signal, posts, quiet, failedAgo, ended>>

CloseLocks(p) ==
    /\ post[p].phase = "closing" /\ LockFree
    /\ Teardown(post[p].target)
    /\ Put(p, IF HasEntry(post[p].target) THEN [post[p] EXCEPT !.phase = "tearing"] ELSE NoPost)
    /\ UNCHANGED <<stage, transports, promises, entry, failures, marked, leaving, signal,
                   posts, quiet, failedAgo, ended>>

\* The sweep marks what is expired, and takes one session after the other.
SweepMarks ==
    /\ signal # "done"
    /\ marked' = marked \cup {s \in Sids : Expired(s)}
    /\ UNCHANGED <<stage, transports, promises, entry, failures, tearing, leaving, signal,
                   post, posts, quiet, failedAgo, ended>>

\* Mutant: the decision of the sweep stands.
StillIdleAsMarked(s) == HasEntry(s)

\* Under the lock the session may have come back: onlyIfExpired.
StillIdle(s) == Expired(s)

SweepChecks(s) ==
    /\ s \in marked /\ LockFree
    /\ marked' = marked \ {s}
    /\ tearing' = IF StillIdle(s) THEN s ELSE NoSid
    /\ UNCHANGED <<stage, transports, promises, entry, failures, leaving, signal, post,
                   posts, quiet, failedAgo, ended>>

(***************************************************************************)
(* A signal: every session with a transport, then the tables, then the     *)
(* pool with its sweep.  The listener stays open.                          *)
(***************************************************************************)
Signal ==
    /\ signal = "none" /\ signal' = "cleaning" /\ leaving' = transports
    /\ UNCHANGED <<stage, transports, promises, entry, failures, marked, tearing, post,
                   posts, quiet, failedAgo, ended>>

ShutdownSession(s) ==
    /\ s \in leaving /\ LockFree
    /\ leaving' = leaving \ {s}
    /\ Teardown(s)
    /\ UNCHANGED <<stage, transports, promises, entry, failures, marked, signal, post, posts,
                   quiet, failedAgo, ended>>

CleanupEnds ==
    /\ signal = "cleaning" /\ leaving = {} /\ LockFree
    /\ signal' = "done"
    /\ transports' = {} /\ failures' = <<>>
    /\ promises' = {}
    /\ entry' = [s \in Sids |-> NoEntry]
    /\ ended' = ended \cup transports
    /\ UNCHANGED <<stage, marked, tearing, leaving, post, posts, quiet, failedAgo>>

PoolTick ==
    /\ entry' = [s \in Sids |-> IF HasEntry(s) THEN Later(entry[s], IdleTimeout + 1) ELSE entry[s]]
    /\ quiet' = [s \in Sids |-> IF HasEntry(s) THEN Later(quiet[s], IdleTimeout + 1) ELSE quiet[s]]
    /\ failedAgo' = [s \in Sids |->
           IF stage[s] = "failed" THEN Later(failedAgo[s], FailureTtl + 1) ELSE 0]
    /\ UNCHANGED <<stage, transports, promises, failures, marked, tearing, leaving, signal,
                   post, posts, ended>>

-----------------------------------------------------------------------------
SessionsInit ==
    /\ stage \in [Sids -> {"new", "stale"}]
    /\ transports = {} /\ failures = <<>> /\ marked = {} /\ leaving = {} /\ tearing = NoSid
    /\ promises = {}
    /\ entry = [s \in Sids |-> NoEntry]
    /\ signal = "none" /\ posts = 0
    /\ post = [p \in Posts |-> NoPost]
    /\ quiet = [s \in Sids |-> 0]
    /\ failedAgo = [s \in Sids |-> 0]
    /\ ended = {}

Opening(s) == Initialize(s) \/ Connected(s) \/ ConnectFails(s)

Requested(p) ==
    \/ \E s \in Sids, method \in {"list", "call"} : PostArrives(p, s, method)
    \/ \E s \in Sids : GetArrives(p, s) \/ CloseBegins(p, s)
    \/ InfraDrop(p) \/ SwitchReleases(p)

\* What a request that has begun does next.
Progress(p) == Resume(p) \/ Answered(p) \/ SwitchReopens(p) \/ CloseLocks(p)

Sweep == SweepMarks \/ TornDown \/ \E s \in Sids : SweepChecks(s)
Cleanup == Signal \/ CleanupEnds \/ \E s \in Sids : ShutdownSession(s)

SessionsNext ==
    \/ Sweep \/ Cleanup \/ PoolTick
    \/ \E s \in Sids : Opening(s)
    \/ \E p \in Posts : Requested(p) \/ Progress(p)

\* Timers fire, the sweep goes on, and a request that began ends.
SessionsFairness ==
    /\ WF_sessionVars(PoolTick) /\ WF_sessionVars(SweepMarks) /\ WF_sessionVars(TornDown)
    /\ \A s \in Sids : WF_sessionVars(SweepChecks(s))
    /\ \A p \in Posts : WF_sessionVars(Progress(p))

SessionsSpec == SessionsInit /\ [][SessionsNext]_sessionVars /\ SessionsFairness

-----------------------------------------------------------------------------
SessionsTypeOK ==
    /\ stage \in [Sids -> {"new", "stale", "opening", "open", "failed"}]
    /\ transports \subseteq Sids /\ marked \subseteq Sids /\ leaving \subseteq Sids
    /\ tearing \in Sids \cup {NoSid}
    /\ promises \subseteq Sids
    /\ entry \in [Sids -> 0..NoEntry]
    /\ Len(failures) <= FailureMax /\ FailedSids \subseteq Sids
    /\ signal \in {"none", "cleaning", "done"}
    /\ \A p \in Posts : post[p] = NoPost \/ post[p] \in
           [phase : {"waiting", "serving", "switching", "closing", "tearing", "cause",
                     "discovery", "gone"},
            sid : Sids, method : {"list", "call", "get"}, target : Sids]
    /\ ended \subseteq Sids

(* The sweep never ends a conversation: a session it starts to shut down    *)
(* has had no request served for the whole idle time-out, although the      *)
(* sweep decides, waits for the api lock, and only then acts.  A request    *)
(* that arrives while the api shuts down is still cut off.                  *)
SweepSparesActive ==
    [][\A s \in Sids : SweepChecks(s) /\ tearing' = s => quiet[s] > IdleTimeout]_sessionVars

(* What a client is told is true.  Only a session that ended, that is of    *)
(* another process, or whose failure is too old or pushed out by newer ones *)
(* is reported gone (or answered by the discovery shim); a failed           *)
(* initialisation is named as the cause for its whole lifetime, whichever   *)
(* requests ask at once; and a session still opening is not refused.        *)
AnswerIsTrue ==
    signal = "none" =>
    \A p \in Posts :
        LET s == post[p].sid
            pushedOut == Cardinality({f \in FailedSids : failedAgo[f] <= failedAgo[s] /\ f # s})
                             >= FailureMax
        IN  /\ post[p].phase \in {"gone", "discovery"} /\ post[p].method # "get" =>
                   \/ stage[s] = "stale" \/ s \in ended
                   \/ stage[s] = "failed" /\ (failedAgo[s] > FailureTtl \/ pushedOut)
            /\ post[p].phase = "cause" => stage[s] = "failed"

(* Requests are finitely many, so every client goes away in the end: then   *)
(* its slot comes back, whatever budget switches, dropped connections and   *)
(* closed neighbours left in the pool.                                      *)
AbandonedFreesSlot ==
    \A s \in Sids : stage[s] = "open" ~> (~HasEntry(s) \/ signal # "none")
=============================================================================
