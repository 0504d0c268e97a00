-------------------------- MODULE HttpSessionsProofs --------------------------
(***************************************************************************)
(* The sweep of HttpSessions spares the active, and what a client is told  *)
(* of its session is true, for every set of sessions, every number of      *)
(* requests, every time-out and every cap on the records.                  *)
(*                                                                         *)
(* The sweep reads the pool's clock, the property the ghost that says when *)
(* a request was last served.  The two are set apart: an initialisation, a *)
(* switch of budgets or a GET that finds no transport sets the clock alone *)
(* back.  That it never runs ahead is what makes the sweep safe.           *)
(***************************************************************************)
EXTENDS HttpSessions, SequenceFacts, FiniteSetTheorems, TLAPS

\* The clocks keep their ranges, and the pool's is never ahead of the ghost's.
Ages ==
    /\ entry \in [Sids -> 0..NoEntry]
    /\ quiet \in [Sids -> 0..(IdleTimeout + 1)]
    /\ \A s \in Sids : HasEntry(s) => entry[s] <= quiet[s]

(* A session whose entry goes away, or is set back to zero, keeps its age,  *)
(* whether or not the request that did it is served.                       *)
LEMMA SetKeepsAges ==
    ASSUME Ages, NEW x, NEW e \in {0, NoEntry},
           entry' = [entry EXCEPT ![x] = e],
           \/ UNCHANGED quiet
           \/ e = 0 /\ quiet' = [quiet EXCEPT ![x] = 0]
    PROVE  Ages'
<1>1. entry' \in [Sids -> 0..NoEntry] /\ quiet' \in [Sids -> 0..(IdleTimeout + 1)]
  <2>1. e \in 0..NoEntry /\ 0 \in 0..(IdleTimeout + 1)
    BY SessionsAssumption DEF NoEntry
  <2>2. entry' \in [Sids -> 0..NoEntry]
    BY <2>1 DEF Ages
  <2> QED
    BY <2>1, <2>2 DEF Ages
<1>2. ASSUME NEW s \in Sids, HasEntry(s)'
      PROVE  entry'[s] <= quiet'[s]
  <2>1. CASE s = x
    <3>1. entry'[s] = e /\ e = 0
      BY <1>2, <2>1 DEF Ages, HasEntry
    <3> QED
      BY <1>1, <3>1, SessionsAssumption
  <2>2. CASE s # x
    BY <1>2, <2>2 DEF Ages, HasEntry
  <2> QED
    BY <2>1, <2>2
<1> QED
  BY <1>1, <1>2 DEF Ages

LEMMA TouchKeepsAges ==
    ASSUME Ages, NEW s, entry' = Touch(s),
           UNCHANGED quiet \/ quiet' = [quiet EXCEPT ![s] = 0]
    PROVE  Ages'
<1>1. CASE HasEntry(s)
  BY <1>1, SetKeepsAges, SessionsAssumption DEF Touch
<1>2. CASE ~HasEntry(s)
  BY <1>2, SessionsAssumption DEF Touch, Ages, HasEntry, NoEntry
<1> QED
  BY <1>1, <1>2

LEMMA SameKeepsAges ==
    ASSUME Ages, UNCHANGED <<entry, quiet>>
    PROVE  Ages'
  BY DEF Ages, HasEntry

LEMMA InitAges == SessionsInit => Ages
  BY SessionsAssumption DEF SessionsInit, Ages, HasEntry, NoEntry

\* Opening, in every outcome.
LEMMA OpeningKeepsAges ==
    ASSUME Ages, NEW s \in Sids, Opening(s)
    PROVE  Ages'
<1>1. CASE Initialize(s)
  BY <1>1, SameKeepsAges DEF Initialize
<1>2. CASE Connected(s)
  BY <1>2, SetKeepsAges DEF Connected
<1>3. CASE ConnectFails(s)
  BY <1>3, SetKeepsAges DEF ConnectFails
<1> QED
  BY <1>1, <1>2, <1>3 DEF Opening

\* A request that is looked up: served, or answered without a transport.
LEMMA LookupKeepsAges ==
    ASSUME Ages, NEW p \in Posts, NEW s, NEW method, Serve(p, s, method) \/ Reject(p, s, method)
    PROVE  Ages'
<1>1. CASE Serve(p, s, method)
  BY <1>1, TouchKeepsAges DEF Serve
<1>2. CASE Reject(p, s, method)
  BY <1>2, SameKeepsAges DEF Reject
<1> QED
  BY <1>1, <1>2

LEMMA RequestedKeepsAges ==
    ASSUME Ages, NEW p \in Posts, Requested(p)
    PROVE  Ages'
<1>1. ASSUME NEW s \in Sids, NEW method \in {"list", "call"}, PostArrives(p, s, method)
      PROVE  Ages'
  <2>1. CASE UNCHANGED <<entry, quiet>>
    BY <2>1, SameKeepsAges
  <2>2. CASE Serve(p, s, method) \/ Reject(p, s, method)
    BY <2>2, LookupKeepsAges
  <2> QED
    BY <1>1, <2>1, <2>2 DEF PostArrives
<1>2. ASSUME NEW s \in Sids, GetArrives(p, s)
      PROVE  Ages'
  BY <1>2, TouchKeepsAges DEF GetArrives
<1>3. ASSUME NEW s \in Sids, CloseBegins(p, s)
      PROVE  Ages'
  BY <1>3, SameKeepsAges DEF CloseBegins
<1>4. CASE InfraDrop(p)
  BY <1>4, SetKeepsAges DEF InfraDrop
<1>5. CASE SwitchReleases(p)
  BY <1>5, SetKeepsAges DEF SwitchReleases
<1> QED
  BY <1>1, <1>2, <1>3, <1>4, <1>5 DEF Requested

LEMMA ProgressKeepsAges ==
    ASSUME Ages, NEW p \in Posts, Progress(p)
    PROVE  Ages'
<1>1. CASE Resume(p)
  BY <1>1, LookupKeepsAges DEF Resume
<1>2. CASE Answered(p) \/ CloseLocks(p)
  BY <1>2, SameKeepsAges DEF Answered, CloseLocks
<1>3. CASE SwitchReopens(p)
  BY <1>3, SetKeepsAges DEF SwitchReopens
<1> QED
  BY <1>1, <1>2, <1>3 DEF Progress

\* A tick ages both clocks alike, up to the same cap.
LEMMA TickKeepsAges ==
    ASSUME Ages, PoolTick
    PROVE  Ages'
  BY SessionsAssumption DEF Ages, PoolTick, Later, HasEntry, NoEntry

LEMMA SweepKeepsAges ==
    ASSUME Ages, Sweep
    PROVE  Ages'
<1>1. CASE SweepMarks
  BY <1>1, SameKeepsAges DEF SweepMarks
<1>2. CASE TornDown
  BY <1>2, SetKeepsAges DEF TornDown
<1>3. ASSUME NEW s \in Sids, SweepChecks(s)
      PROVE  Ages'
  BY <1>3, SameKeepsAges DEF SweepChecks
<1> QED
  BY <1>1, <1>2, <1>3 DEF Sweep

LEMMA CleanupKeepsAges ==
    ASSUME Ages, Cleanup
    PROVE  Ages'
<1>1. CASE Signal
  BY <1>1, SameKeepsAges DEF Signal
<1>2. ASSUME NEW s \in Sids, ShutdownSession(s)
      PROVE  Ages'
  BY <1>2, SameKeepsAges DEF ShutdownSession
<1>3. CASE CleanupEnds
  BY <1>3, SessionsAssumption DEF CleanupEnds, Ages, HasEntry, NoEntry
<1> QED
  BY <1>1, <1>2, <1>3 DEF Cleanup

LEMMA NextAges ==
    ASSUME Ages, [SessionsNext]_sessionVars
    PROVE  Ages'
<1>1. CASE UNCHANGED sessionVars
  BY <1>1, SameKeepsAges DEF sessionVars
<1>2. CASE SessionsNext
  BY <1>2, SweepKeepsAges, CleanupKeepsAges, TickKeepsAges, OpeningKeepsAges,
     RequestedKeepsAges, ProgressKeepsAges DEF SessionsNext
<1> QED
  BY <1>1, <1>2

(* The pool's clock of a session is never ahead of the time since a request *)
(* of it was served: what a clock is set to zero for is a request or the    *)
(* opening of the connection, and the entry a switch reopens starts anew.   *)
THEOREM SessionsAges == SessionsSpec => []Ages
<1>1. SessionsInit => Ages
  BY InitAges
<1>2. Ages /\ [SessionsNext]_sessionVars => Ages'
  BY NextAges
<1> QED
  BY <1>1, <1>2, PTL DEF SessionsSpec

(* The sweep shuts down no session that had a request served within the     *)
(* idle time-out (cleanupIdleConnections, onlyIfExpired).                   *)
THEOREM SessionsSweepSparesActive == SessionsSpec => SweepSparesActive
<1>1. Ages => \A s \in Sids : SweepChecks(s) /\ tearing' = s => quiet[s] > IdleTimeout
  <2> SUFFICES ASSUME Ages, NEW s \in Sids, SweepChecks(s), tearing' = s
               PROVE  quiet[s] > IdleTimeout
    OBVIOUS
  <2>1. Expired(s)
    BY SessionsAssumption DEF SweepChecks, StillIdle
  <2> QED
    BY <2>1, SessionsAssumption DEF Ages, Expired
<1>2. Ages /\ [SessionsNext]_sessionVars
          => [\A s \in Sids : SweepChecks(s) /\ tearing' = s => quiet[s] > IdleTimeout]_sessionVars
  BY <1>1
<1> QED
  BY <1>2, SessionsAges, PTL DEF SessionsSpec, SweepSparesActive

-----------------------------------------------------------------------------
(***************************************************************************)
(* What a client is told is true.  A request is answered from the table of *)
(* transports and from the records of failures, the property speaks of     *)
(* what happened to the session.  The links between the two are what the   *)
(* code never checks: a session that is open and has no transport was      *)
(* ended, a session that is opening has its promise, and a failure that is *)
(* not on record is too old or was pushed out by a full table of failures  *)
(* that are not older.  All of it up to a signal, whose cleanup empties    *)
(* the tables in one go.                                                   *)
(***************************************************************************)
Posted ==
    [phase : {"waiting", "serving", "switching", "closing", "tearing", "cause", "discovery",
              "gone"},
     sid : Sids, method : {"list", "call", "get"}, target : Sids]

Typed ==
    /\ stage \in [Sids -> {"new", "stale", "opening", "open", "failed"}]
    /\ transports \subseteq Sids /\ marked \subseteq Sids /\ leaving \subseteq Sids
    /\ promises \subseteq Sids /\ ended \subseteq Sids
    /\ tearing \in Sids \cup {NoSid}
    /\ signal \in {"none", "cleaning", "done"}
    /\ post \in [Posts -> Posted \cup {NoPost}]
    /\ failedAgo \in [Sids -> 0..(FailureTtl + 1)]
    /\ failures \in Seq(Sids)

\* The records of failures: no more than the cap, of failed sessions, the oldest first.
Recorded ==
    /\ Len(failures) <= FailureMax
    /\ \A i \in 1..Len(failures) : stage[failures[i]] = "failed"
    /\ \A i, j \in 1..Len(failures) :
           i < j => /\ failures[i] # failures[j]
                    /\ failedAgo[failures[j]] <= failedAgo[failures[i]]

\* A failure that is not on record although it is not too old was pushed out.
PushedOut ==
    \A s \in Sids :
        stage[s] = "failed" /\ s \notin FailedSids /\ failedAgo[s] <= FailureTtl =>
            /\ Len(failures) = FailureMax
            /\ \A i \in 1..Len(failures) : failedAgo[failures[i]] <= failedAgo[s]

\* Only an open session has an entry or a transport, and one without was ended.
Linked ==
    /\ \A s \in Sids : /\ stage[s] = "opening" => s \in promises
                       /\ HasEntry(s) => stage[s] = "open"
                       /\ s \in transports => stage[s] = "open"
                       /\ stage[s] = "open" => s \in transports \cup ended
    /\ tearing # NoSid => stage[tearing] = "open"

\* The session is stale, has ended, or failed and the failure is not on record any more.
Gone(s) ==
    \/ stage[s] = "stale" \/ s \in ended
    \/ stage[s] = "failed" /\ (failedAgo[s] > FailureTtl \/ s \notin FailedSids)

\* What a request in flight says of its session.
Honest(r) ==
    /\ r # NoPost => stage[r.sid] # "new"
    /\ r.phase \in {"serving", "switching", "closing", "tearing"} => stage[r.sid] = "open"
    /\ r.phase \in {"gone", "discovery"} /\ r.method # "get" => Gone(r.sid)
    /\ r.phase = "cause" => stage[r.sid] = "failed"

SessionsInv ==
    /\ Ages /\ Typed /\ Recorded
    /\ signal = "none" => PushedOut /\ Linked /\ \A p \in Posts : Honest(post[p])

LEMMA NoPostHonest == NoPost.phase = "none" /\ Honest(NoPost)
  BY DEF NoPost, Honest

LEMMA InitSessionsInv == SessionsInit => SessionsInv
<1> SUFFICES ASSUME SessionsInit
             PROVE  SessionsInv
  OBVIOUS
<1>1. failures \in Seq(Sids) /\ Len(failures) = 0 /\ FailedSids = {}
  BY DEF SessionsInit, FailedSids
<1>2. Typed
  BY <1>1, SessionsAssumption DEF SessionsInit, Typed
<1>3. Recorded /\ PushedOut /\ Linked
  BY <1>1, SessionsAssumption DEF SessionsInit, Recorded, PushedOut, Linked, HasEntry
<1>4. \A p \in Posts : Honest(post[p])
  BY NoPostHonest DEF SessionsInit
<1> QED
  BY InitAges, <1>2, <1>3, <1>4 DEF SessionsInv

(* Where stages and records stay, an answer that was true stays true.      *)
LEMMA StagesKept ==
    ASSUME SessionsInv, Ages', Typed', UNCHANGED <<stage, failures, failedAgo, signal>>,
           ended \subseteq ended',
           signal = "none" => Linked' /\ \A p \in Posts : post'[p] = post[p] \/ Honest(post'[p])
    PROVE  SessionsInv'
<1>1. Recorded' /\ FailedSids' = FailedSids
  BY DEF SessionsInv, Recorded, FailedSids
<1>2. PushedOut => PushedOut'
  BY <1>1 DEF PushedOut
<1>3. ASSUME signal = "none", NEW p \in Posts
      PROVE  Honest(post[p])'
  <2>1. Honest(post'[p])
    BY <1>3 DEF SessionsInv
  <2> QED
    BY <1>1, <2>1 DEF Honest, Gone
<1> QED
  BY <1>1, <1>2, <1>3 DEF SessionsInv

(* Where the tables of sessions stay too, only new entries and the session  *)
(* that is torn down have to be looked at.                                 *)
LEMMA TablesKept ==
    ASSUME SessionsInv, Ages', UNCHANGED <<stage, transports, promises, failures, signal,
                                           failedAgo, ended>>,
           marked' \subseteq Sids, leaving' \subseteq Sids, tearing' \in Sids \cup {NoSid},
           post' \in [Posts -> Posted \cup {NoPost}],
           signal = "none" =>
               /\ \A s \in Sids : entry'[s] # NoEntry => HasEntry(s) \/ stage[s] = "open"
               /\ tearing' # NoSid => tearing' = tearing \/ HasEntry(tearing')
               /\ \A p \in Posts : post'[p] = post[p] \/ Honest(post'[p])
    PROVE  SessionsInv'
<1>1. Typed'
  BY DEF SessionsInv, Typed
<1>2. signal = "none" => Linked'
  BY DEF SessionsInv, Linked, HasEntry
<1> QED
  BY <1>1, <1>2, StagesKept

(* Only failed sessions are on record.                                     *)
LEMMA RecordedFailed ==
    ASSUME SessionsInv, NEW s, PeekInitFailure(s)
    PROVE  stage[s] = "failed"
<1>1. PICK i \in DOMAIN failures : failures[i] = s
  BY DEF FailedSids, PeekInitFailure
<1>2. DOMAIN failures = 1..Len(failures)
  BY LenProperties DEF SessionsInv, Typed
<1> QED
  BY <1>1, <1>2 DEF SessionsInv, Recorded

(* A request that was looked up: it is served, or told of what became of    *)
(* its session.                                                            *)
LEMMA LookupHonest ==
    ASSUME SessionsInv, signal = "none", NEW p \in Posts, NEW s \in Sids,
           NEW method \in {"list", "call"}, stage[s] \notin {"new", "opening"},
           Serve(p, s, method) \/ Reject(p, s, method)
    PROVE  Honest(post'[p])
<1>1. Linked /\ post \in [Posts -> Posted \cup {NoPost}]
  BY DEF SessionsInv, Typed
<1>2. CASE Serve(p, s, method)
  <2>1. post'[p] = Req(s, method, "serving") /\ stage[s] = "open"
    BY <1>1, <1>2 DEF Serve, Put, Linked
  <2> QED
    BY <2>1 DEF Honest, Req
<1>3. CASE Reject(p, s, method)
  <2>1. post'[p] = Req(s, method, WithoutTransport(s, method)) /\ s \notin transports
    BY <1>1, <1>3 DEF Reject, Put
  <2>2. WithoutTransport(s, method) = "cause" => stage[s] = "failed"
    BY RecordedFailed DEF WithoutTransport
  <2>3. WithoutTransport(s, method) # "cause" => Gone(s)
    <3> SUFFICES ASSUME ~PeekInitFailure(s)
                 PROVE  Gone(s)
      BY DEF WithoutTransport
    <3>1. stage[s] \in {"stale", "open", "failed"}
      BY DEF SessionsInv, Typed
    <3>2. stage[s] = "open" => s \in ended
      BY <1>1, <2>1 DEF Linked
    <3>3. failedAgo[s] <= FailureTtl \/ failedAgo[s] > FailureTtl
      BY SessionsAssumption DEF SessionsInv, Typed
    <3> QED
      BY <3>1, <3>2, <3>3 DEF PeekInitFailure, Gone
  <2>4. WithoutTransport(s, method) \in {"cause", "discovery", "gone"}
    BY DEF WithoutTransport
  <2> QED
    BY <2>1, <2>2, <2>3, <2>4 DEF Honest, Req
<1> QED
  BY <1>2, <1>3

LEMMA LookupTyped ==
    ASSUME SessionsInv, NEW p \in Posts, NEW s \in Sids, NEW method \in {"list", "call"},
           Serve(p, s, method) \/ Reject(p, s, method)
    PROVE  /\ post' \in [Posts -> Posted \cup {NoPost}]
           /\ \A q \in Posts : q # p => post'[q] = post[q]
           /\ \A x \in Sids : entry'[x] # NoEntry => HasEntry(x)
<1>1. WithoutTransport(s, method) \in {"cause", "discovery", "gone"}
  BY DEF WithoutTransport
<1>2. \E phase \in {"serving", "cause", "discovery", "gone"} : Put(p, Req(s, method, phase))
  BY <1>1 DEF Serve, Reject
<1>3. entry' = entry \/ entry' = Touch(s)
  BY DEF Serve, Reject
<1>4. /\ post' \in [Posts -> Posted \cup {NoPost}]
      /\ \A q \in Posts : q # p => post'[q] = post[q]
  BY <1>2 DEF Put, Req, Posted, SessionsInv, Typed
<1>5. \A x \in Sids : entry'[x] # NoEntry => HasEntry(x)
  BY <1>3 DEF Touch, HasEntry, SessionsInv, Ages
<1> QED
  BY <1>4, <1>5

LEMMA RequestedInv ==
    ASSUME SessionsInv, NEW p \in Posts, Requested(p)
    PROVE  SessionsInv'
<1>0. /\ Ages' /\ marked \subseteq Sids /\ leaving \subseteq Sids /\ tearing \in Sids \cup {NoSid}
      /\ post \in [Posts -> Posted \cup {NoPost}] /\ entry \in [Sids -> 0..NoEntry]
      /\ signal = "none" => Linked /\ Honest(post[p])
      /\ stage \in [Sids -> {"new", "stale", "opening", "open", "failed"}]
  BY RequestedKeepsAges DEF SessionsInv, Typed, Ages
<1>1. ASSUME NEW s \in Sids, NEW method \in {"list", "call"}, PostArrives(p, s, method)
      PROVE  SessionsInv'
  <2>1. CASE WaitsForInit(s) /\ Put(p, Req(s, method, "waiting")) /\ UNCHANGED <<entry, quiet>>
    <3>1. post'[p] = Req(s, method, "waiting") /\ Req(s, method, "waiting") \in Posted
      BY <1>0, <2>1 DEF Put, Req, Posted
    <3>2. Honest(post'[p])
      BY <1>1, <3>1 DEF Honest, Req, PostArrives
    <3>3. post' \in [Posts -> Posted \cup {NoPost}]
      BY <1>0, <2>1, <3>1 DEF Put
    <3>4. \A q \in Posts : post'[q] = post[q] \/ Honest(post'[q])
      BY <1>0, <2>1, <3>2 DEF Put
    <3> QED
      BY <1>0, <1>1, <2>1, <3>3, <3>4, TablesKept DEF PostArrives, HasEntry
  <2>2. CASE ~WaitsForInit(s) /\ (Serve(p, s, method) \/ Reject(p, s, method))
    <3>1. signal = "none" => Honest(post'[p])
      <4> SUFFICES ASSUME signal = "none"
                   PROVE  Honest(post'[p])
        OBVIOUS
      <4>1. stage[s] \notin {"new", "opening"}
        BY <1>0, <1>1, <2>2 DEF WaitsForInit, Linked, PostArrives
      <4> QED
        BY <2>2, <4>1, LookupHonest
    <3>2. /\ post' \in [Posts -> Posted \cup {NoPost}]
          /\ \A q \in Posts : q # p => post'[q] = post[q]
          /\ \A x \in Sids : entry'[x] # NoEntry => HasEntry(x)
      BY <2>2, LookupTyped
    <3> QED
      BY <1>0, <1>1, <3>1, <3>2, TablesKept DEF PostArrives
  <2> QED
    BY <1>1, <2>1, <2>2 DEF PostArrives
<1>2. ASSUME NEW s \in Sids, GetArrives(p, s)
      PROVE  SessionsInv'
  <2>1. PICK phase \in {"serving", "cause", "gone"} :
            /\ Put(p, Req(s, "get", phase))
            /\ phase = "serving" => s \in transports
            /\ phase = "cause" => PeekInitFailure(s)
    BY <1>2 DEF GetArrives, WithoutTransport
  <2>2. post'[p] = Req(s, "get", phase) /\ Req(s, "get", phase) \in Posted
    BY <1>0, <2>1 DEF Put, Req, Posted
  <2>3. PeekInitFailure(s) => stage[s] = "failed"
    BY RecordedFailed
  <2>4. signal = "none" => Honest(post'[p])
    BY <1>0, <1>2, <2>1, <2>2, <2>3 DEF Honest, Req, GetArrives, Linked
  <2>5. \A x \in Sids : entry'[x] # NoEntry => HasEntry(x)
    BY <1>0, <1>2 DEF GetArrives, Touch, HasEntry
  <2>6. post' \in [Posts -> Posted \cup {NoPost}] /\ \A q \in Posts : q # p => post'[q] = post[q]
    BY <1>0, <2>1, <2>2 DEF Put
  <2> QED
    BY <1>0, <1>2, <2>4, <2>5, <2>6, TablesKept DEF GetArrives
<1>3. ASSUME NEW s \in Sids, CloseBegins(p, s)
      PROVE  SessionsInv'
  <2> DEFINE r == [post[p] EXCEPT !.phase = "closing", !.target = s]
  <2>1. post' = [post EXCEPT ![p] = r] /\ post[p] \in Posted /\ post[p].phase = "serving"
    BY <1>0, <1>3 DEF CloseBegins, Put, NoPost
  <2>2. r \in Posted /\ r.phase = "closing" /\ r.sid = post[p].sid
    BY <2>1 DEF Posted
  <2>3. post[p] # NoPost
    BY <2>1 DEF NoPost
  <2> HIDE DEF r
  <2>4. signal = "none" => Honest(r)
    BY <1>0, <2>1, <2>2, <2>3 DEF Honest
  <2>5. post' \in [Posts -> Posted \cup {NoPost}]
    BY <1>0, <2>1, <2>2
  <2>6. \A q \in Posts : post'[q] = post[q] \/ post'[q] = r
    BY <1>0, <2>1
  <2> QED
    BY <1>0, <1>3, <2>4, <2>5, <2>6, TablesKept DEF CloseBegins, HasEntry
<1>4. CASE InfraDrop(p)
  <2>1. post' = [post EXCEPT ![p] = NoPost]
    BY <1>4 DEF InfraDrop, Put
  <2>2. post' \in [Posts -> Posted \cup {NoPost}] /\ \A q \in Posts : post'[q] \in {post[q], NoPost}
    BY <1>0, <2>1
  <2>3. \A x \in Sids : entry'[x] # NoEntry => HasEntry(x)
    BY <1>0, <1>4 DEF InfraDrop, HasEntry
  <2> QED
    BY <1>0, <1>4, <2>2, <2>3, TablesKept, NoPostHonest DEF InfraDrop
<1>5. CASE SwitchReleases(p)
  <2> DEFINE r == [post[p] EXCEPT !.phase = "switching"]
  <2>1. post' = [post EXCEPT ![p] = r] /\ post[p] \in Posted /\ post[p].phase = "serving"
    BY <1>0, <1>5 DEF SwitchReleases, Put, NoPost
  <2>2. r \in Posted /\ r.phase = "switching" /\ r.sid = post[p].sid
    BY <2>1 DEF Posted
  <2>3. post[p] # NoPost
    BY <2>1 DEF NoPost
  <2> HIDE DEF r
  <2>4. signal = "none" => Honest(r)
    BY <1>0, <2>1, <2>2, <2>3 DEF Honest
  <2>5. post' \in [Posts -> Posted \cup {NoPost}] /\ \A q \in Posts : post'[q] \in {post[q], r}
    BY <1>0, <2>1, <2>2
  <2>6. \A x \in Sids : entry'[x] # NoEntry => HasEntry(x)
    BY <1>0, <1>5 DEF SwitchReleases, HasEntry
  <2> QED
    BY <1>0, <1>5, <2>4, <2>5, <2>6, TablesKept DEF SwitchReleases
<1> QED
  BY <1>1, <1>2, <1>3, <1>4, <1>5 DEF Requested

LEMMA ProgressInv ==
    ASSUME SessionsInv, NEW p \in Posts, Progress(p)
    PROVE  SessionsInv'
<1>0. /\ Ages' /\ marked \subseteq Sids /\ leaving \subseteq Sids /\ tearing \in Sids \cup {NoSid}
      /\ post \in [Posts -> Posted \cup {NoPost}] /\ entry \in [Sids -> 0..NoEntry]
      /\ signal = "none" => Linked /\ Honest(post[p])
  BY ProgressKeepsAges DEF SessionsInv, Typed, Ages
<1>1. CASE Resume(p)
  <2> DEFINE s == post[p].sid
             method == post[p].method
  <2>1. post[p] \in Posted /\ post[p] # NoPost
    BY <1>0, <1>1 DEF Resume, NoPost
  <2>2. s \in Sids /\ (Serve(p, s, method) \/ Reject(p, s, method)) /\ stage[s] # "opening"
    BY <1>1, <2>1 DEF Resume, Posted
  <2>3. CASE method = "get"
    <3>1. s \notin transports => WithoutTransport(s, method) \in {"cause", "gone"}
      BY <2>3 DEF WithoutTransport
    <3>2. PICK phase \in {"serving", "cause", "gone"} :
              /\ Put(p, Req(s, method, phase))
              /\ phase = "serving" => s \in transports
              /\ phase = "cause" => PeekInitFailure(s)
      BY <2>2, <2>3 DEF Serve, Reject, WithoutTransport
    <3>3. post'[p] = Req(s, method, phase) /\ Req(s, method, phase) \in Posted
      BY <1>0, <2>2, <2>3, <3>2 DEF Put, Req, Posted
    <3>4. signal = "none" => Honest(post'[p])
      <4>1. signal = "none" => stage[s] # "new"
        BY <1>0, <2>1 DEF Honest
      <4>2. phase = "cause" => stage[s] = "failed"
        BY <3>2, RecordedFailed
      <4>3. signal = "none" /\ phase = "serving" => stage[s] = "open"
        BY <1>0, <2>2, <3>2 DEF Linked
      <4> QED
        BY <2>3, <3>3, <4>1, <4>2, <4>3 DEF Honest, Req
    <3>5. entry' = entry \/ entry' = Touch(s)
      BY <2>2 DEF Serve, Reject
    <3>6. \A x \in Sids : entry'[x] # NoEntry => HasEntry(x)
      BY <1>0, <3>5 DEF Touch, HasEntry
    <3>7. /\ post' \in [Posts -> Posted \cup {NoPost}]
          /\ \A q \in Posts : q # p => post'[q] = post[q]
      BY <1>0, <3>2, <3>3 DEF Put
    <3> QED
      BY <1>0, <1>1, <3>4, <3>6, <3>7, TablesKept DEF Resume
  <2>4. CASE method \in {"list", "call"}
    <3>1. signal = "none" => Honest(post'[p])
      <4> SUFFICES ASSUME signal = "none"
                   PROVE  Honest(post'[p])
        OBVIOUS
      <4>1. stage[s] \notin {"new", "opening"}
        BY <1>0, <2>1, <2>2 DEF Honest
      <4> QED
        BY <2>2, <2>4, <4>1, LookupHonest
    <3>2. /\ post' \in [Posts -> Posted \cup {NoPost}]
          /\ \A q \in Posts : q # p => post'[q] = post[q]
          /\ \A x \in Sids : entry'[x] # NoEntry => HasEntry(x)
      BY <2>2, <2>4, LookupTyped
    <3> QED
      BY <1>0, <1>1, <3>1, <3>2, TablesKept DEF Resume
  <2> QED
    BY <2>1, <2>3, <2>4 DEF Posted
<1>2. CASE Answered(p)
  <2>1. post' = [post EXCEPT ![p] = NoPost]
    BY <1>2 DEF Answered, Put
  <2>2. post' \in [Posts -> Posted \cup {NoPost}] /\ \A q \in Posts : post'[q] \in {post[q], NoPost}
    BY <1>0, <2>1
  <2> QED
    BY <1>0, <1>2, <2>2, TablesKept, NoPostHonest DEF Answered, HasEntry
<1>3. CASE SwitchReopens(p)
  <2>1. post' = [post EXCEPT ![p] = NoPost] /\ post[p] \in Posted /\ post[p].phase = "switching"
    BY <1>0, <1>3 DEF SwitchReopens, Put, NoPost
  <2>2. post' \in [Posts -> Posted \cup {NoPost}] /\ \A q \in Posts : post'[q] \in {post[q], NoPost}
    BY <1>0, <2>1
  <2>3. post[p].sid \in Sids /\ (signal = "none" => stage[post[p].sid] = "open")
    BY <1>0, <2>1 DEF Honest, Posted
  <2>4. \A x \in Sids : entry'[x] # NoEntry => HasEntry(x) \/ x = post[p].sid
    BY <1>0, <1>3 DEF SwitchReopens, HasEntry
  <2> QED
    BY <1>0, <1>3, <2>2, <2>3, <2>4, TablesKept, NoPostHonest DEF SwitchReopens
<1>4. CASE CloseLocks(p)
  <2> DEFINE t == post[p].target
             r == [post[p] EXCEPT !.phase = "tearing"]
  <2>1. post[p] \in Posted /\ post[p].phase = "closing" /\ post[p] # NoPost
    BY <1>0, <1>4 DEF CloseLocks, NoPost
  <2>2. r \in Posted /\ r.phase = "tearing" /\ r.sid = post[p].sid /\ t \in Sids
    BY <2>1 DEF Posted
  <2>3. \E x \in {r, NoPost} : post' = [post EXCEPT ![p] = x]
    BY <1>4 DEF CloseLocks, Put
  <2>4. tearing' = IF HasEntry(t) THEN t ELSE NoSid
    BY <1>4 DEF CloseLocks, Teardown
  <2> HIDE DEF r
  <2>5. signal = "none" => Honest(r)
    BY <1>0, <2>1, <2>2 DEF Honest
  <2>6. post' \in [Posts -> Posted \cup {NoPost}]
        /\ \A q \in Posts : post'[q] \in {post[q], r, NoPost}
    BY <1>0, <2>2, <2>3
  <2>7. tearing' \in Sids \cup {NoSid} /\ (tearing' # NoSid => HasEntry(tearing'))
    BY <2>2, <2>4
  <2> QED
    BY <1>0, <1>4, <2>5, <2>6, <2>7, TablesKept, NoPostHonest DEF CloseLocks, HasEntry
<1> QED
  BY <1>1, <1>2, <1>3, <1>4 DEF Progress

LEMMA SweepInv ==
    ASSUME SessionsInv, Sweep
    PROVE  SessionsInv'
<1>0. /\ Ages' /\ Typed /\ entry \in [Sids -> 0..NoEntry]
      /\ signal = "none" => Linked /\ \A p \in Posts : Honest(post[p])
  BY SweepKeepsAges DEF SessionsInv, Ages
<1>1. CASE SweepMarks
  BY <1>0, <1>1, TablesKept DEF SweepMarks, HasEntry, Typed
<1>2. ASSUME NEW s \in Sids, SweepChecks(s)
      PROVE  SessionsInv'
  <2>1. tearing' # NoSid => tearing' = s /\ HasEntry(s)
    BY <1>2 DEF SweepChecks, StillIdle, Expired
  <2>2. tearing' \in Sids \cup {NoSid} /\ marked' \subseteq Sids /\ leaving' \subseteq Sids
        /\ post' \in [Posts -> Posted \cup {NoPost}]
    BY <1>0, <1>2, <2>1 DEF SweepChecks, Typed
  <2> QED
    BY <1>0, <1>2, <2>1, <2>2, TablesKept DEF SweepChecks, HasEntry
<1>3. CASE TornDown
  <2>1. tearing \in Sids
    BY <1>0, <1>3 DEF TornDown, LockFree, Typed
  <2>2. \A p \in Posts : post'[p] \in {post[p], NoPost}
    BY <1>0, <1>3 DEF TornDown
  <2>3. post' \in [Posts -> Posted \cup {NoPost}]
    BY <1>0, <1>3 DEF TornDown, Typed
  <2>4. Typed'
    BY <1>0, <1>3, <2>1, <2>3 DEF TornDown, Typed
  <2>5. signal = "none" => Linked'
    BY <1>0, <1>3, <2>1, SessionsAssumption DEF TornDown, Linked, HasEntry
  <2> QED
    BY <1>0, <1>3, <2>2, <2>4, <2>5, NoPostHonest, StagesKept DEF TornDown
<1> QED
  BY <1>1, <1>2, <1>3 DEF Sweep

\* After a signal only the types and the records are kept.
LEMMA CleanupInv ==
    ASSUME SessionsInv, Cleanup
    PROVE  SessionsInv'
<1>0. Ages' /\ Typed /\ Recorded
  BY CleanupKeepsAges DEF SessionsInv
<1>1. CASE Signal
  <2>1. Typed' /\ Recorded' /\ signal' # "none"
    BY <1>0, <1>1 DEF Signal, Typed, Recorded
  <2> QED
    BY <1>0, <2>1 DEF SessionsInv
<1>2. ASSUME NEW s \in Sids, ShutdownSession(s)
      PROVE  SessionsInv'
  <2>1. tearing' # NoSid => tearing' = s /\ HasEntry(s)
    BY <1>2 DEF ShutdownSession, Teardown
  <2>2. tearing' \in Sids \cup {NoSid} /\ marked' \subseteq Sids /\ leaving' \subseteq Sids
        /\ post' \in [Posts -> Posted \cup {NoPost}]
    BY <1>0, <1>2, <2>1 DEF ShutdownSession, Typed
  <2> QED
    BY <1>0, <1>2, <2>1, <2>2, TablesKept DEF ShutdownSession, HasEntry
<1>3. CASE CleanupEnds
  <2>1. failures' \in Seq(Sids) /\ Len(failures') = 0
    BY <1>3 DEF CleanupEnds
  <2>2. Typed' /\ Recorded' /\ signal' # "none"
    BY <1>0, <1>3, <2>1, SessionsAssumption DEF CleanupEnds, Typed, Recorded
  <2> QED
    BY <1>0, <2>2 DEF SessionsInv
<1> QED
  BY <1>1, <1>2, <1>3 DEF Cleanup

(* A tick ages every failure alike.                                        *)
LEMMA TickInv ==
    ASSUME SessionsInv, PoolTick
    PROVE  SessionsInv'
<1>0. Ages' /\ Typed /\ Recorded /\ FailureTtl \in Nat /\ entry \in [Sids -> 0..NoEntry]
  BY TickKeepsAges, SessionsAssumption DEF SessionsInv, Ages
<1>1. \A s \in Sids : failedAgo'[s] = IF stage[s] = "failed"
                                      THEN Later(failedAgo[s], FailureTtl + 1) ELSE 0
  BY <1>0 DEF PoolTick
<1>2. \A s \in Sids : stage[s] = "failed" =>
          failedAgo'[s] = IF failedAgo[s] <= FailureTtl THEN failedAgo[s] + 1 ELSE FailureTtl + 1
  BY <1>0, <1>1 DEF Later, Typed
<1>3. Len(failures) \in Nat /\ \A i \in 1..Len(failures) : failures[i] \in Sids
  BY <1>0, LenProperties, ElementOfSeq DEF Typed
<1>4. FailedSids' = FailedSids /\ failures' = failures /\ stage' = stage /\ signal' = signal
  BY DEF FailedSids, PoolTick
<1>5. Typed'
  <2>1. failedAgo' \in [Sids -> 0..(FailureTtl + 1)]
    BY <1>0 DEF PoolTick, Typed, Later
  <2> QED
    BY <1>0, <2>1 DEF PoolTick, Typed
<1>6. Recorded'
  <2>1. \A i \in 1..Len(failures) : stage[failures[i]] = "failed"
    BY <1>0 DEF Recorded
  <2>2. ASSUME NEW i \in 1..Len(failures), NEW j \in 1..Len(failures), i < j
        PROVE  failures[i] # failures[j] /\ failedAgo'[failures[j]] <= failedAgo'[failures[i]]
    <3>1. failures[i] # failures[j] /\ failedAgo[failures[j]] <= failedAgo[failures[i]]
      BY <1>0, <2>2 DEF Recorded
    <3>2. /\ failures[i] \in Sids /\ failures[j] \in Sids
          /\ stage[failures[i]] = "failed" /\ stage[failures[j]] = "failed"
      BY <1>3, <2>1
    <3>3. /\ failedAgo[failures[i]] \in 0..(FailureTtl + 1)
          /\ failedAgo[failures[j]] \in 0..(FailureTtl + 1)
      BY <1>0, <3>2 DEF Typed
    <3> DEFINE x == failures[i]
               y == failures[j]
    <3>4. failedAgo'[x] = IF failedAgo[x] <= FailureTtl THEN failedAgo[x] + 1 ELSE FailureTtl + 1
      BY <1>2, <3>2
    <3>5. failedAgo'[y] = IF failedAgo[y] <= FailureTtl THEN failedAgo[y] + 1 ELSE FailureTtl + 1
      BY <1>2, <3>2
    <3> HIDE DEF x, y
    <3>6. failedAgo'[y] <= failedAgo'[x]
      <4>1. failedAgo[x] \in 0..(FailureTtl + 1) /\ failedAgo[y] \in 0..(FailureTtl + 1)
        BY <3>3 DEF x, y
      <4>2. failedAgo[y] <= failedAgo[x]
        BY <3>1 DEF x, y
      <4> QED
        BY <1>0, <3>4, <3>5, <4>1, <4>2
    <3> QED
      BY <3>1, <3>6 DEF x, y
  <2> QED
    BY <1>0, <1>4, <2>1, <2>2 DEF Recorded
<1>7. ASSUME PushedOut
      PROVE  PushedOut'
  <2> SUFFICES ASSUME NEW s \in Sids, stage[s] = "failed", s \notin FailedSids,
                      failedAgo'[s] <= FailureTtl
               PROVE  /\ Len(failures) = FailureMax
                      /\ \A i \in 1..Len(failures) : failedAgo'[failures[i]] <= failedAgo'[s]
    BY <1>4 DEF PushedOut
  <2>1. failedAgo[s] <= FailureTtl /\ failedAgo'[s] = failedAgo[s] + 1
    BY <1>0, <1>2 DEF Typed
  <2>2. /\ Len(failures) = FailureMax
        /\ \A i \in 1..Len(failures) : failedAgo[failures[i]] <= failedAgo[s]
    BY <1>7, <2>1 DEF PushedOut
  <2>3. ASSUME NEW i \in 1..Len(failures)
        PROVE  failedAgo'[failures[i]] <= failedAgo'[s]
    <3>1. failures[i] \in Sids /\ stage[failures[i]] = "failed"
      BY <1>0, <1>3 DEF Recorded
    <3>2. failedAgo[failures[i]] \in 0..(FailureTtl + 1) /\ failedAgo[s] \in 0..(FailureTtl + 1)
      BY <1>0, <3>1 DEF Typed
    <3> QED
      BY <1>0, <1>2, <2>1, <2>2, <3>1, <3>2
  <2> QED
    BY <2>2, <2>3
<1>8. Linked => Linked'
  BY <1>0, SessionsAssumption DEF PoolTick, Linked, HasEntry, NoEntry, Later
<1>9. ASSUME NEW p \in Posts, Honest(post[p])
      PROVE  Honest(post[p])'
  <2>1. ASSUME NEW s \in Sids, Gone(s)
        PROVE  Gone(s)'
    <3>1. stage[s] = "failed" /\ failedAgo[s] > FailureTtl => failedAgo'[s] > FailureTtl
      BY <1>0, <1>2 DEF Typed
    <3> QED
      BY <1>4, <2>1, <3>1 DEF Gone, PoolTick
  <2>2. post[p] = NoPost \/ post[p].sid \in Sids
    BY <1>0 DEF Typed, Posted
  <2>3. CASE post[p] = NoPost
    BY <2>3 DEF NoPost, Honest, PoolTick
  <2>4. CASE post[p].sid \in Sids
    BY <1>4, <1>9, <2>1, <2>4 DEF Honest, PoolTick
  <2> QED
    BY <2>2, <2>3, <2>4
<1> QED
  BY <1>0, <1>4, <1>5, <1>6, <1>7, <1>8, <1>9 DEF SessionsInv

(* The first position that is kept is one that keeps.                      *)
LEMMA RememberFacts ==
    ASSUME Typed, NEW x \in Sids
    PROVE  \E n \in 1..(Len(failures) + 1) :
               /\ Keeps(n)
               /\ \A m \in 1..(Len(failures) + 1) : Keeps(m) => n <= m
               /\ RememberInitFailure(x) \in Seq(Sids)
               /\ Len(RememberInitFailure(x)) = Len(failures) + 2 - n
               /\ \A i \in 1..(Len(failures) + 1 - n) :
                      RememberInitFailure(x)[i] = failures[n + i - 1]
               /\ RememberInitFailure(x)[Len(failures) + 2 - n] = x
<1> DEFINE S == {n \in 1..(Len(failures) + 1) : Keeps(n)}
           first == Min(S)
           kept == SubSeq(failures, first, Len(failures))
<1>1. Len(failures) \in Nat /\ FailureMax \in Nat \ {0} /\ failures \in Seq(Sids)
  BY LenProperties, SessionsAssumption DEF Typed
<1>2. Keeps(Len(failures) + 1)
  BY <1>1 DEF Keeps
<1>3. S \subseteq Nat /\ S # {}
  BY <1>1, <1>2
<1>4. first \in S /\ \A m \in S : first <= m
  BY <1>3, LeastIsOne
<1> HIDE DEF first
<1>5. first \in 1..(Len(failures) + 1) /\ Keeps(first)
  BY <1>4
<1>6. /\ kept \in Seq(Sids) /\ Len(kept) = Len(failures) + 1 - first
      /\ \A i \in 1..(Len(failures) + 1 - first) : kept[i] = failures[first + i - 1]
  <2>1. \A i \in first..Len(failures) : failures[i] \in Sids
    BY <1>1, <1>5, ElementOfSeq
  <2> QED
    BY <1>1, <1>5, <2>1, SubSeqProperties
<1>7. RememberInitFailure(x) = Append(kept, x)
  BY DEF RememberInitFailure, first
<1> HIDE DEF kept
<1>8. /\ Append(kept, x) \in Seq(Sids) /\ Len(Append(kept, x)) = Len(failures) + 2 - first
      /\ \A i \in 1..Len(kept) : Append(kept, x)[i] = kept[i]
      /\ Append(kept, x)[Len(kept) + 1] = x
  BY <1>1, <1>5, <1>6, AppendProperties
<1>9. \A m \in 1..(Len(failures) + 1) : Keeps(m) => first <= m
  BY <1>4
<1>10. Len(kept) + 1 = Len(failures) + 2 - first
  BY <1>1, <1>5, <1>6
<1> QED
  BY <1>5, <1>6, <1>7, <1>8, <1>9, <1>10

(* A failure is put on record.  What it drops is too old, or it drops just  *)
(* the oldest ones that the cap does not leave room for.                   *)
LEMMA ConnectFailsInv ==
    ASSUME SessionsInv, NEW x \in Sids, ConnectFails(x)
    PROVE  SessionsInv'
<1> DEFINE L == Len(failures)
           fs == RememberInitFailure(x)
<1>0. /\ Typed /\ Recorded /\ entry \in [Sids -> 0..NoEntry] /\ FailureTtl \in Nat
      /\ FailureMax \in Nat \ {0}
      /\ signal = "none" => PushedOut /\ Linked /\ \A p \in Posts : Honest(post[p])
  BY SessionsAssumption DEF SessionsInv, Ages
<1>1. Ages'
  BY SetKeepsAges DEF SessionsInv, ConnectFails
<1>2. PICK n \in 1..(L + 1) :
          /\ Keeps(n)
          /\ \A m \in 1..(L + 1) : Keeps(m) => n <= m
          /\ fs \in Seq(Sids) /\ Len(fs) = L + 2 - n
          /\ \A i \in 1..(L + 1 - n) : fs[i] = failures[n + i - 1]
          /\ fs[L + 2 - n] = x
  BY <1>0, RememberFacts
<1>3. /\ failures' = fs /\ stage[x] = "opening" /\ signal' = signal
      /\ stage' = [stage EXCEPT ![x] = "failed"] /\ failedAgo' = [failedAgo EXCEPT ![x] = 0]
  BY DEF ConnectFails
<1> HIDE DEF fs
<1>4. L \in Nat /\ \A i \in 1..L : failures[i] \in Sids /\ failures[i] # x
                             /\ failedAgo[failures[i]] \in 0..(FailureTtl + 1)
  <2>1. L \in Nat /\ \A i \in 1..L : failures[i] \in Sids
    BY <1>0, LenProperties, ElementOfSeq DEF Typed
  <2>2. \A i \in 1..L : failures[i] # x
    BY <1>0, <1>3 DEF Recorded
  <2> QED
    BY <1>0, <2>1, <2>2 DEF Typed
<1> HIDE DEF L
<1>5. Typed'
  BY <1>0, <1>2, <1>3 DEF ConnectFails, Typed
<1>6. ASSUME NEW i \in 1..Len(fs)
      PROVE  \/ i = L + 2 - n /\ fs[i] = x
             \/ i \in 1..(L + 1 - n) /\ n + i - 1 \in 1..L /\ fs[i] = failures[n + i - 1]
  BY <1>2, <1>4
<1>7. /\ stage'[x] = "failed" /\ failedAgo'[x] = 0
      /\ \A s \in Sids : s # x => stage'[s] = stage[s] /\ failedAgo'[s] = failedAgo[s]
  BY <1>0, <1>3 DEF Typed
<1>8. Recorded'
  <2>1. Len(fs) <= FailureMax
    BY <1>0, <1>2, <1>4 DEF Keeps, L
  <2>2. ASSUME NEW i \in 1..Len(fs)
        PROVE  stage'[fs[i]] = "failed"
    <3>1. \A k \in 1..L : stage'[failures[k]] = "failed"
      BY <1>0, <1>4, <1>7 DEF Recorded, L
    <3> QED
      BY <1>6, <1>7, <3>1, SMTT(30)
  <2>3. ASSUME NEW i \in 1..Len(fs), NEW j \in 1..Len(fs), i < j
        PROVE  fs[i] # fs[j] /\ failedAgo'[fs[j]] <= failedAgo'[fs[i]]
    <3>1. i \in 1..(L + 1 - n) /\ n + i - 1 \in 1..L /\ fs[i] = failures[n + i - 1]
      BY <1>2, <1>4, <1>6, <2>3
    <3>2. CASE j = L + 2 - n /\ fs[j] = x
      <4>1. /\ fs[i] \in Sids /\ fs[i] # x /\ failedAgo[fs[i]] \in 0..(FailureTtl + 1)
        BY <1>4, <3>1
      <4>2. failedAgo'[fs[i]] = failedAgo[fs[i]]
        BY <1>7, <4>1
      <4> QED
        BY <1>0, <1>7, <3>2, <4>1, <4>2
    <3>3. CASE n + j - 1 \in 1..L /\ fs[j] = failures[n + j - 1]
      <4> DEFINE a == n + i - 1
                 b == n + j - 1
      <4>1. a < b
        BY <1>2, <1>4, <2>3
      <4>2. /\ failures[a] # failures[b]
            /\ failedAgo[failures[b]] <= failedAgo[failures[a]]
        BY <1>0, <3>1, <3>3, <4>1 DEF Recorded, L
      <4>3. /\ failedAgo'[failures[a]] = failedAgo[failures[a]]
            /\ failedAgo'[failures[b]] = failedAgo[failures[b]]
        BY <1>4, <1>7, <3>1, <3>3
      <4> QED
        BY <3>1, <3>3, <4>2, <4>3
    <3> QED
      BY <1>6, <3>2, <3>3
  <2> QED
    BY <1>3, <2>1, <2>2, <2>3 DEF Recorded
<1>9. \A s : s \in FailedSids <=> \E i \in 1..L : failures[i] = s
  BY <1>0, LenProperties DEF FailedSids, Typed, L
<1>10. \A s : s \in FailedSids' <=> \E i \in 1..Len(fs) : fs[i] = s
  BY <1>2, <1>3, LenProperties DEF FailedSids
<1>11. ASSUME n > 1
       PROVE  failedAgo[failures[n - 1]] > FailureTtl \/ L + 2 - n = FailureMax
  <2>1. ~Keeps(n - 1) /\ n - 1 \in 1..L
    BY <1>2, <1>4, <1>11
  <2>2. CASE \E i \in (n - 1)..L : ~(failedAgo[failures[i]] <= FailureTtl)
    <3>1. PICK i \in (n - 1)..L : ~(failedAgo[failures[i]] <= FailureTtl)
      BY <2>2
    <3>2. ~(i \in n..L)
      BY <1>2, <3>1 DEF Keeps, L
    <3>3. i = n - 1
      BY <1>2, <1>4, <2>1, <3>1, <3>2
    <3> QED
      BY <1>0, <1>4, <2>1, <3>1, <3>3
  <2>3. CASE ~(L + 1 < FailureMax + (n - 1))
    <3>1. L + 1 < FailureMax + n
      BY <1>2 DEF Keeps, L
    <3> QED
      BY <1>0, <1>4, <2>1, <2>3, <3>1
  <2> QED
    BY <2>1, <2>2, <2>3 DEF Keeps, L
<1>12. ASSUME PushedOut
       PROVE  PushedOut'
  <2> SUFFICES ASSUME NEW s \in Sids, stage'[s] = "failed", s \notin FailedSids',
                      failedAgo'[s] <= FailureTtl
               PROVE  /\ Len(fs) = FailureMax
                      /\ \A i \in 1..Len(fs) : failedAgo'[fs[i]] <= failedAgo'[s]
    BY <1>3 DEF PushedOut
  <2>1. s # x
    <3>1. L + 2 - n \in 1..Len(fs)
      BY <1>2, <1>4
    <3> QED
      BY <1>2, <1>10, <3>1
  <2>2. stage[s] = "failed" /\ failedAgo'[s] = failedAgo[s] /\ failedAgo[s] \in 0..(FailureTtl + 1)
    BY <1>0, <1>7, <2>1 DEF Typed
  <2>3. ASSUME L + 2 - n = FailureMax,
               \A i \in n..L : failedAgo[failures[i]] <= failedAgo[s]
        PROVE  /\ Len(fs) = FailureMax
               /\ \A i \in 1..Len(fs) : failedAgo'[fs[i]] <= failedAgo'[s]
    <3>1. \A k \in n..L : failedAgo'[failures[k]] <= failedAgo'[s]
      BY <1>2, <1>4, <1>7, <2>2, <2>3
    <3>2. ASSUME NEW i \in 1..Len(fs)
          PROVE  failedAgo'[fs[i]] <= failedAgo'[s]
      <4>1. CASE i = L + 2 - n /\ fs[i] = x
        BY <1>0, <1>7, <2>2, <4>1
      <4>2. CASE i \in 1..(L + 1 - n) /\ n + i - 1 \in 1..L /\ fs[i] = failures[n + i - 1]
        <5>1. n + i - 1 \in n..L
          BY <1>2, <1>4, <4>2
        <5> QED
          BY <3>1, <4>2, <5>1
      <4> QED
        BY <1>6, <4>1, <4>2
    <3> QED
      BY <1>2, <2>3, <3>2
  <2>4. CASE s \in FailedSids
    <3>1. PICK k \in 1..L : failures[k] = s
      BY <1>9, <2>4
    <3>2. k < n
      <4> SUFFICES ASSUME k >= n
                   PROVE  FALSE
        BY <1>2, <1>4, <3>1
      <4>1. k - n + 1 \in 1..(L + 1 - n) /\ k - n + 1 \in 1..Len(fs)
            /\ n + (k - n + 1) - 1 = k
        BY <1>2, <1>4, <3>1
      <4>2. fs[k - n + 1] = s
        BY <1>2, <3>1, <4>1
      <4> QED
        BY <1>10, <4>1, <4>2
    <3>3. n > 1 /\ n - 1 \in 1..L
      BY <1>2, <1>4, <3>1, <3>2
    <3>4. failedAgo[failures[n - 1]] <= failedAgo[s]
      <4>1. k = n - 1 \/ k < n - 1
        BY <1>2, <1>4, <3>1, <3>2
      <4>2. k < n - 1 => failedAgo[failures[n - 1]] <= failedAgo[failures[k]]
        BY <1>0, <3>1, <3>3 DEF Recorded, L
      <4> QED
        BY <1>0, <2>2, <3>1, <4>1, <4>2
    <3>5. L + 2 - n = FailureMax
      BY <1>0, <1>4, <1>11, <2>2, <3>3, <3>4
    <3>6. ASSUME NEW i \in n..L
          PROVE  failedAgo[failures[i]] <= failedAgo[s]
      <4>1. i \in 1..L /\ k < i
        BY <1>2, <1>4, <3>1, <3>2
      <4> QED
        BY <1>0, <3>1, <4>1 DEF Recorded, L
    <3> QED
      BY <2>3, <3>5, <3>6
  <2>5. CASE s \notin FailedSids
    <3>1. L = FailureMax /\ \A i \in 1..L : failedAgo[failures[i]] <= failedAgo[s]
      BY <1>12, <2>2, <2>5 DEF PushedOut, L
    <3>2. n > 1
      BY <1>0, <1>2, <1>4, <3>1 DEF Keeps, L
    <3>3. n - 1 \in 1..L
      BY <1>2, <1>4, <3>2
    <3>4. ~(failedAgo[failures[n - 1]] > FailureTtl)
      BY <1>0, <1>4, <2>2, <3>1, <3>3
    <3>5. L + 2 - n = FailureMax
      BY <1>11, <3>2, <3>4
    <3>6. \A i \in n..L : failedAgo[failures[i]] <= failedAgo[s]
      BY <1>2, <1>4, <3>1
    <3> QED
      BY <2>3, <3>5, <3>6
  <2> QED
    BY <2>4, <2>5
<1>13. Linked => Linked'
  BY <1>0, <1>3, <1>7 DEF Linked, ConnectFails, HasEntry, Typed
<1>14. ASSUME NEW p \in Posts, Honest(post[p])
       PROVE  Honest(post[p])'
  <2>1. ASSUME NEW s \in Sids, s # x, Gone(s)
        PROVE  Gone(s)'
    <3>1. s \in FailedSids' => s \in FailedSids
      BY <1>6, <1>9, <1>10, <2>1
    <3> QED
      BY <1>7, <2>1, <3>1 DEF Gone, ConnectFails
  <2>2. ~Gone(x) \/ x \in ended
    BY <1>3 DEF Gone
  <2>3. x \in ended => Gone(x)'
    BY DEF Gone, ConnectFails
  <2>4. CASE post[p] = NoPost
    BY <2>4 DEF NoPost, Honest, ConnectFails
  <2>5. CASE post[p].sid \in Sids
    BY <1>3, <1>7, <1>14, <2>1, <2>2, <2>3, <2>5 DEF Honest, ConnectFails
  <2> QED
    BY <1>0, <2>4, <2>5 DEF Typed, Posted
<1> QED
  BY <1>0, <1>1, <1>3, <1>5, <1>8, <1>12, <1>13, <1>14 DEF SessionsInv, ConnectFails

LEMMA OpeningInv ==
    ASSUME SessionsInv, NEW x \in Sids, Opening(x)
    PROVE  SessionsInv'
<1>0. /\ Ages' /\ Typed /\ Recorded /\ entry \in [Sids -> 0..NoEntry]
      /\ signal = "none" => PushedOut /\ Linked /\ \A p \in Posts : Honest(post[p])
  BY OpeningKeepsAges DEF SessionsInv, Ages
<1>1. ASSUME NEW st \in {"opening", "open"}, stage[x] \in {"new", "opening"},
             stage' = [stage EXCEPT ![x] = st], Typed', signal' = signal,
             UNCHANGED <<failures, failedAgo, ended, post>>,
             stage[x] = "new" => st = "opening",
             signal = "none" => Linked'
      PROVE  SessionsInv'
  <2>1. stage'[x] = st /\ \A s \in Sids : s # x => stage'[s] = stage[s]
    BY <1>0, <1>1 DEF Typed
  <2>2. \A i \in 1..Len(failures) : failures[i] \in Sids
    BY <1>0, LenProperties, ElementOfSeq DEF Typed
  <2>3. Recorded' /\ FailedSids' = FailedSids
    BY <1>0, <1>1, <2>1, <2>2 DEF Recorded, FailedSids
  <2>4. PushedOut => PushedOut'
    BY <1>1, <2>1, <2>3 DEF PushedOut
  <2>5. ASSUME NEW p \in Posts, Honest(post[p])
        PROVE  Honest(post[p])'
    <3>1. CASE post[p] = NoPost
      BY <1>1, <3>1 DEF NoPost, Honest
    <3>2. CASE post[p] # NoPost
      <4>1. post[p].sid \in Sids
        BY <1>0, <3>2 DEF Typed, Posted
      <4>2. \A s \in Sids : Gone(s) => Gone(s)'
        BY <1>1, <2>1, <2>3 DEF Gone
      <4> QED
        BY <1>1, <2>1, <2>5, <3>2, <4>1, <4>2 DEF Honest
    <3> QED
      BY <3>1, <3>2
  <2> QED
    BY <1>0, <1>1, <2>3, <2>4, <2>5 DEF SessionsInv
<1>2. CASE Initialize(x)
  <2>1. Typed'
    BY <1>0, <1>2 DEF Initialize, Typed
  <2>2. Linked => Linked'
    BY <1>0, <1>2 DEF Initialize, Linked, HasEntry, Typed
  <2> QED
    BY <1>0, <1>1, <1>2, <2>1, <2>2 DEF Initialize
<1>3. CASE Connected(x)
  <2>1. Typed'
    BY <1>0, <1>3 DEF Connected, Typed
  <2>2. Linked => Linked'
    BY <1>0, <1>3, SessionsAssumption DEF Connected, Linked, HasEntry, Typed, LockFree
  <2> QED
    BY <1>0, <1>1, <1>3, <2>1, <2>2 DEF Connected
<1>4. CASE ConnectFails(x)
  BY <1>4, ConnectFailsInv
<1> QED
  BY <1>2, <1>3, <1>4 DEF Opening

LEMMA NextSessionsInv ==
    ASSUME SessionsInv, [SessionsNext]_sessionVars
    PROVE  SessionsInv'
<1>1. CASE UNCHANGED sessionVars
  <2>1. Ages' /\ Typed' /\ (Linked => Linked')
    BY <1>1, SameKeepsAges DEF sessionVars, SessionsInv, Typed, Linked, HasEntry
  <2> QED
    BY <1>1, <2>1, StagesKept DEF sessionVars, SessionsInv
<1>2. CASE SessionsNext
  BY <1>2, SweepInv, CleanupInv, TickInv, OpeningInv, RequestedInv, ProgressInv
  DEF SessionsNext
<1> QED
  BY <1>1, <1>2

(* The links between the tables, the records and what requests were told   *)
(* hold in every reachable state.                                          *)
THEOREM SessionsInvariant == SessionsSpec => []SessionsInv
<1>1. SessionsInv /\ [SessionsNext]_sessionVars => SessionsInv'
  BY NextSessionsInv
<1> QED
  BY InitSessionsInv, <1>1, PTL DEF SessionsSpec

(* Every variable keeps its type, and the records of failures their cap     *)
(* (INIT_FAILURE_MAX).                                                      *)
THEOREM SessionsTyped == SessionsSpec => []SessionsTypeOK
<1>1. SessionsInv => SessionsTypeOK
  <2> SUFFICES ASSUME SessionsInv
               PROVE  SessionsTypeOK
    OBVIOUS
  <2>1. FailedSids \subseteq Sids
    BY LenProperties, ElementOfSeq DEF SessionsInv, Typed, FailedSids
  <2>2. \A p \in Posts : post[p] = NoPost \/ post[p] \in Posted
    BY DEF SessionsInv, Typed
  <2> QED
    BY <2>1, <2>2 DEF SessionsInv, Ages, Typed, Recorded, SessionsTypeOK, Posted
<1> QED
  BY <1>1, SessionsInvariant, PTL

(* There are as many failed sessions on record as there are records.       *)
LEMMA RecordsCounted ==
    ASSUME SessionsInv
    PROVE  Cardinality(FailedSids) = Len(failures)
<1>1. /\ Len(failures) \in Nat /\ DOMAIN failures = 1..Len(failures)
      /\ failures \in [1..Len(failures) -> FailedSids]
      /\ \A i \in 1..Len(failures) : failures[i] \in FailedSids
  BY LenProperties, ElementOfSeq DEF SessionsInv, Typed, FailedSids
<1>2. \A i, j \in 1..Len(failures) : failures[i] = failures[j] => i = j
  BY <1>1 DEF SessionsInv, Recorded
<1>3. failures \in Bijection(1..Len(failures), FailedSids)
  BY <1>1, <1>2 DEF Bijection, Injection, IsInjective, Surjection, FailedSids
<1>4. ExistsBijection(1..Len(failures), FailedSids)
  BY <1>3 DEF ExistsBijection
<1>5. IsFiniteSet(1..Len(failures)) /\ Cardinality(1..Len(failures)) = Len(failures)
  BY <1>1, FS_Interval, SMTT(30)
<1> QED
  BY <1>4, <1>5, FS_Bijection

(* A request is told that its session is gone only if it ended, is of      *)
(* another process, or failed too long ago to be on record; and a failure  *)
(* is named as the cause only of a session that failed (app.post, app.get, *)
(* rememberInitFailure, peekInitFailure).                                  *)
THEOREM SessionsAnswerIsTrue == SessionsSpec => []AnswerIsTrue
<1>1. SessionsInv => AnswerIsTrue
  <2> SUFFICES ASSUME SessionsInv, signal = "none", NEW p \in Posts
               PROVE  LET s == post[p].sid
                          pushedOut == Cardinality({f \in FailedSids :
                                           failedAgo[f] <= failedAgo[s] /\ f # s}) >= FailureMax
                      IN  /\ post[p].phase \in {"gone", "discovery"} /\ post[p].method # "get" =>
                                 \/ stage[s] = "stale" \/ s \in ended
                                 \/ stage[s] = "failed" /\ (failedAgo[s] > FailureTtl \/ pushedOut)
                          /\ post[p].phase = "cause" => stage[s] = "failed"
    BY DEF AnswerIsTrue
  <2> DEFINE s == post[p].sid
             newer == {f \in FailedSids : failedAgo[f] <= failedAgo[s] /\ f # s}
  <2>1. Honest(post[p]) /\ PushedOut /\ post[p] \in Posted \cup {NoPost}
    BY DEF SessionsInv, Typed
  <2>2. ASSUME s \in Sids, stage[s] = "failed", s \notin FailedSids, ~(failedAgo[s] > FailureTtl)
        PROVE  Cardinality(newer) >= FailureMax
    <3>1. failedAgo[s] <= FailureTtl
      BY <2>2, SessionsAssumption DEF SessionsInv, Typed
    <3>2. /\ Len(failures) = FailureMax
          /\ \A i \in 1..Len(failures) : failedAgo[failures[i]] <= failedAgo[s]
      BY <2>1, <2>2, <3>1 DEF PushedOut
    <3>3. \A f \in FailedSids : failedAgo[f] <= failedAgo[s]
      BY <3>2, LenProperties DEF FailedSids, SessionsInv, Typed
    <3>4. newer = FailedSids
      BY <2>2, <3>3
    <3> QED
      BY <3>2, <3>4, RecordsCounted, SessionsAssumption
  <2>3. CASE post[p] = NoPost
    BY <2>3 DEF NoPost
  <2>4. CASE post[p] \in Posted
    <3>1. s \in Sids
      BY <2>4 DEF Posted
    <3> QED
      BY <2>1, <2>2, <3>1 DEF Honest, Gone
  <2> QED
    BY <2>1, <2>3, <2>4
<1> QED
  BY <1>1, SessionsInvariant, PTL
=============================================================================
