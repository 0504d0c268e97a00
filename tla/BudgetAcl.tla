----------------------------- MODULE BudgetAcl ------------------------------
(***************************************************************************)
(* Which budgets a request may touch: the ACL middleware in front of every *)
(* MCP request (src/auth), the check at the entry of every operation, the  *)
(* active budget of a session and the stored preference it is restored     *)
(* from.                                                                   *)
(*                                                                         *)
(* Two caches of sixty seconds stand between a revocation and its effect:  *)
(* the identity the UserInfo endpoint reported for a subject and the       *)
(* budgets the Actual server reported for a name.  Both are filled after   *)
(* an await.  Time passes in ticks; an age counts ticks.                   *)
(***************************************************************************)
EXTENDS Naturals, FiniteSets

CONSTANTS
    Subjects,     \* the verified subjects of the access tokens
    Names,        \* the user names Actual knows
    Budgets,      \* the configured budgets
    FirstBudget,  \* the first entry of the registry, the default
    AclSessions,  \* MCP sessions
    OwnerOf,      \* [AclSessions -> Subjects]: each client keeps its session
    Flights,      \* requests in flight at once
    NoName, NoBudget, Nobody,
    CacheTtl,     \* ticks a cached answer is used for (CACHE_TTL_MS)
    MaxFetch,     \* ticks a UserInfo request may take (USERINFO_TIMEOUT_MS)
    MaxRead,      \* ticks a budget listing may take: each of its steps (the listing, and
                  \* on a legacy path the load, the sync, the shutdown) has the bound
                  \* ACTUAL_OP_TIMEOUT_MS, and this is their sum
    MaxEvents     \* model bound: requests, changes of access and restarts

ASSUME AclAssumption ==
    /\ FirstBudget \in Budgets
    /\ OwnerOf \in [AclSessions -> Subjects]
    /\ NoName \notin Names /\ NoBudget \notin Budgets /\ Nobody \notin Flights
    /\ CacheTtl \in Nat /\ MaxFetch \in Nat /\ MaxRead \in Nat /\ MaxEvents \in Nat

VARIABLES
    setup,     \* the configuration: ACL source, identity source, identity map, static map
    granted,   \* <<name, budget>> pairs in the server's access lists now
    goesBy,    \* the name the identity provider gives each subject now
    lapse,     \* ticks since a pair of granted, or a <<subject, name>>, last held
    names,     \* _cache of userinfo-identity.ts: subject -> [name, age]
    allowances,\* _cache of budget-acl-dynamic.ts: name -> [allowed, age]
    lister,    \* the request that lists the budgets under the api lock
    flight,    \* the requests in flight
    slot,      \* sessionBudgetState
    preferred, \* the preference file: principal -> budget
    events     \* model bound counter

aclVars == <<setup, granted, goesBy, lapse, names, allowances, lister, flight, slot,
             preferred, events>>

NoRequest == [phase |-> "none"]
\* Longer ago than any bound below.
Horizon == CacheTtl + (IF MaxRead > MaxFetch THEN MaxRead ELSE MaxFetch) + 1
Absent == [name |-> NoName, age |-> CacheTtl]
Unknown == [allowed |-> {}, age |-> CacheTtl]

Older(n) == IF n < Horizon THEN n + 1 ELSE n
Facts == (Names \X Budgets) \cup (Subjects \X Names)
HoldsNow(f) == f \in granted \/ (f[1] \in Subjects /\ goesBy[f[1]] = f[2])
Set(r, fields) == [flight EXCEPT ![r] = fields]
Spend == events < MaxEvents /\ events' = events + 1

(***************************************************************************)
(* Freshness, for the properties: the names that were a subject's recently *)
(* enough when its request resolved, and the budgets one of those names    *)
(* had recently enough when the request was authorised.                    *)
(***************************************************************************)
Within(f, n) == lapse[f] <= n
NamedRecently(s) ==
    CASE setup.bound[s] # NoName -> {setup.bound[s]}
      [] setup.bound[s] = NoName /\ setup.identity = "token" -> {setup.claim[s]} \cap Names
      [] OTHER -> {n \in Names : Within(<<s, n>>, CacheTtl + MaxFetch)}
EntitledRecently(q) ==
    IF setup.source = "static" THEN setup.static[q.subject]
    ELSE {b \in Budgets : \E n \in q.known : Within(<<n, b>>, CacheTtl + MaxRead)}

(***************************************************************************)
(* The active budget of a session: its slot, else the stored preference if *)
(* the request's own allowance contains it, else the first of the registry *)
(***************************************************************************)
PickAllowedPreferred(stored, allowed) ==
    IF stored \in Budgets /\ stored \in allowed THEN stored ELSE NoBudget

Restored(r) == PickAllowedPreferred(preferred[flight[r].subject], flight[r].allowed)

ActiveBudget(r) ==
    LET s == flight[r].session
    IN  CASE slot[s] # NoBudget -> slot[s]
          [] slot[s] = NoBudget /\ Restored(r) # NoBudget -> Restored(r)
          [] OTHER -> FirstBudget

\* A restored preference is memoised into the session's slot.
Memoised(r) ==
    LET s == flight[r].session
    IN  IF slot[s] = NoBudget /\ Restored(r) # NoBudget
        THEN [slot EXCEPT ![s] = Restored(r)] ELSE slot

(***************************************************************************)
(* The middleware.  It runs without a pause up to its first await, so one  *)
(* step takes a request to the UserInfo call, to the api lock, or to its   *)
(* verdict.                                                                *)
(***************************************************************************)
\* An empty allowance is a 403; otherwise the request carries its allowance.
Decided(q, allowed) ==
    IF allowed = {} THEN NoRequest
    ELSE [q EXCEPT !.phase = "authorised", !.allowed = allowed,
                   !.recent = EntitledRecently(q)]

\* A fresh cached answer decides; without a name the request is denied.
FreshAllowance(n) == allowances[n].age < CacheTtl
Resolve(q, n) ==
    LET named == [q EXCEPT !.name = n, !.known = NamedRecently(q.subject)]
    IN  CASE n = NoName -> NoRequest
          [] n # NoName /\ FreshAllowance(n) -> Decided(named, allowances[n].allowed)
          [] OTHER -> [named EXCEPT !.phase = "waiting"]

Arrival(s) ==
    [phase |-> "arrived", session |-> s, subject |-> OwnerOf[s], name |-> NoName,
     known |-> {}, allowed |-> {}, recent |-> {}, age |-> 0, behind |-> FALSE, cleared |-> FALSE,
     ran |-> NoBudget]

\* What becomes of an arriving request, by the configured sources in their order.
AllowedByStaticMap(q) == Decided(q, setup.static[q.subject])
IdentifiedByMap(q) == Resolve(q, setup.bound[q.subject])
IdentifiedByToken(q) == Resolve(q, setup.claim[q.subject])
IdentifiedByUserInfo(q) ==
    IF names[q.subject].age < CacheTtl THEN Resolve(q, names[q.subject].name)
    ELSE [q EXCEPT !.phase = "asking"]

ResolvePrincipal(q) ==
    CASE setup.bound[q.subject] # NoName -> IdentifiedByMap(q)
      [] setup.bound[q.subject] = NoName /\ setup.identity = "userinfo" ->
            IdentifiedByUserInfo(q)
      [] OTHER -> IdentifiedByToken(q)

Arrive(r, s) ==
    /\ flight[r] = NoRequest /\ Spend
    /\ flight' = Set(r, IF setup.source = "static" THEN AllowedByStaticMap(Arrival(s))
                                                    ELSE ResolvePrincipal(Arrival(s)))
    /\ UNCHANGED <<setup, granted, goesBy, lapse, names, allowances, lister, slot, preferred>>

\* The provider answers from what it knows now; the body arrives later.
UserInfoReplies(r) ==
    /\ flight[r].phase = "asking"
    /\ flight' = [flight EXCEPT ![r].phase = "replied",
                                  ![r].name = goesBy[flight[r].subject]]
    /\ UNCHANGED <<setup, granted, goesBy, lapse, names, allowances, lister, slot, preferred,
                   events>>

\* Only a usable answer is cached.
UserInfoArrives(r) ==
    LET n == flight[r].name
    IN  /\ flight[r].phase = "replied"
        /\ names' = IF n = NoName THEN names
                    ELSE [names EXCEPT ![flight[r].subject] = [name |-> n, age |-> 0]]
        /\ flight' = Set(r, Resolve(flight[r], n))
        /\ UNCHANGED <<setup, granted, goesBy, lapse, allowances, lister, slot, preferred,
                       events>>

\* Time-out, refusal, unusable body or another subject's: denied, never the claims.
UserInfoFails(r) ==
    /\ flight[r].phase \in {"asking", "replied"}
    /\ flight' = Set(r, NoRequest)
    /\ UNCHANGED <<setup, granted, goesBy, lapse, names, allowances, lister, slot, preferred,
                   events>>

\* Mutant: two listings at once.
ListWithoutLock == TRUE

\* The listing goes through the adapter and so waits for the api lock.
LockForListing == lister = Nobody

StartListing(r) ==
    /\ flight[r].phase = "waiting" /\ LockForListing
    /\ lister' = r
    /\ flight' = [flight EXCEPT ![r].phase = "listing", ![r].age = 0]
    /\ UNCHANGED <<setup, granted, goesBy, lapse, names, allowances, slot, preferred, events>>

\* Mutant: any access list with an entry admits.
MatchAnyName(n) == {b \in Budgets : \E m \in Names : <<m, b>> \in granted}

\* matchAllowedFiles: the files whose access list has exactly this name.
MatchAllowedFiles(n) == {b \in Budgets : <<n, b>> \in granted}

ServerLists(r) ==
    /\ flight[r].phase = "listing"
    /\ flight' = [flight EXCEPT ![r].phase = "listed",
                                  ![r].allowed = MatchAllowedFiles(flight[r].name)]
    /\ UNCHANGED <<setup, granted, goesBy, lapse, names, allowances, lister, slot, preferred,
                   events>>

Fill(n, allowed) == [allowances EXCEPT ![n] = [allowed |-> allowed, age |-> 0]]

ListingArrives(r) ==
    LET n == flight[r].name
    IN  /\ flight[r].phase = "listed"
        /\ allowances' = Fill(n, flight[r].allowed)
        /\ lister' = IF lister = r THEN Nobody ELSE lister
        /\ flight' = [q \in Flights |->
               IF q # r /\ flight[q].phase = "listed" /\ flight[q].name = n
               THEN [flight[q] EXCEPT !.behind = TRUE]
               ELSE IF q = r THEN Decided(flight[r], flight[r].allowed) ELSE flight[q]]
        /\ UNCHANGED <<setup, granted, goesBy, lapse, names, slot, preferred, events>>

OnListingError(q) == NoRequest
ListingFails(r) ==
    /\ flight[r].phase \in {"listing", "listed"}
    /\ flight' = Set(r, OnListingError(flight[r]))
    /\ lister' = IF lister = r THEN Nobody ELSE lister
    /\ UNCHANGED <<setup, granted, goesBy, lapse, names, allowances, slot, preferred, events>>

(***************************************************************************)
(* What an authorised request does                                         *)
(***************************************************************************)
\* For the properties: a queued operation of the same session will run on the budget
\* b that request r makes the session's; the entitlement of r carries it.
Carrying(r, b) ==
    [q \in Flights |->
        IF q # r /\ flight[q].phase = "queued" /\ flight[q].session = flight[r].session
        THEN [flight[q] EXCEPT !.recent = @ \cup (flight[r].recent \cap {b})]
        ELSE flight[q]]
Memoises(r) == IF slot[flight[r].session] = NoBudget THEN Restored(r) ELSE NoBudget

\* _enforceBudgetAcl at the entry of an operation, before it waits for the lock.
EnforceBudgetAcl(r) ==
    /\ flight[r].phase = "authorised"
    /\ slot' = Memoised(r)
    /\ flight' = [Carrying(r, Memoises(r)) EXCEPT ![r] =
                     IF ActiveBudget(r) \in @.allowed THEN [@ EXCEPT !.phase = "queued"]
                     ELSE NoRequest]
    /\ UNCHANGED <<setup, granted, goesBy, lapse, names, allowances, lister, preferred, events>>

\* Under the lock the session's budget is selected again, and the operation runs on it.
Operate(r) ==
    /\ flight[r].phase = "queued"
    /\ slot' = Memoised(r)
    /\ flight' = [Carrying(r, Memoises(r)) EXCEPT ![r].phase = "ran", ![r].ran = ActiveBudget(r)]
    /\ UNCHANGED <<setup, granted, goesBy, lapse, names, allowances, lister, preferred, events>>

\* setPreferredBudgetSyncId never throws: the write may fail silently.
Persisted(s, b) == {preferred, [preferred EXCEPT ![s] = b]}

\* An operation that is already queued in the same session will run on the new budget.
MaySwitchTo(r, b) == b \in flight[r].allowed
SwitchBudget(r, b) ==
    /\ flight[r].phase = "authorised" /\ MaySwitchTo(r, b)
    /\ slot' = [slot EXCEPT ![flight[r].session] = b]
    /\ preferred' \in Persisted(flight[r].subject, b)
    /\ flight' = [Carrying(r, b) EXCEPT ![r] = NoRequest]
    /\ UNCHANGED <<setup, granted, goesBy, lapse, names, allowances, lister, events>>

\* session_close on another session clears that session's slot; the requests
\* of it that are in flight go on.
CloseSession(r, s) ==
    /\ flight[r].phase = "authorised" /\ s # flight[r].session
    /\ slot' = [slot EXCEPT ![s] = NoBudget]
    /\ flight' = [q \in Flights |->
           IF q = r THEN NoRequest
           ELSE IF flight[q].phase = "queued" /\ flight[q].session = s
           THEN [flight[q] EXCEPT !.cleared = TRUE] ELSE flight[q]]
    /\ UNCHANGED <<setup, granted, goesBy, lapse, names, allowances, lister, preferred, events>>

Respond(r) ==
    /\ flight[r].phase = "ran"
    /\ flight' = Set(r, NoRequest)
    /\ UNCHANGED <<setup, granted, goesBy, lapse, names, allowances, lister, slot, preferred,
                   events>>

(***************************************************************************)
(* The world: time, the Actual server, the identity provider, a restart    *)
(***************************************************************************)
Bounded(r) ==
    CASE flight[r].phase \in {"asking", "replied"} -> flight[r].age < MaxFetch
      [] flight[r].phase \in {"listing", "listed"} -> flight[r].age < MaxRead
      [] OTHER -> TRUE

Timed == {"asking", "replied", "listing", "listed"}

Tick ==
    /\ \A r \in Flights : Bounded(r)
    /\ lapse' = [f \in Facts |-> IF HoldsNow(f) THEN 0 ELSE Older(lapse[f])]
    /\ names' = [s \in Subjects |->
           IF names[s].age + 1 < CacheTtl THEN [names[s] EXCEPT !.age = @ + 1] ELSE Absent]
    /\ allowances' = [n \in Names |->
           IF allowances[n].age + 1 < CacheTtl
           THEN [allowances[n] EXCEPT !.age = @ + 1] ELSE Unknown]
    /\ flight' = [r \in Flights |->
           IF flight[r].phase \in Timed THEN [flight[r] EXCEPT !.age = @ + 1]
           ELSE flight[r]]
    /\ UNCHANGED <<setup, granted, goesBy, lister, slot, preferred, events>>

ChangeAccess(n, b) ==
    /\ Spend
    /\ granted' = IF <<n, b>> \in granted THEN granted \ {<<n, b>>} ELSE granted \cup {<<n, b>>}
    /\ lapse' = [lapse EXCEPT ![<<n, b>>] = 0]
    /\ UNCHANGED <<setup, goesBy, names, allowances, lister, flight, slot, preferred>>

Rename(s, n) ==
    /\ setup.identity = "userinfo" /\ goesBy[s] # n /\ Spend
    /\ goesBy' = [goesBy EXCEPT ![s] = n]
    /\ lapse' = [f \in Facts |-> IF f = <<s, n>> \/ f = <<s, goesBy[s]>> THEN 0 ELSE lapse[f]]
    /\ UNCHANGED <<setup, granted, names, allowances, lister, flight, slot, preferred>>

\* Everything but the preference file is in memory.
Restart ==
    /\ Spend
    /\ names' = [s \in Subjects |-> Absent]
    /\ allowances' = [n \in Names |-> Unknown]
    /\ lister' = Nobody
    /\ flight' = [r \in Flights |-> NoRequest]
    /\ slot' = [s \in AclSessions |-> NoBudget]
    /\ UNCHANGED <<setup, granted, goesBy, lapse, preferred>>

-----------------------------------------------------------------------------
Setups ==
    [source : {"actual", "static"}, identity : {"userinfo", "token"},
     bound : [Subjects -> Names \cup {NoName}], claim : [Subjects -> Names \cup {NoName}],
     static : [Subjects -> SUBSET Budgets]]

Requests ==
    [phase : {"arrived", "asking", "replied", "waiting", "listing", "listed", "authorised",
              "queued", "ran"},
     session : AclSessions, subject : Subjects, name : Names \cup {NoName},
     known : SUBSET Names, allowed : SUBSET Budgets, recent : SUBSET Budgets,
     age : 0..(MaxFetch + MaxRead), behind : BOOLEAN, cleared : BOOLEAN,
     ran : Budgets \cup {NoBudget}]

AclInit ==
    /\ setup \in Setups
    /\ granted \in SUBSET (Names \X Budgets)
    /\ goesBy \in [Subjects -> Names]
    /\ lapse = [f \in Facts |-> IF HoldsNow(f) THEN 0 ELSE Horizon]
    /\ names = [s \in Subjects |-> Absent]
    /\ allowances = [n \in Names |-> Unknown]
    /\ lister = Nobody
    /\ flight = [r \in Flights |-> NoRequest]
    /\ slot = [s \in AclSessions |-> NoBudget]
    /\ preferred = [s \in Subjects |-> NoBudget]
    /\ events = 0

Middleware(r) ==
    \/ \E s \in AclSessions : Arrive(r, s)
    \/ UserInfoReplies(r) \/ UserInfoArrives(r) \/ UserInfoFails(r)
    \/ StartListing(r) \/ ServerLists(r) \/ ListingArrives(r) \/ ListingFails(r)

Acts(r) ==
    \/ EnforceBudgetAcl(r) \/ Operate(r) \/ Respond(r)
    \/ \E b \in Budgets : SwitchBudget(r, b)
    \/ \E s \in AclSessions : CloseSession(r, s)

World ==
    \/ Tick \/ Restart
    \/ \E n \in Names, b \in Budgets : ChangeAccess(n, b)
    \/ \E s \in Subjects, n \in Names \cup {NoName} : Rename(s, n)

AclNext == World \/ \E r \in Flights : Middleware(r) \/ Acts(r)

AclSpec == AclInit /\ [][AclNext]_aclVars

-----------------------------------------------------------------------------
(* Type correctness, with the shape of a request in flight and of a cached *)
(* answer.                                                                 *)
AclTypeOK ==
    /\ setup \in Setups
    /\ granted \subseteq Names \X Budgets
    /\ goesBy \in [Subjects -> Names \cup {NoName}]
    /\ lapse \in [Facts -> 0..Horizon]
    /\ names \in [Subjects -> [name : Names \cup {NoName}, age : 0..CacheTtl]]
    /\ allowances \in [Names -> [allowed : SUBSET Budgets, age : 0..CacheTtl]]
    /\ lister \in Flights \cup {Nobody}
    /\ slot \in [AclSessions -> Budgets \cup {NoBudget}]
    /\ preferred \in [Subjects -> Budgets \cup {NoBudget}]
    /\ flight \in [Flights -> Requests \cup {NoRequest}]
    /\ events \in 0..MaxEvents

(* An operation only ever runs on a budget the Actual server gave to the   *)
(* caller, under a name that was the caller's, within one cache lifetime   *)
(* and one upstream answer of the moment the request was authorised, or the*)
(* request of the same session that switched to that budget meanwhile: no  *)
(* sequence of cached answers, switches, restored preferences and restarts *)
(* widens access.  The one request this is not said of had its session     *)
(* closed by another session while it waited for the lock: the close clears*)
(* the budget it was checked against.                                      *)
AccessWasGranted ==
    \A r \in Flights :
        flight[r].phase = "ran" /\ ~flight[r].cleared => flight[r].ran \in flight[r].recent

(* An answer that was read before another answer for the same name was     *)
(* cached never replaces it: a revocation that took effect stays in effect.*)
(* The listing holds the api lock until its answer is in, although nothing *)
(* in the resolver itself orders two resolutions.                          *)
AnswersAdvance ==
    \A r \in Flights : flight[r].phase = "listed" => ~flight[r].behind
=============================================================================
