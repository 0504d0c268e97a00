------------------------------ MODULE ApiMutex ------------------------------
(***************************************************************************)
(* What the process-global api mutex promises its callers, whatever order  *)
(* it serves them in: one holder at a time, ownership handed directly to a *)
(* waiter while there is one, and no waiter left behind for ever.          *)
(* ApiLock (src/lib/apiLock.ts) is shown to implement it; Adapter uses     *)
(* it as its lock.                                                         *)
(***************************************************************************)
CONSTANT Callers

VARIABLES holders,   \* the callers inside the lock
          waiting    \* the callers that asked for it and have not got it

mutexVars == <<holders, waiting>>

MutexInit == holders = {} /\ waiting = {}

Outside(c) == c \notin holders \cup waiting

Take(c) ==
    /\ Outside(c)
    /\ holders = {}
    /\ holders' = {c}
    /\ UNCHANGED waiting

Wait(c) ==
    /\ Outside(c)
    /\ holders # {}
    /\ waiting' = waiting \cup {c}
    /\ UNCHANGED holders

Release(c) ==
    /\ holders = {c}
    /\ waiting = {}
    /\ holders' = {}
    /\ UNCHANGED waiting

\* Ownership transfers: nobody can slip in between the release and the grant.
HandOver(c, w) ==
    /\ holders = {c}
    /\ w \in waiting
    /\ holders' = {w}
    /\ waiting' = waiting \ {w}

MutexNext ==
    \E c \in Callers :
        \/ Take(c) \/ Wait(c) \/ Release(c)
        \/ \E w \in Callers : HandOver(c, w)

MutexSafety == MutexInit /\ [][MutexNext]_mutexVars

Served(w) == \E c \in Callers : HandOver(c, w)

MutexSpec == MutexSafety /\ \A w \in Callers : SF_mutexVars(Served(w))
=============================================================================
