----------------------------- MODULE HttpServer -----------------------------
(***************************************************************************)
(* The HTTP server of the controller (pkg/controller/server.go) as its     *)
(* callers see it: /v1/cert.pem, /v1/verify behind a rate limiter, and     *)
(* /v1/rotate.  A request is answered in one step, from the keys of that   *)
(* moment; of a SealedSecret only the key of each item is kept.            *)
(*                                                                         *)
(* The limiter is a leaky bucket of each caller (throttled's GCRA): a      *)
(* request costs Interval ticks, time pays them back, and a request is     *)
(* refused while the caller owes more than a burst.                        *)
(***************************************************************************)
EXTENDS Naturals

CONSTANTS
    Keys,
    Callers,     \* values of the X-Forwarded-For header
    Burst,       \* --rate-limit-burst
    Interval,    \* ticks in a second divided by --rate-limit
    MaxElapsed   \* bound: ticks of an observation

ASSUME LimiterAssumption ==
    Burst \in Nat /\ Interval \in Nat \ {0} /\ MaxElapsed \in Nat

VARIABLES
    held,     \* the keys that the controller holds
    latest,   \* the one it publishes and rotates to
    debt,     \* ticks until a caller owes nothing
    served,   \* history: requests to /v1/verify that were let through
    elapsed   \* history: ticks, both since the observation began

keyVars == <<held, latest>>
limiterVars == <<debt, served, elapsed>>
serverVars == <<keyVars, limiterVars>>

ServerTypeOK ==
    /\ held \subseteq Keys /\ latest \in held
    /\ debt \in [Callers -> Nat]
    /\ served \in [Callers -> Nat]
    /\ elapsed \in Nat

ServerInit ==
    /\ \E k \in Keys : held = {k} /\ latest = k
    /\ debt = [c \in Callers |-> 0]
    /\ served = [c \in Callers |-> 0] /\ elapsed = 0

-----------------------------------------------------------------------------
\* AttemptUnseal
Opens(doc) == \A i \in DOMAIN doc : doc[i] \in held

\* Rotate seals all items again. Mutant: it hands out what it was sent.
RotatedToNothingNew(doc) == doc
Rotated(doc) == [i \in DOMAIN doc |-> latest]

\* The burst comes on top of the sustained rate. Mutant: once more.
IsAdmittedOnceMore(c) == debt[c] <= Interval * (Burst + 1)
IsAdmitted(c) == debt[c] <= Interval * Burst

Admit(c) ==
    /\ IsAdmitted(c)
    /\ debt' = [debt EXCEPT ![c] = @ + Interval]
    /\ served' = [served EXCEPT ![c] = @ + 1]
    /\ UNCHANGED <<keyVars, elapsed>>

Tick ==
    /\ elapsed < MaxElapsed
    /\ debt' = [c \in Callers |-> IF debt[c] = 0 THEN 0 ELSE debt[c] - 1]
    /\ elapsed' = elapsed + 1
    /\ UNCHANGED <<keyVars, served>>

\* Somebody begins to count.
Observe ==
    /\ served' = [c \in Callers |-> 0] /\ elapsed' = 0
    /\ UNCHANGED <<keyVars, debt>>

\* The controller starts anew with some of its keys, of which it chooses the
\* latest again (initKeyRegistry), and with an empty limiter.
RestartWith(kept) ==
    /\ held' = kept
    /\ latest' \in kept
    /\ debt' = [c \in Callers |-> 0]
    /\ served' = [c \in Callers |-> 0] /\ elapsed' = 0

-----------------------------------------------------------------------------
(***************************************************************************)
(* From whatever moment on one counts, a caller has no more of its         *)
(* requests verified than the burst, one, and what the rate earned it      *)
(* since (rateLimiter; "Number of requests allowed to exceed the rate      *)
(* limit").  What the limiter protects is a decryption with every key.     *)
(***************************************************************************)
VerifyIsBounded ==
    \A c \in Callers : Interval * served[c] <= Interval * (Burst + 1) + elapsed
=============================================================================
