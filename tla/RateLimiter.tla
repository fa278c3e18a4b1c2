---------------------------- MODULE RateLimiter ----------------------------
(*****************************************************************************)
(* The rate limiter (auth/rate-limiter.ts): a fixed window for each key,     *)
(* opened by the first request after the last window is over.  Auth says     *)
(* which requests are counted.                                               *)
(*****************************************************************************)
EXTENDS ApiKey, Sequences

CONSTANTS
    Window, \* WINDOW_MS
    MaxTime \* bound: the time that is looked at

ASSUME LimiterConstants == Window \in Nat \ {0} /\ MaxTime \in Nat

VARIABLES
    now,     \* Date.now()
    count,   \* `count' of the entry of each key, Limit + 1 for all above it
    resetAt, \* `resetAt' of the entry, 0 if there is none
    admitted \* history: for each key with a limit, when the requests that were
             \* admitted came, and when the windows they fell in were opened

windows     == <<count, resetAt, admitted>>
limiterVars == <<now, windows>>

LimiterTypeOK ==
    /\ now \in Nat
    /\ count \in [Keys -> Nat]
    /\ resetAt \in [Keys -> Nat]
    /\ admitted \in [Keys -> Seq([at : Nat, opened : Nat])]

NoWindows ==
    /\ count' = [k \in Keys |-> 0]
    /\ resetAt' = [k \in Keys |-> 0]
    /\ admitted' = [k \in Keys |-> <<>>]

LimiterInit ==
    /\ now = 0
    /\ count = [k \in Keys |-> 0]
    /\ resetAt = [k \in Keys |-> 0]
    /\ admitted = [k \in Keys |-> <<>>]

-----------------------------------------------------------------------------

\* `!entry || now >= entry.resetAt'
Over(k) == now >= resetAt[k]

\* `count' of the entry with this request.
CountWith(k) ==
    IF Over(k) THEN 1
    ELSE IF count[k] > Limit[k] THEN count[k] ELSE count[k] + 1

\* Mutation of ResetWith: the window is one of the last request.
ResetSliding(k) == now + Window

\* `resetAt' of the entry with this request.
ResetWith(k) == IF Over(k) THEN now + Window ELSE resetAt[k]

\* checkRateLimit's answer.
Within(k) == Limit[k] = 0 \/ CountWith(k) <= Limit[k]

\* checkRateLimit's effect: a request that is refused is counted too.
Count(k) ==
    IF Limit[k] = 0 THEN UNCHANGED windows
    ELSE /\ count' = [count EXCEPT ![k] = CountWith(k)]
         /\ resetAt' = [resetAt EXCEPT ![k] = ResetWith(k)]
         /\ admitted' =
                IF Within(k)
                THEN [admitted EXCEPT ![k] =
                         Append(@, [at |-> now, opened |-> ResetWith(k) - Window])]
                ELSE admitted

\* Mutation of Swept: the entries are all deleted.
SweptAll == Keys

\* Whose entries the interval deletes.
Swept == {k \in Keys : Over(k)}

\* The interval.
Sweep ==
    /\ count' = [k \in Keys |-> IF k \in Swept THEN 0 ELSE count[k]]
    /\ resetAt' = [k \in Keys |-> IF k \in Swept THEN 0 ELSE resetAt[k]]
    /\ UNCHANGED <<now, admitted>>

Tick == now < MaxTime /\ now' = now + 1 /\ UNCHANGED windows

-----------------------------------------------------------------------------

\* One request less than twice the limit is all that is admitted within the
\* length of a window, wherever it begins: a fixed window does not promise
\* more (rate-limiter.ts:10-16).
BurstBound ==
    \A k \in Keys : \A i, j \in DOMAIN admitted[k] :
        j = i + 2 * Limit[k] - 1 /\ i < j =>
            admitted[k][j].at - admitted[k][i].at >= Window

\* Who waits for the time the answer 429 names is admitted, whatever was refused
\* in the meantime (middleware.ts:52-60).
RetryAfterSuffices ==
    \A k \in Keys :
        /\ Limit[k] > 0
        /\ \A i \in DOMAIN admitted[k] : now - admitted[k][i].at >= Window
        => Within(k)
=============================================================================
