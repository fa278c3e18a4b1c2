-------------------------------- MODULE Auth --------------------------------
(*****************************************************************************)
(* Requests and keys: the middleware (auth/middleware.ts) asks the key store *)
(* and then the rate limiter, the routes of /admin (routes/admin.ts) and the *)
(* command line (auth/cli.ts) change the key store, and the server is        *)
(* started, stopped and killed.                                              *)
(*                                                                           *)
(* Simplifications.  AUTH_ENABLED is not `false': with it no request reads a *)
(* key.  A request is its key and its route; one without a key is refused    *)
(* before anything is read.  Shutdown may come to flushKeys at any moment:   *)
(* what it waits for first is Recovery's.                                    *)
(*****************************************************************************)
EXTENDS KeyStore, RateLimiter

vars == <<storeVars, limiterVars>>

TypeOK == StoreTypeOK /\ LimiterTypeOK

Init == StoreInit /\ LimiterInit

-----------------------------------------------------------------------------
(* Requests.                                                                 *)

Expired(k) == ExpiresAt[k] # 0 /\ now > ExpiresAt[k]

\* verifyKey, of a key store with this copy, and the scope of the route.
Verified(copy, k, scope) == copy[k] = "on" /\ ~Expired(k) /\ scope \in Scopes[k]

\* 401 or 403: the key has been looked for.
Refused(copy, k, scope) ==
    /\ ~Verified(copy, k, scope)
    /\ Look(copy)
    /\ UNCHANGED <<uses, limiterVars>>

\* 429
RateLimited(copy, k, scope) ==
    /\ Verified(copy, k, scope) /\ ~Within(k)
    /\ Look(copy)
    /\ Count(k)
    /\ UNCHANGED <<uses, now>>

\* The request goes on to its route.
Admitted(copy, k, scope) ==
    /\ Verified(copy, k, scope) /\ Within(k)
    /\ Count(k)
    /\ Touch
    /\ UNCHANGED now

\* A route that leaves the key store alone: /exec, /mcp, /metrics, and those
\* of /admin that list the keys or find none.
Passes(copy, k, scope) == Admitted(copy, k, scope) /\ Look(copy)

\* POST /admin/keys
AdminCreates(copy, k, n) ==
    Admitted(copy, k, "admin") /\ Create("server", copy, n)

\* POST /admin/keys/:id/revoke
AdminRevokes(copy, k, n) ==
    Admitted(copy, k, "admin") /\ Revoke("server", copy, n)

\* DELETE /admin/keys/:id
AdminDeletes(copy, k, n) ==
    Admitted(copy, k, "admin") /\ Delete("server", copy, n)

\* POST /admin/keys/:id/rotate
AdminRotates(copy, k, o, n) ==
    Admitted(copy, k, "admin") /\ Rotate("server", copy, o, n)

\* A request reads the keys once, if it is the first.
Request(k) ==
    \E copy \in Copies("server") :
        \/ \E scope \in {"exec", "admin", "metrics"} :
               \/ Refused(copy, k, scope) \/ RateLimited(copy, k, scope)
               \/ Passes(copy, k, scope)
        \/ \E n \in Keys :
               \/ AdminCreates(copy, k, n) \/ AdminRevokes(copy, k, n)
               \/ AdminDeletes(copy, k, n)
        \/ \E o, n \in Keys : AdminRotates(copy, k, o, n)

-----------------------------------------------------------------------------
(* The command line, and the server as a process.                            *)

CliOnly == UNCHANGED <<uses, limiterVars>>

CliCreates(copy, k)    == Create("cli", copy, k) /\ CliOnly
CliRevokes(copy, k)    == Revoke("cli", copy, k) /\ CliOnly
CliDeletes(copy, k)    == Delete("cli", copy, k) /\ CliOnly
CliRotates(copy, k, n) == Rotate("cli", copy, k, n) /\ CliOnly

Cli ==
    \E copy \in Copies("cli") :
        \/ \E k \in Keys :
               CliCreates(copy, k) \/ CliRevokes(copy, k) \/ CliDeletes(copy, k)
        \/ \E k, n \in Keys : CliRotates(copy, k, n)

\* The windows are the server's: a new one has none.
Starts == StartServer /\ NoWindows /\ UNCHANGED now

Saves == (\E p \in Procs : SaveStep(p)) \/ DelayedSave \/ FlushKeys

Next ==
    \/ \E k \in Keys : Request(k)
    \/ Cli
    \/ Starts
    \/ Saves /\ UNCHANGED limiterVars
    \/ up /\ Sweep /\ UNCHANGED storeVars
    \/ Tick /\ UNCHANGED storeVars

Spec == Init /\ [][Next]_vars
=============================================================================
