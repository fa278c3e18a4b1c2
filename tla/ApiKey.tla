------------------------------- MODULE ApiKey -------------------------------
(* The records of API keys, without what changes: an id is drawn at random   *)
(* for every key, so what a key is given at its creation is a constant of    *)
(* its id (key-store.ts, ApiKeyRecord).                                      *)
EXTENDS Integers

CONSTANTS
    Keys,     \* `id's
    Scopes,   \* the `scopes' of each
    Limit,    \* the `rateLimit' of each, 0 for none
    ExpiresAt \* the `expiresAt' of each, 0 for none

ASSUME ApiKeyConstants ==
    /\ Scopes \in [Keys -> SUBSET {"exec", "admin", "metrics"}]
    /\ Limit \in [Keys -> Nat]
    /\ ExpiresAt \in [Keys -> Nat]

\* What a new key takes over from the one it replaces (rotateKey).
SameRights(k, n) ==
    Scopes[k] = Scopes[n] /\ Limit[k] = Limit[n] /\ ExpiresAt[k] = ExpiresAt[n]
=============================================================================
