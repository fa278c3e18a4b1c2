------------------------------- MODULE MCAuth -------------------------------
(* Two keys of an administrator, of which one replaces the other, and one    *)
(* that has a limit.                                                         *)
EXTENDS Auth, TLC

CONSTANTS a1, a2, b

KeysOf == {a1, a2, b}
LimitOf == [k \in KeysOf |-> IF k = b THEN 2 ELSE 0]
ScopesOf == [k \in KeysOf |-> IF k = b THEN {"exec"} ELSE {"exec", "admin"}]
ExpiresAtOf == [k \in KeysOf |-> IF k = b THEN 2 ELSE 0]

AuthSymmetry == Permutations({a1, a2})
=============================================================================
