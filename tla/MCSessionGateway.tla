-------------------------- MODULE MCSessionGateway --------------------------
(* SessionGateway on small sets of requests.                                 *)
EXTENDS SessionGateway, TLC

\* Requests are interchangeable; no liveness property is checked with this.
CallSymmetry == Permutations(Calls)

\* So are two owners.
OwnerSymmetry == Permutations(Calls) \cup Permutations(Callers)
=============================================================================
