----------------------------- MODULE HostRules ------------------------------
(*****************************************************************************)
(* The rules ensureHostNetworkSetup puts into the FORWARD chain of the host  *)
(* (vm/networking.ts).  It reads the chain once, and starts a command for    *)
(* each rule whose text it has not found.  The commands are not awaited:     *)
(* they run side by side, each inserts its rule as the first, or fails.      *)
(*                                                                           *)
(* Simplification.  The server is not started again before the commands of   *)
(* its last start have ended.                                                *)
(*****************************************************************************)
EXTENDS Naturals, Sequences

CONSTANT MaxStarts \* bound: the starts of the server

Drops == {"isolate", "metadata"}
Rules == {"outbound", "return"} \cup Drops

VARIABLES
    chain,   \* the rules, the first that matches a packet decides
    pending, \* the rules whose `iptables -I' has not ended
    starts   \* the starts there were

vars == <<chain, pending, starts>>

Init == chain = <<>> /\ pending = {} /\ starts = 0

-----------------------------------------------------------------------------

\* The rules whose text includes the text that is looked for: that of the
\* return rule, `-d 10.0.0.0/16', is a part of the isolating one.
TakenFor(r) == IF r = "return" THEN {"return", "isolate"} ELSE {r}

InChain(r) == \E i \in DOMAIN chain : chain[i] \in TakenFor(r)

\* ensureHostNetworkSetup
Setup ==
    /\ starts < MaxStarts /\ pending = {}
    /\ starts' = starts + 1
    /\ pending' = {r \in Rules : ~InChain(r)}
    /\ UNCHANGED chain

\* One of the commands is done.
Inserts(r) ==
    /\ r \in pending
    /\ chain' = <<r>> \o chain
    /\ pending' = pending \ {r}
    /\ UNCHANGED starts

\* Another command holds the lock of the tables, say: no one hears of it.
Fails(r) == r \in pending /\ pending' = pending \ {r} /\ UNCHANGED <<chain, starts>>

Next == Setup \/ \E r \in Rules : Inserts(r) \/ Fails(r)

Spec == Init /\ [][Next]_vars

-----------------------------------------------------------------------------

\* What is to be dropped is dropped before the rule for all that leaves a VM
\* accepts it (README.md:111-113).
DropsComeFirst ==
    \A i, j \in DOMAIN chain :
        pending = {} /\ chain[i] \in Drops /\ chain[j] = "outbound" => i < j
=============================================================================
