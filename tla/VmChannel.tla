----------------------------- MODULE VmChannel ------------------------------
(*****************************************************************************)
(* The requests of one VM and its vsock connection: the lock that admits one *)
(* request at a time, the shared socket and the attempts to connect it, the  *)
(* wait for a response with its timeout, and the guest runtime that answers  *)
(* (transport.ts, protocol.ts, gateway.ts:117-179, runtime.js).              *)
(*                                                                           *)
(* The host is one event loop: an action is what runs between two awaits, or *)
(* one event of a socket or timer, and an event waits until no continuation  *)
(* is left to run (Quiet).  The guest and the passing of time are free.      *)
(*                                                                           *)
(* A connection stands for one call of connectVsock with the sockets it      *)
(* opens one after the other; a closed one may be taken for a later call.    *)
(* Of a message only whose it is, and whether it is the last, is kept.       *)
(* A socket that was destroyed is the same to getVmSocket as none.           *)
(*****************************************************************************)
EXTENDS Integers, Sequences, FiniteSets

CONSTANTS
    Requests,     \* calls of sendSessionMessage for the VM, by message id
    Connections,  \* calls of connectVsock
    None,         \* no request, no connection
    MaxWire       \* bound on the messages under way on a connection

ASSUME ChannelConstants ==
    /\ None \notin Requests \cup Connections
    /\ MaxWire \in Nat

VARIABLES
    pc,         \* where a request is in sendSessionMessage
    holder,     \* the request whose promise is in `vmLocks', or None
    awaits,     \* whose promise a request awaits in acquireVmLock
    socket,     \* vm.socket, or None
    dialing,    \* the connection vm.connectingSocket awaits, or None
    conn,       \* what became of each connection
    young,      \* those begun less than the connect timeout ago
    wire,       \* what the guest wrote and the host has not read
    on,         \* the connection on which the guest has a request
    listening,  \* the socket that has the handlers of readVsockResponse
    heard,      \* whose messages a request took as its chunks or response
    guest,      \* what the guest does about a request
    up          \* the VM runs

hostVars == <<pc, holder, awaits, socket, dialing, conn, young, listening,
              heard>>
vars == <<hostVars, wire, on, guest, up>>

PCs == {"new", "lock", "wait", "woken", "locked", "dial", "send", "read",
        "settled", "returned"}

\* ended: the peer is done, Node is about to destroy the socket;
\* broken: written to after that, its error event is due.
ConnStates == {"closed", "dialing", "retry", "open", "ended", "broken"}

Messages == [id : Requests \cup {None}, last : BOOLEAN]

\* Every variable has its type; nobody hears what is nobody's.
TypeOK ==
    /\ pc \in [Requests -> PCs]
    /\ holder \in Requests \cup {None}
    /\ awaits \in [Requests -> Requests \cup {None}]
    /\ socket \in Connections \cup {None}
    /\ dialing \in Connections \cup {None}
    /\ conn \in [Connections -> ConnStates]
    /\ young \in SUBSET Connections
    /\ wire \in [Connections -> Seq(Messages)]
    /\ on \in [Requests -> Connections \cup {None}]
    /\ listening \in [Requests -> Connections \cup {None}]
    /\ heard \in [Requests -> SUBSET Requests]
    /\ guest \in [Requests -> {"none", "running", "failing", "done"}]
    /\ up \in BOOLEAN

Init ==
    /\ pc = [r \in Requests |-> "new"]
    /\ holder = None
    /\ awaits = [r \in Requests |-> None]
    /\ socket = None
    /\ dialing = None
    /\ conn = [c \in Connections |-> "closed"]
    /\ young = {}
    /\ wire = [c \in Connections |-> <<>>]
    /\ on = [r \in Requests |-> None]
    /\ listening = [r \in Requests |-> None]
    /\ heard = [r \in Requests |-> {}]
    /\ guest = [r \in Requests |-> "none"]
    /\ up = TRUE

-----------------------------------------------------------------------------
(* The event loop and the socket.                                            *)

\* No continuation is waiting to run, and no error event is due.
Quiet ==
    /\ \A r \in Requests : pc[r] \notin 
            {"lock", "woken", "locked", "send", "settled"}
    /\ dialing # None => conn[dialing] # "open"
    /\ \A c \in Connections : conn[c] # "broken"

Listeners(c) == {r \in Requests : listening[r] = c}

\* The promise of a request in the set is settled, if it was not before.
Settled(s) ==
    [r \in Requests |->
        IF r \in s /\ pc[r] \in {"dial", "read"} THEN "settled" ELSE pc[r]]

\* The socket of c is destroyed: nothing comes from it any more.
Destroy(c) ==
    /\ socket' = IF socket = c THEN None ELSE socket
    /\ wire' = [wire EXCEPT ![c] = <<>>]
    /\ on' = [r \in Requests |-> IF on[r] = c THEN None ELSE on[r]]
    /\ listening' =
        [r \in Requests |-> IF listening[r] = c THEN None ELSE listening[r]]

\* The socket of c is destroyed without an error, for good.
DestroyQuietly(c) ==
    /\ Destroy(c)
    /\ conn' = [conn EXCEPT ![c] = "closed"]
    /\ young' = young \ {c}

-----------------------------------------------------------------------------
(* The VM lock.                                                              *)

\* A request has its VM from ensureSession.
Call(r) ==
    /\ pc[r] = "new"
    /\ pc' = [pc EXCEPT ![r] = "lock"]
    /\ UNCHANGED <<holder, awaits, socket, dialing, conn, young, wire, on,
                   listening, heard, guest, up>>

\* Mutation of AcquireVmLock: a request that was woken does not test again.
AcquireVmLockOnce(r) ==
    /\ pc[r] \in {"lock", "woken"}
    /\ \/ /\ holder = None \/ pc[r] = "woken"
          /\ holder' = r
          /\ pc' = [pc EXCEPT ![r] = "locked"]
          /\ UNCHANGED awaits
       \/ /\ holder # None /\ pc[r] = "lock"
          /\ awaits' = [awaits EXCEPT ![r] = holder]
          /\ pc' = [pc EXCEPT ![r] = "wait"]
          /\ UNCHANGED holder
    /\ UNCHANGED <<socket, dialing, conn, young, wire, on, listening, heard,
                   guest, up>>

\* acquireVmLock tests for a lock, again after each wait.
AcquireVmLock(r) ==
    /\ pc[r] \in {"lock", "woken"}
    /\ \/ /\ holder = None
          /\ holder' = r
          /\ pc' = [pc EXCEPT ![r] = "locked"]
          /\ UNCHANGED awaits
       \/ /\ holder # None
          /\ awaits' = [awaits EXCEPT ![r] = holder]
          /\ pc' = [pc EXCEPT ![r] = "wait"]
          /\ UNCHANGED holder
    /\ UNCHANGED <<socket, dialing, conn, young, wire, on, listening, heard,
                   guest, up>>

WokenBy(r) == {q \in Requests : pc[q] = "wait" /\ awaits[q] = r}

\* Mutation of Return: the entry goes but its promise is not resolved.
ReturnUnresolved(r) ==
    /\ pc[r] = "settled"
    /\ holder' = None
    /\ pc' = [pc EXCEPT ![r] = "returned"]
    /\ UNCHANGED <<awaits, socket, dialing, conn, young, wire, on, listening,
                   heard, guest, up>>

\* Mutation of Return: a request that failed keeps the lock.
ReturnHoldingLock(r) ==
    /\ pc[r] = "settled"
    /\ pc' = [q \in Requests |->
                IF q = r THEN "returned"
                ELSE IF q \in WokenBy(r) /\ r \in heard[r] THEN "woken"
                ELSE pc[q]]
    /\ holder' = IF r \in heard[r] THEN None ELSE holder
    /\ awaits' = [q \in Requests |->
                    IF pc'[q] = "woken" THEN None ELSE awaits[q]]
    /\ UNCHANGED <<socket, dialing, conn, young, wire, on, listening, heard,
                   guest, up>>

\* The finally block releases the lock: its entry goes, its waiters wake.
Return(r) ==
    /\ pc[r] = "settled"
    /\ holder' = None
    /\ pc' = [q \in Requests |->
                IF q = r THEN "returned"
                ELSE IF q \in WokenBy(r) THEN "woken" ELSE pc[q]]
    /\ awaits' = [q \in Requests |->
                    IF q \in WokenBy(r) THEN None ELSE awaits[q]]
    /\ UNCHANGED <<socket, dialing, conn, young, wire, on, listening, heard,
                   guest, up>>

-----------------------------------------------------------------------------
(* The connection.                                                           *)

\* getVmSocket: the socket there is, or the attempt under way, or a new one.
\* The holder alone calls it, so that there never is an attempt to share.
GetVmSocket(r) ==
    /\ pc[r] = "locked"
    /\ \/ /\ socket # None
          /\ on' = [on EXCEPT ![r] = socket]
          /\ pc' = [pc EXCEPT ![r] = "send"]
          /\ UNCHANGED <<dialing, conn, young>>
       \/ /\ socket = None
          /\ pc' = [pc EXCEPT ![r] = "dial"]
          /\ \E c \in Connections :
                /\ IF dialing = None THEN conn[c] = "closed" ELSE c = dialing
                /\ dialing' = c
                /\ conn' = [conn EXCEPT ![c] = IF dialing = None
                                               THEN "dialing" ELSE @]
                /\ young' = IF dialing = None THEN young \cup {c} ELSE young
          /\ UNCHANGED on
    /\ UNCHANGED <<holder, awaits, socket, wire, listening, heard, guest, up>>

\* A socket connects, be it awaited or a leftover.
Connect(c) ==
    /\ Quiet
    /\ up
    /\ conn[c] = "dialing"
    /\ conn' = [conn EXCEPT ![c] = "open"]
    /\ UNCHANGED <<pc, holder, awaits, socket, dialing, young, wire, on,
                   listening, heard, guest, up>>

\* connectVsock is resolved: the socket is the VM's, and those who asked get it.
SetVmSocket ==
    /\ dialing # None
    /\ conn[dialing] = "open"
    /\ socket' = dialing
    /\ dialing' = None
    /\ on' = [r \in Requests |-> IF pc[r] = "dial" THEN dialing ELSE on[r]]
    /\ pc' = [r \in Requests |-> IF pc[r] = "dial" THEN "send" ELSE pc[r]]
    /\ UNCHANGED <<holder, awaits, conn, young, wire, listening, heard, guest,
                   up>>

\* A socket has an error.  The handler connectVsock gave it is there for good:
\* before the timeout it connects again, though the first may be in use; after
\* it, it rejects, which matters only to an attempt still awaited.  A reader
\* fails.
SocketError(c) ==
    /\ conn[c] \in {"dialing", "open"} => Quiet
    /\ conn[c] \in {"dialing", "open", "broken"}
    /\ Destroy(c)
    /\ conn' = [conn EXCEPT ![c] = IF c \in young THEN "retry" ELSE "closed"]
    /\ dialing' = IF dialing = c /\ c \notin young THEN None ELSE dialing
    /\ pc' = Settled(Listeners(c) \cup
                     {r \in Requests : /\ pc[r] = "dial"
                                       /\ dialing = c /\ c \notin young})
    /\ UNCHANGED <<holder, awaits, young, heard, guest, up>>

\* The 100 ms before the next try are over.
Retry(c) ==
    /\ Quiet
    /\ conn[c] = "retry"
    /\ conn' = [conn EXCEPT ![c] = "dialing"]
    /\ UNCHANGED <<pc, holder, awaits, socket, dialing, young, wire, on,
                   listening, heard, guest, up>>

\* The connect timeout of c passes.
GrowOld(c) ==
    /\ c \in young
    /\ young' = young \ {c}
    /\ UNCHANGED <<pc, holder, awaits, socket, dialing, conn, wire, on,
                   listening, heard, guest, up>>

\* The other side ends the connection: a reader fails, and the socket is ended
\* but for a moment not yet destroyed.
PeerEnds(c) ==
    /\ Quiet
    /\ conn[c] = "open"
    /\ wire[c] = <<>>
    /\ conn' = [conn EXCEPT ![c] = "ended"]
    /\ pc' = Settled(Listeners(c))
    /\ listening' = [r \in Requests |->
                        IF listening[r] = c THEN None ELSE listening[r]]
    /\ UNCHANGED <<holder, awaits, socket, dialing, young, wire, on, heard,
                   guest, up>>

\* Node destroys a socket that was ended.
AutoDestroy(c) ==
    /\ Quiet
    /\ conn[c] = "ended"
    /\ DestroyQuietly(c)
    /\ UNCHANGED <<pc, holder, awaits, dialing, heard, guest, up>>

\* The VM's process goes, and its sockets with it.
VmDies ==
    /\ up
    /\ up' = FALSE
    /\ UNCHANGED <<hostVars, wire, on, guest>>

-----------------------------------------------------------------------------
(* A request and its response.                                               *)

\* The request is written and readVsockResponse listens.  Writing to a socket
\* that the peer ended destroys it, with an error to come.
Send(r) ==
    /\ pc[r] = "send"
    /\ pc' = [pc EXCEPT ![r] = "read"]
    /\ listening' = [listening EXCEPT ![r] = on[r]]
    /\ \/ /\ conn[on[r]] = "open"
          /\ guest' = [guest EXCEPT ![r] = IF up THEN "running" ELSE @]
          /\ UNCHANGED <<socket, conn>>
       \/ /\ conn[on[r]] = "ended"
          /\ conn' = [conn EXCEPT ![on[r]] = "broken"]
          /\ socket' = IF socket = on[r] THEN None ELSE socket
          /\ UNCHANGED guest
    /\ UNCHANGED <<holder, awaits, dialing, young, wire, on, heard, up>>

\* Mutation of Takes: the id is not looked at.
TakesAny(r, m) == TRUE

\* readVsockResponse takes a chunk or response only with the request's own id.
Takes(r, m) == m.id = r

\* How much of a chunk of messages the reader looks at: all, or up to its
\* response.
Looked(r, chunk) ==
    {i \in DOMAIN chunk :
        \A j \in 1 .. i - 1 : ~(chunk[j].last /\ Takes(r, chunk[j]))}

Taken(r, chunk) == {i \in Looked(r, chunk) : Takes(r, chunk[i])}

\* One chunk of data with the next n messages arrives.
Data(c, n) ==
    LET chunk     == SubSeq(wire[c], 1, n)
        Answered  == {r \in Listeners(c) :
                        \E i \in Taken(r, chunk) : chunk[i].last}
    IN  /\ Quiet
        /\ conn[c] = "open"
        /\ n \in 1 .. Len(wire[c])
        /\ wire' = [wire EXCEPT ![c] = SubSeq(@, n + 1, Len(@))]
        /\ heard' = [r \in Requests |->
                        IF r \in Listeners(c)
                        THEN heard[r] \cup {chunk[i].id : i \in Taken(r, chunk)}
                        ELSE heard[r]]
        /\ pc' = Settled(Answered)
        /\ listening' = [r \in Requests |->
                            IF r \in Answered THEN None ELSE listening[r]]
        /\ UNCHANGED <<holder, awaits, socket, dialing, conn, young, on, guest,
                       up>>

\* More than 10 MB arrive without an end.
TooLarge(r) ==
    /\ Quiet
    /\ pc[r] = "read"
    /\ conn[on[r]] = "open"
    /\ guest[r] = "running"
    /\ pc' = Settled({r})
    /\ DestroyQuietly(on[r])
    /\ UNCHANGED <<holder, awaits, dialing, heard, guest, up>>

\* Mutation of Timeout: the socket is kept for the next request.
TimeoutKeepsSocket(r) ==
    /\ Quiet
    /\ pc[r] = "read"
    /\ pc' = Settled({r})
    /\ UNCHANGED <<holder, awaits, socket, dialing, conn, young, wire, on,
                   listening, heard, guest, up>>

\* The timer of readVsockResponse fires: it destroys the socket, but leaves its
\* handlers on it.
Timeout(r) ==
    /\ Quiet
    /\ pc[r] = "read"
    /\ pc' = Settled({r})
    /\ DestroyQuietly(on[r])
    /\ UNCHANGED <<holder, awaits, dialing, heard, guest, up>>

-----------------------------------------------------------------------------
(* The guest runtime.  It works on requests as they come, and writes to the  *)
(* connection a request came on, if that is still there.                     *)

Writes(r, m) ==
    /\ IF on[r] # None /\ conn[on[r]] = "open"
       THEN /\ Len(wire[on[r]]) < MaxWire
            /\ wire' = [wire EXCEPT ![on[r]] = Append(@, m)]
       ELSE UNCHANGED wire
    /\ UNCHANGED <<hostVars, on, up>>

\* A process writes to its standard output or error.
StreamChunk(r) ==
    /\ up
    /\ guest[r] = "running"
    /\ Writes(r, [id |-> r, last |-> FALSE])
    /\ UNCHANGED guest

\* The answer, or the error of a request that failed.  When a process could
\* not be spawned its close event still follows.
Answer(r) ==
    /\ up
    /\ guest[r] = "running"
    /\ Writes(r, [id |-> r, last |-> TRUE])
    /\ \E s \in {"done", "failing"} : guest' = [guest EXCEPT ![r] = s]

\* The close event answers once more.
AnswerAgain(r) ==
    /\ up
    /\ guest[r] = "failing"
    /\ Writes(r, [id |-> r, last |-> TRUE])
    /\ guest' = [guest EXCEPT ![r] = "done"]

\* A handler throws: the error that is sent has no id.
HandlerThrows(r) ==
    /\ up
    /\ guest[r] = "running"
    /\ Writes(r, [id |-> None, last |-> TRUE])
    /\ guest' = [guest EXCEPT ![r] = "done"]

-----------------------------------------------------------------------------
Continuation(r) == AcquireVmLock(r) \/ GetVmSocket(r) \/ Send(r) \/ Return(r)

RequestNext(r) ==
    \/ Call(r) \/ Continuation(r) \/ TooLarge(r) \/ Timeout(r)
    \/ StreamChunk(r) \/ Answer(r) \/ AnswerAgain(r) \/ HandlerThrows(r)

ConnectionNext(c) ==
    \/ Connect(c) \/ SocketError(c) \/ Retry(c) \/ GrowOld(c)
    \/ PeerEnds(c) \/ AutoDestroy(c)
    \/ \E n \in 1 .. MaxWire : Data(c, n)

Next ==
    \/ \E r \in Requests : RequestNext(r)
    \/ \E c \in Connections : ConnectionNext(c)
    \/ SetVmSocket
    \/ VmDies

Spec == Init /\ [][Next]_vars

\* The end of what connectVsock began, one way or the other.
DialEnds(c) == conn[c] = "dialing" /\ (Connect(c) \/ SocketError(c))

\* Continuations run, timers fire, and connect and error events come.  Nothing
\* is assumed of the guest.
Fairness ==
    /\ \A r \in Requests : WF_vars(Continuation(r)) /\ WF_vars(Timeout(r))
    /\ \A c \in Connections :
        /\ WF_vars(DialEnds(c))
        /\ WF_vars(conn[c] = "broken" /\ SocketError(c))
        /\ WF_vars(Retry(c))
        /\ WF_vars(GrowOld(c))
    /\ WF_vars(SetVmSocket)

FairSpec == Spec /\ Fairness

-----------------------------------------------------------------------------
(* Properties.                                                               *)

Inside == {"locked", "dial", "send", "read", "settled"}

\* Between acquireVmLock and releaseLock there is one request at a time, the
\* one whose promise is the lock: the lock is tested again after each wait.
OneAtATime == \A r \in Requests : pc[r] \in Inside => holder = r

\* A request waits only for the promise that is the lock, which its holder will
\* resolve: an entry never goes from vmLocks with waiters left behind.
NobodyForgotten ==
    \A r \in Requests : pc[r] = "wait" => holder # None /\ awaits[r] = holder

\* Chunks and the response a request takes are its own, although what was
\* written for an earlier one (the close event after a failed spawn) may come
\* while it reads.
OwnMessages == \A r \in Requests : heard[r] \subseteq {r}

\* While a request reads from an open connection the guest works for no other
\* request on it: whatever left one unanswered also ended its connection.
AloneOnConnection ==
    \A r, q \in Requests :
        /\ pc[r] = "read" /\ conn[on[r]] = "open"
        /\ q # r /\ on[q] = on[r]
        => guest[q] # "running"

\* Once its promise is settled, nothing is passed to a request's onStream,
\* which would write to an HTTP response that has ended.
SilentAfterwards ==
    [][\A r \in Requests :
        pc[r] \in {"settled", "returned"} => heard'[r] = heard[r]]_vars

\* Every request is answered or fails, whatever the guest, the VM and the
\* requests before it do.
EveryRequestReturns ==
    \A r \in Requests : pc[r] = "lock" ~> pc[r] = "returned"

\* transport.ts:71: requests are serialized "on a single vsock connection".
SingleConnection ==
    \A c, d \in Connections : conn[c] = "open" /\ conn[d] = "open" => c = d
=============================================================================
