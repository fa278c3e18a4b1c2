-------------------------- MODULE VmChannelProofs ---------------------------
(*****************************************************************************)
(* Theorems about VmChannel, for every set of requests and connections.      *)
(*                                                                           *)
(* The lock is exact by itself (LockInv).  What a request may hear, and what *)
(* the guest may still be doing on its connection, follow from the lock and  *)
(* from who listens to which socket in what state (ChannelInv).              *)
(*****************************************************************************)
EXTENDS VmChannel, SequenceTheorems, TLAPS

\* The first lines of a chunk, and what is left of the wire, are messages.
LEMMA ChunkType ==
    ASSUME NEW s \in Seq(Messages), NEW n \in 1 .. Len(s)
    PROVE  /\ SubSeq(s, 1, n) \in Seq(Messages)
           /\ Len(SubSeq(s, 1, n)) = n
           /\ \A i \in 1 .. n : SubSeq(s, 1, n)[i] = s[i]
           /\ SubSeq(s, n + 1, Len(s)) \in Seq(Messages)
           /\ Len(SubSeq(s, n + 1, Len(s))) = Len(s) - n
           /\ \A i \in 1 .. Len(s) - n :
                  SubSeq(s, n + 1, Len(s))[i] = s[n + i]
OBVIOUS

\* Settling changes where a request is, no more.
LEMMA SettledType ==
    ASSUME pc \in [Requests -> PCs], NEW s
    PROVE  Settled(s) \in [Requests -> PCs]
BY DEF Settled, PCs

LEMMA TypeStep == TypeOK /\ [Next]_vars => TypeOK'
<1> SUFFICES ASSUME TypeOK, [Next]_vars PROVE TypeOK'
    OBVIOUS
<1> USE DEF TypeOK
<1>1. ASSUME NEW r \in Requests, Call(r) PROVE TypeOK'
    BY <1>1 DEF Call, PCs
<1>2. ASSUME NEW r \in Requests, AcquireVmLock(r) PROVE TypeOK'
    <2>1. CASE holder = None
        BY <1>2, <2>1 DEF AcquireVmLock, PCs
    <2>2. CASE holder # None
        <3>1. holder \in Requests /\ holder' = holder
            BY <1>2, <2>2 DEF AcquireVmLock
        <3>2. awaits' \in [Requests -> Requests \cup {None}]
            BY <1>2, <2>2, <3>1 DEF AcquireVmLock
        <3>3. pc' \in [Requests -> PCs]
            BY <1>2, <2>2 DEF AcquireVmLock, PCs
        <3> QED BY <1>2, <3>1, <3>2, <3>3 DEF AcquireVmLock
    <2> QED BY <2>1, <2>2
<1>3. ASSUME NEW r \in Requests, GetVmSocket(r) PROVE TypeOK'
    <2>1. CASE socket # None
        BY <1>3, <2>1 DEF GetVmSocket, PCs
    <2>2. CASE socket = None
        <3>1. pc' \in [Requests -> PCs]
            BY <1>3, <2>2 DEF GetVmSocket, PCs
        <3>2. PICK c \in Connections :
                  /\ dialing' = c
                  /\ conn' = [conn EXCEPT ![c] = IF dialing = None
                                                 THEN "dialing" ELSE @]
                  /\ young' = IF dialing = None THEN young \cup {c} ELSE young
            BY <1>3, <2>2 DEF GetVmSocket
        <3>3. conn' \in [Connections -> ConnStates]
            BY <3>2 DEF ConnStates
        <3>4. young' \in SUBSET Connections /\ dialing' \in Connections
            BY <3>2
        <3> QED BY <1>3, <2>2, <3>1, <3>3, <3>4 DEF GetVmSocket
    <2> QED BY <2>1, <2>2
<1>4. ASSUME NEW r \in Requests, Send(r) PROVE TypeOK'
    BY <1>4 DEF Send, PCs, ConnStates
<1>5. ASSUME NEW r \in Requests, Return(r) PROVE TypeOK'
    BY <1>5 DEF Return, PCs
<1>6. ASSUME NEW r \in Requests, NEW c, DestroyQuietly(c),
             pc' = Settled({r}),
             UNCHANGED <<holder, awaits, dialing, heard, guest, up>>
      PROVE  TypeOK'
    <2>1. pc' \in [Requests -> PCs]
        BY <1>6, SettledType
    <2>2. wire' \in [Connections -> Seq(Messages)]
        <3>1. <<>> \in Seq(Messages)
            OBVIOUS
        <3>2. wire' = [d \in Connections |-> IF d = c THEN <<>> ELSE wire[d]]
            BY <1>6 DEF DestroyQuietly, Destroy
        <3> QED BY <3>1, <3>2
    <2>3. conn' \in [Connections -> ConnStates] /\ young' \in SUBSET Connections
        BY <1>6 DEF DestroyQuietly, ConnStates
    <2>4. /\ socket' \in Connections \cup {None}
          /\ on' \in [Requests -> Connections \cup {None}]
          /\ listening' \in [Requests -> Connections \cup {None}]
        BY <1>6 DEF DestroyQuietly, Destroy
    <2> QED BY <1>6, <2>1, <2>2, <2>3, <2>4
<1>7. ASSUME NEW r \in Requests, NEW m \in Messages, Writes(r, m),
             guest' \in [Requests -> {"none", "running", "failing", "done"}]
      PROVE  TypeOK'
    <2>1. CASE on[r] # None /\ conn[on[r]] = "open"
        <3>1. wire[on[r]] \in Seq(Messages) /\ on[r] \in Connections
            BY <2>1
        <3>2. Append(wire[on[r]], m) \in Seq(Messages)
            BY <3>1
        <3> QED BY <1>7, <2>1, <3>1, <3>2 DEF Writes, hostVars
    <2>2. CASE ~(on[r] # None /\ conn[on[r]] = "open")
        BY <1>7, <2>2 DEF Writes, hostVars
    <2> QED BY <2>1, <2>2
<1>8. ASSUME NEW c \in Connections, Connect(c) \/ Retry(c) \/ GrowOld(c)
      PROVE  TypeOK'
    BY <1>8 DEF Connect, Retry, GrowOld, ConnStates
<1>9. ASSUME NEW c \in Connections, SocketError(c) PROVE TypeOK'
    BY <1>9, SettledType DEF SocketError, Destroy, ConnStates
<1>10. ASSUME NEW c \in Connections, PeerEnds(c) PROVE TypeOK'
    BY <1>10, SettledType DEF PeerEnds, ConnStates
<1>11. ASSUME NEW c \in Connections, AutoDestroy(c) PROVE TypeOK'
    BY <1>11 DEF AutoDestroy, DestroyQuietly, Destroy, ConnStates
<1>12. ASSUME NEW c \in Connections, NEW n \in 1 .. MaxWire, Data(c, n)
       PROVE  TypeOK'
    <2>1. n \in 1 .. Len(wire[c]) /\ wire[c] \in Seq(Messages)
        BY <1>12 DEF Data
    <2>2. wire' \in [Connections -> Seq(Messages)]
        BY <1>12, <2>1, ChunkType DEF Data
    <2>3. heard' \in [Requests -> SUBSET Requests]
        <3>1. \A r \in Requests :
                  {SubSeq(wire[c], 1, n)[i].id :
                      i \in Taken(r, SubSeq(wire[c], 1, n))} \subseteq {r}
            BY DEF Taken, Takes
        <3>2. \A r \in Requests : heard[r] \cup {SubSeq(wire[c], 1, n)[i].id :
                      i \in Taken(r, SubSeq(wire[c], 1, n))} \in SUBSET Requests
            BY <3>1
        <3> QED BY <1>12, <3>2 DEF Data
    <2>4. pc' \in [Requests -> PCs]
        BY <1>12, SettledType DEF Data
    <2>5. listening' \in [Requests -> Connections \cup {None}]
        BY <1>12 DEF Data
    <2> QED BY <1>12, <2>2, <2>3, <2>4, <2>5 DEF Data
<1>13. CASE SetVmSocket
    BY <1>13 DEF SetVmSocket, PCs
<1>14. CASE VmDies
    BY <1>14 DEF VmDies, hostVars
<1>15. CASE UNCHANGED vars
    BY <1>15 DEF vars, hostVars
<1> QED
    <2>1. \A r \in Requests : RequestNext(r) => TypeOK'
        <3> SUFFICES ASSUME NEW r \in Requests, RequestNext(r) PROVE TypeOK'
            OBVIOUS
        <3>1. CASE TooLarge(r) \/ Timeout(r)
            BY <3>1, <1>6 DEF TooLarge, Timeout
        <3>2. /\ [id |-> r, last |-> FALSE] \in Messages
              /\ [id |-> r, last |-> TRUE] \in Messages
              /\ [id |-> None, last |-> TRUE] \in Messages
            BY DEF Messages
        <3>3. CASE StreamChunk(r)
            BY <3>2, <3>3, <1>7 DEF StreamChunk
        <3>4. CASE Answer(r)
            BY <3>2, <3>4, <1>7 DEF Answer
        <3>5. CASE AnswerAgain(r)
            BY <3>2, <3>5, <1>7 DEF AnswerAgain
        <3>6. CASE HandlerThrows(r)
            BY <3>2, <3>6, <1>7 DEF HandlerThrows
        <3> QED BY <3>1, <3>3, <3>4, <3>5, <3>6, <1>1, <1>2, <1>3, <1>4, <1>5
                DEF RequestNext, Continuation
    <2>2. \A c \in Connections : ConnectionNext(c) => TypeOK'
        BY <1>8, <1>9, <1>10, <1>11, <1>12 DEF ConnectionNext
    <2> QED BY <2>1, <2>2, <1>13, <1>14, <1>15 DEF Next

\* Every variable of VmChannel keeps its type.
THEOREM TypeCorrect == Spec => []TypeOK
<1>1. Init => TypeOK
    BY DEF Init, TypeOK, PCs, ConnStates
<1> QED BY <1>1, TypeStep, PTL DEF Spec

-----------------------------------------------------------------------------
(* The lock.                                                                 *)

LockInv == OneAtATime /\ NobodyForgotten

\* The lock's invariant is not touched by a step that moves requests only
\* before the lock is tested, or between taking and releasing it.
LEMMA LockKept ==
    ASSUME LockInv, UNCHANGED <<holder, awaits>>,
           \A q \in Requests : \/ pc'[q] = pc[q]
                               \/ pc'[q] = "lock"
                               \/ pc[q] \in Inside /\ pc'[q] \in Inside
    PROVE  LockInv'
BY ChannelConstants DEF LockInv, OneAtATime, NobodyForgotten, Inside

LEMMA LockStep == TypeOK /\ LockInv /\ [Next]_vars => LockInv'
<1> SUFFICES ASSUME TypeOK, LockInv, [Next]_vars PROVE LockInv'
    OBVIOUS
<1>0. \A s : \A q \in Requests :
          \/ Settled(s)[q] = pc[q]
          \/ pc[q] \in Inside /\ Settled(s)[q] \in Inside
    BY DEF TypeOK, Settled, Inside
<1>1. ASSUME NEW r \in Requests, Call(r) PROVE LockInv'
    BY <1>1, LockKept DEF TypeOK, Call
<1>2. ASSUME NEW r \in Requests, AcquireVmLock(r) PROVE LockInv'
    BY <1>2, ChannelConstants
    DEF TypeOK, AcquireVmLock, LockInv, OneAtATime, NobodyForgotten, Inside
<1>3. ASSUME NEW r \in Requests, Return(r) PROVE LockInv'
    BY <1>3, ChannelConstants
    DEF TypeOK, Return, WokenBy, LockInv, OneAtATime, NobodyForgotten, Inside
<1>4. ASSUME NEW r \in Requests, GetVmSocket(r) \/ Send(r) PROVE LockInv'
    BY <1>4, LockKept DEF TypeOK, GetVmSocket, Send, Inside
<1>5. ASSUME NEW s, pc' = Settled(s), UNCHANGED <<holder, awaits>>
      PROVE  LockInv'
    BY <1>0, <1>5, LockKept
<1>6. CASE UNCHANGED <<pc, holder, awaits>>
    BY <1>6, LockKept
<1>7. CASE SetVmSocket
    BY <1>7, LockKept DEF TypeOK, SetVmSocket, Inside
<1> QED
    <2>1. \A r \in Requests : RequestNext(r) => LockInv'
        BY <1>1, <1>2, <1>3, <1>4, <1>5, <1>6
        DEF RequestNext, Continuation, TooLarge, Timeout, StreamChunk, Answer,
            AnswerAgain, HandlerThrows, Writes, hostVars
    <2>2. \A c \in Connections : ConnectionNext(c) => LockInv'
        BY <1>5, <1>6
        DEF ConnectionNext, Connect, SocketError, Retry, GrowOld, PeerEnds,
            AutoDestroy, Data
    <2> QED BY <2>1, <2>2, <1>6, <1>7 DEF Next, VmDies, vars, hostVars

LEMMA LockAlways == Spec => []LockInv
<1>1. Init => LockInv
    BY DEF Init, LockInv, OneAtATime, NobodyForgotten, Inside
<1> QED BY <1>1, LockStep, TypeCorrect, PTL DEF Spec

\* One request at a time holds the VM's lock: acquireVmLock and releaseLock of
\* transport.ts:76-92, for any number of requests.
THEOREM LockExact == Spec => []OneAtATime
BY LockAlways, PTL DEF LockInv

\* Whoever waits for the VM's lock waits for the promise its holder resolves.
THEOREM NobodyLeftWaiting == Spec => []NobodyForgotten
BY LockAlways, PTL DEF LockInv

-----------------------------------------------------------------------------
(* What a request hears.                                                     *)

\* A request takes nobody else's chunks or response, whatever comes while it
\* reads: the test of the id in readVsockResponse (protocol.ts:54-68).
THEOREM HearsItsOwn == Spec => []OwnMessages
<1>1. Init => OwnMessages
    BY DEF Init, OwnMessages
<1>2. TypeOK /\ OwnMessages /\ [Next]_vars => OwnMessages'
    <2> SUFFICES ASSUME TypeOK, OwnMessages, [Next]_vars PROVE OwnMessages'
        OBVIOUS
    <2>1. CASE UNCHANGED heard
        BY <2>1 DEF OwnMessages
    <2>2. ASSUME NEW c \in Connections, NEW n \in 1 .. MaxWire, Data(c, n)
          PROVE  OwnMessages'
        <3>1. \A r \in Requests :
                  {SubSeq(wire[c], 1, n)[i].id :
                      i \in Taken(r, SubSeq(wire[c], 1, n))} \subseteq {r}
            BY DEF Taken, Takes
        <3> QED BY <2>2, <3>1 DEF Data, OwnMessages
    <2>3. \A r \in Requests : RequestNext(r) => UNCHANGED heard
        BY DEF RequestNext, Continuation, Call, AcquireVmLock, GetVmSocket,
               Send, Return, TooLarge, Timeout, StreamChunk, Answer,
               AnswerAgain, HandlerThrows, Writes, hostVars
    <2>4. \A c \in Connections : ConnectionNext(c) =>
              UNCHANGED heard \/ \E n \in 1 .. MaxWire : Data(c, n)
        BY DEF ConnectionNext, Connect, SocketError, Retry, GrowOld, PeerEnds,
               AutoDestroy
    <2> QED BY <2>1, <2>2, <2>3, <2>4
            DEF Next, SetVmSocket, VmDies, vars, hostVars
<1> QED BY <1>1, <1>2, TypeCorrect, PTL DEF Spec

-----------------------------------------------------------------------------
(* Who listens to which socket, and what the guest still does on it.         *)

\* vm.socket is not destroyed; what the guest answers on was connected.
Attached ==
    /\ socket # None => conn[socket] \in {"open", "ended"}
    /\ \A r \in Requests :
           on[r] # None => conn[on[r]] \in {"open", "ended", "broken"}

\* A request listens exactly while it reads.
Listening ==
    \A r \in Requests :
        /\ pc[r] = "send" => on[r] # None /\ conn[on[r]] # "broken"
        /\ pc[r] = "read" =>
               /\ on[r] # None /\ listening[r] = on[r]
               /\ conn[on[r]] \in {"open", "broken"}
        /\ pc[r] # "read" => listening[r] = None

Unsent == {"new", "lock", "wait", "woken", "locked", "dial", "send"}

\* The guest works on a request, over an open connection, only while it reads.
Working ==
    \A r \in Requests :
        /\ pc[r] \in Unsent => guest[r] = "none"
        /\ on[r] # None /\ conn[on[r]] = "open" /\ guest[r] = "running" =>
               pc[r] = "read"

\* A last message of a request is on the wire only when its work is done.
Answers ==
    \A c \in Connections : \A i \in 1 .. Len(wire[c]) :
        wire[c][i].last /\ wire[c][i].id # None =>
            guest[wire[c][i].id] \in {"failing", "done"}

ChannelInv == Attached /\ Listening /\ Working /\ Answers

\* Answers survives where the wire only loses messages and guests only go on.
LEMMA AnswersKept ==
    ASSUME TypeOK, Answers,
           \A c \in Connections : wire'[c] = wire[c] \/ wire'[c] = <<>>,
           \A q \in Requests : guest'[q] = guest[q] \/ guest[q] = "none"
    PROVE  Answers'
<1> SUFFICES ASSUME NEW c \in Connections, NEW i \in 1 .. Len(wire'[c]),
                    wire'[c][i].last, wire'[c][i].id # None
             PROVE  guest'[wire'[c][i].id] \in {"failing", "done"}
    BY DEF Answers
<1>1. wire'[c] = wire[c]
    OBVIOUS
<1>2. wire[c][i] \in Messages
    BY <1>1 DEF TypeOK
<1>3. wire[c][i].id \in Requests
    BY <1>1, <1>2 DEF Messages
<1>4. guest[wire[c][i].id] \in {"failing", "done"}
    BY <1>1 DEF Answers
<1> QED BY <1>1, <1>3, <1>4

LEMMA ChannelStep == TypeOK /\ LockInv /\ ChannelInv /\ [Next]_vars
                        => ChannelInv'
<1> SUFFICES ASSUME TypeOK, LockInv, ChannelInv, [Next]_vars PROVE ChannelInv'
    OBVIOUS
<1> USE ChannelConstants
<1>1. ASSUME NEW r \in Requests,
             Call(r) \/ AcquireVmLock(r) \/ GetVmSocket(r) \/ Send(r)
             \/ Return(r)
      PROVE  ChannelInv'
    <2>1. Answers'
        BY <1>1, AnswersKept
        DEF TypeOK, ChannelInv, Working, Unsent, Call, AcquireVmLock,
            GetVmSocket, Send, Return
    <2>2. CASE Call(r)
        BY <2>1, <2>2 DEF TypeOK, ChannelInv, Attached, Listening, Working,
                          Unsent, Call
    <2>3. CASE AcquireVmLock(r)
        BY <2>1, <2>3 DEF TypeOK, ChannelInv, Attached, Listening, Working,
                          Unsent, AcquireVmLock
    <2>4. CASE GetVmSocket(r)
        <3>1. CASE socket # None
            <4>1. /\ on' = [on EXCEPT ![r] = socket] /\ pc[r] = "locked"
                  /\ pc' = [pc EXCEPT ![r] = "send"]
                  /\ UNCHANGED <<socket, conn, listening, guest>>
                BY <2>4, <3>1 DEF GetVmSocket
            <4>2. Attached'
                BY <4>1 DEF TypeOK, ChannelInv, Attached
            <4>3. Listening'
                BY <3>1, <4>1 DEF TypeOK, ChannelInv, Attached, Listening
            <4>4. Working'
                BY <4>1 DEF TypeOK, ChannelInv, Working, Unsent
            <4> QED BY <2>1, <4>2, <4>3, <4>4 DEF ChannelInv
        <3>2. CASE socket = None
            <4>1. /\ pc' = [pc EXCEPT ![r] = "dial"] /\ pc[r] = "locked"
                  /\ UNCHANGED <<socket, on, listening, guest>>
                BY <2>4, <3>2 DEF GetVmSocket
            <4>2. \A c \in Connections :
                      conn[c] # "closed" => conn'[c] = conn[c]
                BY <2>4, <3>2 DEF TypeOK, GetVmSocket
            <4>3. \A q \in Requests :
                      on[q] # None => conn'[on[q]] = conn[on[q]]
                BY <4>2 DEF TypeOK, ChannelInv, Attached
            <4>4. Attached' /\ Listening'
                BY <3>2, <4>1, <4>3 DEF TypeOK, ChannelInv, Attached, Listening
            <4>5. Working'
                BY <4>1, <4>3 DEF TypeOK, ChannelInv, Attached, Working, Unsent
            <4> QED BY <2>1, <4>4, <4>5 DEF ChannelInv
        <3> QED BY <3>1, <3>2
    <2>5. CASE Send(r)
        BY <2>1, <2>5 DEF TypeOK, ChannelInv, Attached, Listening, Working,
                          Unsent, LockInv, OneAtATime, Inside, Send
    <2>6. CASE Return(r)
        BY <2>1, <2>6 DEF TypeOK, ChannelInv, Attached, Listening, Working,
                          Unsent, Return, WokenBy
    <2> QED BY <1>1, <2>2, <2>3, <2>4, <2>5, <2>6
<1>2. ASSUME NEW r \in Requests, Quiet, pc[r] = "read",
             pc' = Settled({r}), DestroyQuietly(on[r]),
             UNCHANGED <<holder, awaits, dialing, heard, guest, up>>
      PROVE  ChannelInv'
    <2>1. on[r] \in Connections
        BY <1>2 DEF TypeOK, ChannelInv, Listening
    <2>2. Answers'
        BY <1>2, <2>1, AnswersKept
        DEF TypeOK, ChannelInv, DestroyQuietly, Destroy
    <2>3. \A q \in Requests \ {r} : pc[q] # "read"
        BY <1>2 DEF LockInv, OneAtATime, Inside
    <2> QED BY <1>2, <2>1, <2>2, <2>3
            DEF TypeOK, ChannelInv, Attached, Listening, Working, Unsent,
                Quiet, Settled, DestroyQuietly, Destroy
<1>3. ASSUME NEW r \in Requests, NEW m \in Messages, Writes(r, m),
             \/ guest' = guest /\ ~m.last
             \/ /\ m.id \in {r, None}
                /\ guest[r] \in {"running", "failing"}
                /\ guest' \in {[guest EXCEPT ![r] = s] :
                                  s \in {"failing", "done"}}
      PROVE  ChannelInv'
    <2>1. Attached' /\ Listening'
        BY <1>3 DEF ChannelInv, Attached, Listening, Writes, hostVars
    <2>2. Working'
        BY <1>3 DEF TypeOK, ChannelInv, Working, Unsent, Writes, hostVars
    <2>3. Answers'
        <3> SUFFICES ASSUME NEW c \in Connections, NEW i \in 1 .. Len(wire'[c]),
                            wire'[c][i].last, wire'[c][i].id # None
                     PROVE  guest'[wire'[c][i].id] \in {"failing", "done"}
            BY DEF Answers
        <3>1. wire[c] \in Seq(Messages)
            BY DEF TypeOK
        <3>2. wire'[c] = wire[c] \/ wire'[c] = Append(wire[c], m)
            BY <1>3 DEF TypeOK, Writes
        <3>3. CASE i \in 1 .. Len(wire[c]) /\ wire'[c][i] = wire[c][i]
            <4>1. wire[c][i] \in Messages
                BY <3>1, <3>3
            <4>2. wire[c][i].id \in Requests
                BY <3>3, <4>1 DEF Messages
            <4>3. guest[wire[c][i].id] \in {"failing", "done"}
                BY <3>3 DEF ChannelInv, Answers
            <4> QED BY <1>3, <3>3, <4>2, <4>3 DEF TypeOK
        <3>4. CASE wire'[c][i] = m
            BY <1>3, <3>4 DEF TypeOK
        <3> QED BY <3>1, <3>2, <3>3, <3>4
    <2> QED BY <2>1, <2>2, <2>3 DEF ChannelInv
<1>4. ASSUME NEW c \in Connections,
             Connect(c) \/ Retry(c) \/ GrowOld(c) \/ PeerEnds(c)
      PROVE  ChannelInv'
    <2>1. Answers'
        BY <1>4, AnswersKept
        DEF ChannelInv, Connect, Retry, GrowOld, PeerEnds
    <2>2. CASE Connect(c) \/ Retry(c) \/ GrowOld(c)
        <3>1. /\ UNCHANGED <<pc, socket, on, listening, guest>>
              /\ \A d \in Connections :
                     conn'[d] = conn[d] \/ conn[d] \in {"dialing", "retry"}
            BY <2>2 DEF TypeOK, Connect, Retry, GrowOld
        <3>0. /\ socket # None => socket \in Connections
              /\ \A r \in Requests : on[r] # None => on[r] \in Connections
            BY DEF TypeOK
        <3>2. /\ socket # None => conn'[socket] = conn[socket]
              /\ \A r \in Requests :
                     on[r] # None => conn'[on[r]] = conn[on[r]]
            BY <3>1, <3>0 DEF ChannelInv, Attached
        <3>3. Attached' /\ Listening' /\ Working'
            BY <3>1, <3>2 DEF ChannelInv, Attached, Listening, Working
        <3> QED BY <2>1, <3>3 DEF ChannelInv
    <2>3. CASE PeerEnds(c)
        BY <2>1, <2>3 DEF TypeOK, ChannelInv, Attached, Listening, Working,
                          Unsent, PeerEnds, Quiet, Settled, Listeners
    <2> QED BY <1>4, <2>2, <2>3
<1>5. ASSUME NEW c \in Connections, SocketError(c) PROVE ChannelInv'
    <2>1. Answers'
        BY <1>5, AnswersKept DEF TypeOK, ChannelInv, SocketError, Destroy
    <2> QED BY <1>5, <2>1
            DEF TypeOK, ChannelInv, Attached, Listening, Working, Unsent,
                SocketError, Destroy, Quiet, Settled, Listeners
<1>6. ASSUME NEW c \in Connections, AutoDestroy(c) PROVE ChannelInv'
    <2>1. Answers'
        BY <1>6, AnswersKept
        DEF TypeOK, ChannelInv, AutoDestroy, DestroyQuietly, Destroy
    <2> QED BY <1>6, <2>1
            DEF TypeOK, ChannelInv, Attached, Listening, Working, Unsent,
                AutoDestroy, DestroyQuietly, Destroy, Quiet
<1>7. ASSUME NEW c \in Connections, NEW n \in 1 .. MaxWire, Data(c, n)
      PROVE  ChannelInv'
    <2> DEFINE chunk == SubSeq(wire[c], 1, n)
               Answered == {r \in Listeners(c) :
                                \E i \in Taken(r, chunk) : chunk[i].last}
    <2>0. wire[c] \in Seq(Messages) /\ n \in 1 .. Len(wire[c])
        BY <1>7 DEF TypeOK, Data
    <2>1. \A r \in Answered : guest[r] \in {"failing", "done"}
        <3> SUFFICES ASSUME NEW r \in Requests, NEW i \in Taken(r, chunk),
                            chunk[i].last
                     PROVE  guest[r] \in {"failing", "done"}
            BY DEF Listeners
        <3>1. chunk[i].id = r
            BY DEF Taken, Takes
        <3>2. i \in 1 .. n /\ chunk[i] = wire[c][i] /\ i \in 1 .. Len(wire[c])
            BY <2>0, ChunkType DEF Taken, Looked
        <3> QED BY <3>1, <3>2 DEF ChannelInv, Answers
    <2>2. Answers'
        <3> SUFFICES ASSUME NEW d \in Connections, NEW i \in 1 .. Len(wire'[d]),
                            wire'[d][i].last, wire'[d][i].id # None
                     PROVE  guest'[wire'[d][i].id] \in {"failing", "done"}
            BY DEF Answers
        <3>1. CASE d # c
            BY <1>7, <3>1 DEF TypeOK, Data, ChannelInv, Answers
        <3>2. CASE d = c
            <4>1. wire'[c] = SubSeq(wire[c], n + 1, Len(wire[c]))
                BY <1>7 DEF TypeOK, Data
            <4>2. /\ n + i \in 1 .. Len(wire[c])
                  /\ wire'[c][i] = wire[c][n + i]
                <5>1. /\ Len(wire'[c]) = Len(wire[c]) - n
                      /\ \A j \in 1 .. Len(wire[c]) - n :
                             wire'[c][j] = wire[c][n + j]
                    BY <2>0, <4>1, ChunkType
                <5>2. i \in 1 .. Len(wire[c]) - n
                    BY <3>2, <5>1
                <5> QED BY <2>0, <5>1, <5>2
            <4> QED BY <1>7, <3>2, <4>2 DEF Data, ChannelInv, Answers
        <3> QED BY <3>1, <3>2
    <2>3. /\ pc' = Settled(Answered)
          /\ listening' = [r \in Requests |->
                              IF r \in Answered THEN None ELSE listening[r]]
          /\ UNCHANGED <<socket, conn, on, guest>>
        BY <1>7 DEF Data
    <2>4. Answered \subseteq Listeners(c)
        OBVIOUS
    <2> HIDE DEF Answered
    <2> QED BY <2>1, <2>2, <2>3, <2>4
            DEF TypeOK, ChannelInv, Attached, Listening, Working, Unsent,
                Settled, Listeners
<1>8. CASE SetVmSocket
    <2>1. Answers'
        BY <1>8, AnswersKept DEF ChannelInv, SetVmSocket
    <2> QED BY <1>8, <2>1 DEF TypeOK, ChannelInv, Attached, Listening, Working,
                              Unsent, SetVmSocket
<1>9. CASE UNCHANGED <<pc, socket, conn, wire, on, listening, guest>>
    BY <1>9 DEF ChannelInv, Attached, Listening, Working, Answers
<1> QED
    <2>1. \A r \in Requests : RequestNext(r) => ChannelInv'
        <3> SUFFICES ASSUME NEW r \in Requests, RequestNext(r)
                     PROVE  ChannelInv'
            OBVIOUS
        <3>1. CASE TooLarge(r) \/ Timeout(r)
            BY <3>1, <1>2 DEF TooLarge, Timeout
        <3>2. CASE StreamChunk(r)
            BY <3>2, <1>3 DEF StreamChunk, Messages
        <3>3. CASE Answer(r)
            BY <3>3, <1>3 DEF Answer, Messages
        <3>4. CASE AnswerAgain(r)
            BY <3>4, <1>3 DEF AnswerAgain, Messages
        <3>5. CASE HandlerThrows(r)
            BY <3>5, <1>3 DEF HandlerThrows, Messages
        <3> QED BY <1>1, <3>1, <3>2, <3>3, <3>4, <3>5
                DEF RequestNext, Continuation
    <2>2. \A c \in Connections : ConnectionNext(c) => ChannelInv'
        BY <1>4, <1>5, <1>6, <1>7 DEF ConnectionNext
    <2> QED BY <2>1, <2>2, <1>8, <1>9 DEF Next, VmDies, vars, hostVars

LEMMA ChannelInvariant == Spec => [](TypeOK /\ LockInv /\ ChannelInv)
<1>1. Init => TypeOK /\ LockInv /\ ChannelInv
    BY DEF Init, TypeOK, PCs, ConnStates, LockInv, OneAtATime,
           NobodyForgotten, Inside, ChannelInv, Attached, Listening, Working,
           Unsent, Answers
<1> QED BY <1>1, TypeStep, LockStep, ChannelStep, PTL DEF Spec

\* A request never reads from an open connection on which the guest still works
\* for another: every way to leave a request unanswered ends its connection
\* (protocol.ts:24-40, 87-101).
THEOREM GuestAlone == Spec => []AloneOnConnection
<1>1. LockInv /\ ChannelInv => AloneOnConnection
    BY ChannelConstants DEF LockInv, OneAtATime, Inside, ChannelInv, Listening,
       Working, AloneOnConnection
<1> QED BY <1>1, ChannelInvariant, PTL

\* What comes after a request's promise was settled is not passed to it, though
\* its timer leaves its handlers on the socket (protocol.ts:24-29).
THEOREM SilentOnceSettled == Spec => SilentAfterwards
<1>1. TypeOK /\ ChannelInv /\ [Next]_vars =>
          \A r \in Requests :
              pc[r] \in {"settled", "returned"} => heard'[r] = heard[r]
    <2> SUFFICES ASSUME TypeOK, ChannelInv, [Next]_vars, NEW r \in Requests,
                        pc[r] \in {"settled", "returned"}
                 PROVE  heard'[r] = heard[r]
        OBVIOUS
    <2>1. \A c \in Connections : r \notin Listeners(c)
        BY ChannelConstants DEF ChannelInv, Listening, Listeners
    <2>2. \A c \in Connections : \A n \in 1 .. MaxWire :
              Data(c, n) => heard'[r] = heard[r]
        BY <2>1 DEF Data
    <2>3. \A q \in Requests : RequestNext(q) => UNCHANGED heard
        BY DEF RequestNext, Continuation, Call, AcquireVmLock, GetVmSocket,
               Send, Return, TooLarge, Timeout, StreamChunk, Answer,
               AnswerAgain, HandlerThrows, Writes, hostVars
    <2>4. \A c \in Connections : ConnectionNext(c) =>
              UNCHANGED heard \/ \E n \in 1 .. MaxWire : Data(c, n)
        BY DEF ConnectionNext, Connect, SocketError, Retry, GrowOld, PeerEnds,
               AutoDestroy
    <2> QED BY <2>2, <2>3, <2>4 DEF Next, SetVmSocket, VmDies, vars, hostVars
<1> QED BY <1>1, ChannelInvariant, PTL DEF Spec, SilentAfterwards
=============================================================================
