----------------------------- MODULE AuthProofs -----------------------------
(* What Auth guarantees for any number of keys, any limits, any length of    *)
(* the window and any time.  Two of the theorems are of a key file that the  *)
(* command line leaves alone while the server runs.                          *)
EXTENDS Auth, TLAPS

-----------------------------------------------------------------------------
(* The inductive invariant of the key store, by subject.                     *)

\* Who is not there has nothing in memory; the command line may run alone.
ProcessShape ==
    /\ ~up => ~saving["server"] /\ ~loaded /\ ~behind /\ ~used /\ ~saveTimer
    /\ ~loaded => keys["server"] = Empty /\ ~used
    /\ ~saving["cli"] => keys["cli"] = Empty
    /\ up /\ saving["cli"] => CliBeside

\* A key is somewhere only after it was made, in one copy before it was in the
\* file, and was in the file before it could be retired.
Origin ==
    /\ stored \subseteq made /\ retired \subseteq stored
    /\ \A k \in Keys, p \in Procs :
           file[k] # "none" \/ keys[p][k] # "none" => k \in made
    /\ \A k \in Keys : file[k] # "none" => k \in stored
    /\ \A k \in Keys \ stored, p, q \in Procs :
           keys[p][k] # "none" /\ keys[q][k] # "none" => p = q

\* No copy has a retired key on, if no other process has written the file.
Retirement ==
    \/ CliBeside
    \/ \A k \in retired, p \in Procs : file[k] # "on" /\ keys[p][k] # "on"

\* In no copy a key is on beside its replacement, and in none at all if it was
\* replaced before it was saved.
Rotation ==
    \A k, n \in Keys : <<k, n>> \in rotated =>
        /\ n \in made /\ k \in made
        /\ file[n] # "none" => file[k] # "on"
        /\ n \in stored /\ k \in stored => k \in retired
        /\ \A p \in Procs :
               /\ keys[p][n] # "none" => keys[p][k] # "on"
               /\ k \notin stored => keys[p][k] # "on"

\* A key that is off was ended, or has a replacement.
OffShape ==
    \A k \in Keys \ ended :
        /\ file[k] = "off" => \E n \in stored \cup ended : <<k, n>> \in rotated
        /\ \A p \in Procs :
               keys[p][k] = "off" =>
                   \E n \in Keys :
                       /\ <<k, n>> \in rotated
                       /\ keys[p][n] # "none" \/ n \in stored \cup ended

StoreInv ==
    /\ StoreTypeOK /\ ProcessShape /\ Origin /\ Retirement /\ Rotation
    /\ OffShape /\ UseIsSaved /\ (CliBeside \/ FileFollowsMemory)

-----------------------------------------------------------------------------
(* Lemmas.                                                                   *)

\* Keys that are off have a replacement after a step that only adds to what is
\* known, if each was off in the file or in the copy before, or is replaced.
LEMMA OffStep ==
    ASSUME StoreTypeOK, OffShape,
           stored \subseteq stored', ended \subseteq ended', rotated \subseteq rotated',
           \A k \in Keys \ ended' : file'[k] = "off" =>
               \/ file[k] = "off"
               \/ \E p \in Procs :
                      /\ keys[p][k] = "off"
                      /\ \A n \in Keys : keys[p][n] # "none" => n \in stored',
           \A k \in Keys \ ended', p \in Procs : keys'[p][k] = "off" =>
               \/ file[k] = "off"
               \/ /\ keys[p][k] = "off"
                  /\ \A n \in Keys : keys[p][n] # "none" =>
                         keys'[p][n] # "none" \/ n \in ended'
               \/ \E n \in Keys : <<k, n>> \in rotated' /\ keys'[p][n] # "none"
    PROVE  OffShape'
<1>. SUFFICES ASSUME NEW k \in Keys \ ended'
              PROVE  /\ file'[k] = "off" =>
                            \E n \in stored' \cup ended' : <<k, n>> \in rotated'
                     /\ \A p \in Procs : keys'[p][k] = "off" =>
                            \E n \in Keys :
                                /\ <<k, n>> \in rotated'
                                /\ keys'[p][n] # "none" \/ n \in stored' \cup ended'
  BY DEF OffShape
<1>0. k \in Keys \ ended /\ stored \subseteq Keys /\ ended \subseteq Keys
  BY DEF StoreTypeOK
<1>1. ASSUME file[k] = "off"
      PROVE  \E n \in Keys : n \in stored' \cup ended' /\ <<k, n>> \in rotated'
  <2>1. PICK n \in stored \cup ended : <<k, n>> \in rotated
    BY <1>0, <1>1 DEF OffShape
  <2>. QED
    BY <1>0, <2>1
<1>2. ASSUME NEW p \in Procs, keys[p][k] = "off"
      PROVE  \E n \in Keys : /\ <<k, n>> \in rotated'
                             /\ keys[p][n] # "none" \/ n \in stored' \cup ended'
  <2>1. PICK n \in Keys : /\ <<k, n>> \in rotated
                          /\ keys[p][n] # "none" \/ n \in stored \cup ended
    BY <1>0, <1>2 DEF OffShape
  <2>. QED
    BY <2>1
<1>3. ASSUME file'[k] = "off"
      PROVE  \E n \in stored' \cup ended' : <<k, n>> \in rotated'
  <2>1. CASE file[k] = "off"
    BY <1>1, <2>1
  <2>2. CASE \E p \in Procs : /\ keys[p][k] = "off"
                              /\ \A n \in Keys : keys[p][n] # "none" => n \in stored'
    BY <1>2, <2>2
  <2>. QED
    BY <1>3, <2>1, <2>2
<1>4. ASSUME NEW p \in Procs, keys'[p][k] = "off"
      PROVE  \E n \in Keys : /\ <<k, n>> \in rotated'
                             /\ keys'[p][n] # "none" \/ n \in stored' \cup ended'
  <2>1. CASE file[k] = "off"
    BY <1>1, <2>1
  <2>2. CASE /\ keys[p][k] = "off"
             /\ \A n \in Keys : keys[p][n] # "none" =>
                    keys'[p][n] # "none" \/ n \in ended'
    BY <1>2, <2>2
  <2>. QED
    BY <1>4, <2>1, <2>2
<1>. QED
  BY <1>3, <1>4

-----------------------------------------------------------------------------
(* Each operation of the key store keeps it.                                 *)

\* The server reads the file, fails to, or has done so.
LEMMA LookKeeps ==
    ASSUME StoreInv,
           NEW copy \in Copies("server"), Look(copy),
           Touch \/ UNCHANGED uses
    PROVE  StoreInv'
<1>1. StoreTypeOK'
  BY DEF StoreInv, StoreTypeOK, Look, Copies, Readings, Empty, Files, Procs,
     asked, outcomes, Touch, uses
<1>2. ProcessShape'
  BY DEF StoreInv, ProcessShape, Look, MayRun
<1>3. Origin'
  BY DEF StoreInv, Origin, Look, Copies, Readings, Empty, asked, outcomes
<1>4. Retirement'
  BY DEF StoreInv, StoreTypeOK, Retirement, Look, Copies, Readings, Empty,
     Procs, outcomes
<1>5. Rotation'
  BY DEF StoreInv, Rotation, Origin, Look, Copies, Readings, Empty, asked,
     outcomes
<1>6. OffShape'
  <2>1. /\ stored \subseteq stored' /\ ended \subseteq ended'
        /\ rotated \subseteq rotated'
    BY DEF Look, asked, outcomes
  <2>2. \A x \in Keys \ ended' : file'[x] = "off" =>
            \/ file[x] = "off"
            \/ \E q \in Procs :
                   /\ keys[q][x] = "off"
                   /\ \A m \in Keys : keys[q][m] # "none" => m \in stored'
    BY DEF Look
  <2>3. ASSUME NEW x \in Keys \ ended', NEW q \in Procs, keys'[q][x] = "off"
        PROVE  \/ file[x] = "off"
               \/ /\ keys[q][x] = "off"
                  /\ \A m \in Keys : keys[q][m] # "none" =>
                         keys'[q][m] # "none" \/ m \in ended'
               \/ \E m \in Keys : <<x, m>> \in rotated' /\ keys'[q][m] # "none"
    BY <2>3 DEF Look, Copies, Readings, Empty
  <2>. QED
    BY <2>1, <2>2, <2>3, OffStep DEF StoreInv
<1>7. CliBeside \/ FileFollowsMemory'
  BY DEF StoreInv, FileFollowsMemory, StoreTypeOK, Look, Copies, Readings,
     Empty, Procs
<1>8. UseIsSaved'
  BY DEF StoreInv, UseIsSaved, ProcessShape, Look, Touch, uses
<1>. QED
  BY <1>1, <1>2, <1>3, <1>4, <1>5, <1>6, <1>7, <1>8 DEF StoreInv

\* The key is new: no copy has it, and it is not retired.
LEMMA CreateKeeps ==
    ASSUME StoreInv,
           NEW p \in Procs, NEW copy \in Copies(p), NEW k \in Keys,
           Create(p, copy, k),
           (p = "server" /\ Touch) \/ UNCHANGED uses
    PROVE  StoreInv'
<1>1. StoreTypeOK'
  BY DEF StoreInv, StoreTypeOK, Create, Change, Copies, Readings, Empty,
     outcomes, Files, Touch, uses
<1>2. ProcessShape'
  BY DEF StoreInv, ProcessShape, StoreTypeOK, Create, Change, MayRun, uses
<1>3. Origin'
  BY DEF StoreInv, Origin, Create, Change, Copies, Readings, Empty, outcomes
<1>4. Retirement'
  BY DEF StoreInv, StoreTypeOK, Retirement, Origin, Create, Change, Copies,
     Readings, Empty, Procs, Files, outcomes
<1>5. Rotation'
  BY DEF StoreInv, Rotation, Origin, Create, Change, Copies, Readings, Empty,
     outcomes
<1>6. OffShape'
  <2>1. /\ stored \subseteq stored' /\ ended \subseteq ended'
        /\ rotated \subseteq rotated'
    BY DEF Create, Change, outcomes
  <2>2. \A x \in Keys \ ended' : file'[x] = "off" =>
            \/ file[x] = "off"
            \/ \E q \in Procs :
                   /\ keys[q][x] = "off"
                   /\ \A m \in Keys : keys[q][m] # "none" => m \in stored'
    BY DEF Create, Change
  <2>3. ASSUME NEW x \in Keys \ ended', NEW q \in Procs, keys'[q][x] = "off"
        PROVE  \/ file[x] = "off"
               \/ /\ keys[q][x] = "off"
                  /\ \A m \in Keys : keys[q][m] # "none" =>
                         keys'[q][m] # "none" \/ m \in ended'
               \/ \E m \in Keys : <<x, m>> \in rotated' /\ keys'[q][m] # "none"
    BY <2>3 DEF Create, Change, Copies, Readings, Empty
  <2>. QED
    BY <2>1, <2>2, <2>3, OffStep DEF StoreInv
<1>7. CliBeside \/ FileFollowsMemory'
  BY DEF StoreInv, FileFollowsMemory, StoreTypeOK, Create, Change
<1>8. UseIsSaved'
  BY DEF StoreInv, UseIsSaved, StoreTypeOK, Create, Change, uses, Procs
<1>. QED
  BY <1>1, <1>2, <1>3, <1>4, <1>5, <1>6, <1>7, <1>8 DEF StoreInv

\* A key is turned off, which retires none before it is saved.
LEMMA RevokeKeeps ==
    ASSUME StoreInv,
           NEW p \in Procs, NEW copy \in Copies(p), NEW k \in Keys,
           Revoke(p, copy, k),
           (p = "server" /\ Touch) \/ UNCHANGED uses
    PROVE  StoreInv'
<1>1. StoreTypeOK'
  BY DEF StoreInv, StoreTypeOK, Revoke, Change, Copies, Readings, Empty,
     outcomes, Files, Touch, uses
<1>2. ProcessShape'
  BY DEF StoreInv, ProcessShape, StoreTypeOK, Revoke, Change, MayRun, uses
<1>3. Origin'
  BY DEF StoreInv, Origin, Revoke, Change, Copies, Readings, Empty, outcomes
<1>4. Retirement'
  BY DEF StoreInv, Retirement, Revoke, Change, Copies, Readings, Empty,
     outcomes
<1>5. Rotation'
  BY DEF StoreInv, Rotation, Origin, Revoke, Change, Copies, Readings, Empty,
     outcomes
<1>6. OffShape'
  <2>1. /\ stored \subseteq stored' /\ ended \subseteq ended'
        /\ rotated \subseteq rotated'
    BY DEF Revoke, Change, outcomes
  <2>2. \A x \in Keys \ ended' : file'[x] = "off" =>
            \/ file[x] = "off"
            \/ \E q \in Procs :
                   /\ keys[q][x] = "off"
                   /\ \A m \in Keys : keys[q][m] # "none" => m \in stored'
    BY DEF Revoke, Change
  <2>3. ASSUME NEW x \in Keys \ ended', NEW q \in Procs, keys'[q][x] = "off"
        PROVE  \/ file[x] = "off"
               \/ /\ keys[q][x] = "off"
                  /\ \A m \in Keys : keys[q][m] # "none" =>
                         keys'[q][m] # "none" \/ m \in ended'
               \/ \E m \in Keys : <<x, m>> \in rotated' /\ keys'[q][m] # "none"
    BY <2>3 DEF Revoke, Change, Copies, Readings, Empty
  <2>. QED
    BY <2>1, <2>2, <2>3, OffStep DEF StoreInv
<1>7. CliBeside \/ FileFollowsMemory'
  BY DEF StoreInv, FileFollowsMemory, StoreTypeOK, Revoke, Change
<1>8. UseIsSaved'
  BY DEF StoreInv, UseIsSaved, StoreTypeOK, Revoke, Change, uses, Procs
<1>. QED
  BY <1>1, <1>2, <1>3, <1>4, <1>5, <1>6, <1>7, <1>8 DEF StoreInv

\* A key is gone, its replacement too if it is that one.
LEMMA DeleteKeeps ==
    ASSUME StoreInv,
           NEW p \in Procs, NEW copy \in Copies(p), NEW k \in Keys,
           Delete(p, copy, k),
           (p = "server" /\ Touch) \/ UNCHANGED uses
    PROVE  StoreInv'
<1>1. StoreTypeOK'
  BY DEF StoreInv, StoreTypeOK, Delete, Change, Copies, Readings, Empty,
     outcomes, Files, Touch, uses
<1>2. ProcessShape'
  BY DEF StoreInv, ProcessShape, StoreTypeOK, Delete, Change, MayRun, uses
<1>3. Origin'
  BY DEF StoreInv, Origin, Delete, Change, Copies, Readings, Empty, outcomes
<1>4. Retirement'
  BY DEF StoreInv, Retirement, Delete, Change, Copies, Readings, Empty,
     outcomes
<1>5. Rotation'
  BY DEF StoreInv, Rotation, Origin, Delete, Change, Copies, Readings, Empty,
     outcomes
<1>6. OffShape'
  <2>1. /\ stored \subseteq stored' /\ ended \subseteq ended'
        /\ rotated \subseteq rotated'
    BY DEF Delete, Change, outcomes
  <2>2. \A x \in Keys \ ended' : file'[x] = "off" =>
            \/ file[x] = "off"
            \/ \E q \in Procs :
                   /\ keys[q][x] = "off"
                   /\ \A m \in Keys : keys[q][m] # "none" => m \in stored'
    BY DEF Delete, Change
  <2>3. ASSUME NEW x \in Keys \ ended', NEW q \in Procs, keys'[q][x] = "off"
        PROVE  \/ file[x] = "off"
               \/ /\ keys[q][x] = "off"
                  /\ \A m \in Keys : keys[q][m] # "none" =>
                         keys'[q][m] # "none" \/ m \in ended'
               \/ \E m \in Keys : <<x, m>> \in rotated' /\ keys'[q][m] # "none"
    BY <2>3 DEF Delete, Change, Copies, Readings, Empty
  <2>. QED
    BY <2>1, <2>2, <2>3, OffStep DEF StoreInv
<1>7. CliBeside \/ FileFollowsMemory'
  BY DEF StoreInv, FileFollowsMemory, StoreTypeOK, Delete, Change
<1>8. UseIsSaved'
  BY DEF StoreInv, UseIsSaved, StoreTypeOK, Delete, Change, uses, Procs
<1>. QED
  BY <1>1, <1>2, <1>3, <1>4, <1>5, <1>6, <1>7, <1>8 DEF StoreInv

\* Both changes are in one copy, and the replacement is new.
LEMMA RotateKeeps ==
    ASSUME StoreInv,
           NEW p \in Procs, NEW copy \in Copies(p), NEW k \in Keys,
           NEW n \in Keys, Rotate(p, copy, k, n),
           (p = "server" /\ Touch) \/ UNCHANGED uses
    PROVE  StoreInv'
<1>1. StoreTypeOK'
  <2>1. copy \in Files /\ Procs \subseteq {"server", "cli"}
    BY DEF StoreInv, StoreTypeOK, Copies, Readings, Empty, Files, Procs
  <2>2. [copy EXCEPT ![k] = "off", ![n] = "on"] \in Files
    BY <2>1 DEF Files
  <2>3. keys' \in [Procs -> Files]
    BY <2>2 DEF StoreInv, StoreTypeOK, Rotate, Change
  <2>4. rotated' \subseteq Keys \X Keys /\ made' \subseteq Keys
    BY DEF StoreInv, StoreTypeOK, Rotate
  <2>. QED
    BY <2>3, <2>4 DEF StoreInv, StoreTypeOK, Rotate, Change, Touch, uses,
       outcomes
<1>2. ProcessShape'
  BY DEF StoreInv, ProcessShape, StoreTypeOK, Rotate, Change, MayRun, uses
<1>3. Origin'
  BY DEF StoreInv, Origin, StoreTypeOK, Rotate, Change, Copies, Readings,
     Empty, outcomes, Files
<1>4. Retirement'
  BY DEF StoreInv, Retirement, StoreTypeOK, Origin, Rotate, Change, Copies,
     Readings, Empty, outcomes, Files
<1>5. Rotation'
  BY DEF StoreInv, Rotation, StoreTypeOK, Origin, Rotate, Change, Copies,
     Readings, Empty, outcomes, Files
<1>6. OffShape'
  <2>1. /\ stored \subseteq stored' /\ ended \subseteq ended'
        /\ rotated \subseteq rotated'
    BY DEF Rotate, Change, outcomes
  <2>2. \A x \in Keys \ ended' : file'[x] = "off" =>
            \/ file[x] = "off"
            \/ \E q \in Procs :
                   /\ keys[q][x] = "off"
                   /\ \A m \in Keys : keys[q][m] # "none" => m \in stored'
    BY DEF Rotate, Change
  <2>3. ASSUME NEW x \in Keys \ ended', NEW q \in Procs, keys'[q][x] = "off"
        PROVE  \/ file[x] = "off"
               \/ /\ keys[q][x] = "off"
                  /\ \A m \in Keys : keys[q][m] # "none" =>
                         keys'[q][m] # "none" \/ m \in ended'
               \/ \E m \in Keys : <<x, m>> \in rotated' /\ keys'[q][m] # "none"
    BY <2>3 DEF StoreInv, StoreTypeOK, Rotate, Change, Copies, Readings, Empty,
       Files
  <2>. QED
    BY <2>1, <2>2, <2>3, OffStep DEF StoreInv
<1>7. CliBeside \/ FileFollowsMemory'
  BY DEF StoreInv, FileFollowsMemory, StoreTypeOK, Rotate, Change
<1>8. UseIsSaved'
  BY DEF StoreInv, UseIsSaved, StoreTypeOK, Rotate, Change, uses, Procs
<1>. QED
  BY <1>1, <1>2, <1>3, <1>4, <1>5, <1>6, <1>7, <1>8 DEF StoreInv

\* A copy is saved as it is: nothing changes but what is next.
LEMMA FlushKeeps ==
    ASSUME StoreInv,
           NEW then \in {"reply", "exit"}, Flush(then)
    PROVE  StoreInv'
<1>1. StoreTypeOK'
  BY DEF StoreInv, StoreTypeOK, Flush, asked, outcomes
<1>2. ProcessShape'
  BY DEF StoreInv, ProcessShape, Flush, MayRun
<1>3. Origin'
  BY DEF StoreInv, Origin, Flush, asked, outcomes
<1>4. Retirement'
  BY DEF StoreInv, Retirement, Flush, outcomes
<1>5. Rotation'
  BY DEF StoreInv, Rotation, Flush, asked, outcomes
<1>6. OffShape'
  <2>1. /\ stored \subseteq stored' /\ ended \subseteq ended'
        /\ rotated \subseteq rotated'
    BY DEF Flush, asked, outcomes
  <2>2. \A x \in Keys \ ended' : file'[x] = "off" =>
            \/ file[x] = "off"
            \/ \E q \in Procs :
                   /\ keys[q][x] = "off"
                   /\ \A m \in Keys : keys[q][m] # "none" => m \in stored'
    BY DEF Flush
  <2>3. ASSUME NEW x \in Keys \ ended', NEW q \in Procs, keys'[q][x] = "off"
        PROVE  \/ file[x] = "off"
               \/ /\ keys[q][x] = "off"
                  /\ \A m \in Keys : keys[q][m] # "none" =>
                         keys'[q][m] # "none" \/ m \in ended'
               \/ \E m \in Keys : <<x, m>> \in rotated' /\ keys'[q][m] # "none"
    BY <2>3 DEF Flush
  <2>. QED
    BY <2>1, <2>2, <2>3, OffStep DEF StoreInv
<1>7. CliBeside \/ FileFollowsMemory'
  BY DEF StoreInv, FileFollowsMemory, Flush
<1>8. UseIsSaved'
  BY DEF StoreInv, UseIsSaved, StoreTypeOK, Flush, Procs
<1>. QED
  BY <1>1, <1>2, <1>3, <1>4, <1>5, <1>6, <1>7, <1>8 DEF StoreInv

\* The copy becomes the file.  Another process has one only if it may work
\* beside: what is said of both copies does not depend on that.
LEMMA SaveKeeps ==
    ASSUME StoreInv,
           NEW p \in Procs, Save(p)
    PROVE  StoreInv'
<1>a. \A q \in Procs : keys'[q] \in {keys[q], Empty}
  BY DEF StoreInv, StoreTypeOK, Save, Returns, Ends
<1>b. \A q \in Procs, k \in Keys : keys'[q][k] \in {keys[q][k], "none"}
  BY <1>a DEF Empty
<1>c. CliBeside \/ \A q \in Procs, k \in Keys : q # p => keys[q][k] = "none"
  BY DEF StoreInv, ProcessShape, Save, Procs, Empty
<1>d. /\ stored' \subseteq Keys /\ retired' \subseteq Keys
      /\ \A k \in Keys : k \in stored' <=> k \in stored \/ keys[p][k] # "none"
      /\ \A k \in Keys : k \in retired' <=>
             k \in retired \/ (k \in stored' /\ keys[p][k] # "on")
  BY DEF StoreInv, StoreTypeOK, Save
<1>e. file' = keys[p] /\ UNCHANGED <<made, ended, rotated>>
  BY DEF Save, asked
<1>1. StoreTypeOK'
  <2>1. CASE after[p] = "exit" \/ (p = "cli" /\ after[p] = "reply")
    <3>1. Empty \in Files /\ keys' = [keys EXCEPT ![p] = Empty]
      BY <2>1 DEF Save, Returns, Ends, Empty, Files
    <3>2. keys' \in [Procs -> Files]
      BY <3>1 DEF StoreInv, StoreTypeOK
    <3>. QED
      BY <2>1, <3>2 DEF StoreInv, StoreTypeOK, Save, Returns, Ends, asked
  <2>2. CASE ~(after[p] = "exit" \/ (p = "cli" /\ after[p] = "reply"))
    BY <2>2 DEF StoreInv, StoreTypeOK, Save, Returns, asked
  <2>. QED
    BY <2>1, <2>2
<1>2. ProcessShape'
  BY DEF StoreInv, ProcessShape, StoreTypeOK, Save, Returns, Ends, Procs
<1>3. Origin'
  BY <1>b, <1>d, <1>e DEF StoreInv, Origin
<1>4. Retirement'
  BY <1>b, <1>c, <1>d, <1>e DEF StoreInv, Retirement
<1>5. Rotation'
  BY <1>b, <1>d, <1>e DEF StoreInv, Rotation
<1>6. OffShape'
  <2>1. /\ stored \subseteq stored' /\ ended \subseteq ended'
        /\ rotated \subseteq rotated'
    BY <1>d, <1>e DEF StoreInv, StoreTypeOK
  <2>2. \A x \in Keys \ ended' : file'[x] = "off" =>
            \/ file[x] = "off"
            \/ \E q \in Procs :
                   /\ keys[q][x] = "off"
                   /\ \A m \in Keys : keys[q][m] # "none" => m \in stored'
    BY <1>d, <1>e
  <2>3. ASSUME NEW x \in Keys \ ended', NEW q \in Procs, keys'[q][x] = "off"
        PROVE  /\ keys[q][x] = "off"
               /\ \A m \in Keys : keys[q][m] # "none" => keys'[q][m] # "none"
    <3>1. keys'[q] = keys[q]
      BY <2>3, <1>a DEF Empty
    <3>. QED
      BY <2>3, <3>1
  <2>. QED
    BY <2>1, <2>2, <2>3, OffStep DEF StoreInv
<1>7. CliBeside \/ FileFollowsMemory'
  BY DEF StoreInv, FileFollowsMemory, ProcessShape, Save, Returns, Ends,
     Procs
<1>8. UseIsSaved'
  BY DEF StoreInv, UseIsSaved, StoreTypeOK, Save, Returns, Ends, Procs
<1>. QED
  BY <1>1, <1>2, <1>3, <1>4, <1>5, <1>6, <1>7, <1>8 DEF StoreInv

\* The server remembers that it is ahead of the file.
LEMMA SaveFailsKeeps ==
    ASSUME StoreInv,
           NEW p \in Procs, SaveFails(p)
    PROVE  StoreInv'
<1>a. \A q \in Procs : keys'[q] \in {keys[q], Empty}
  BY DEF StoreInv, StoreTypeOK, SaveFails, Returns, Ends
<1>b. \A q \in Procs, k \in Keys : keys'[q][k] \in {keys[q][k], "none"}
  BY <1>a DEF Empty
<1>1. StoreTypeOK'
  <2>1. CASE after[p] = "exit" \/ (p = "cli" /\ after[p] = "reply")
    <3>1. Empty \in Files /\ keys' = [keys EXCEPT ![p] = Empty]
      BY <2>1 DEF SaveFails, Returns, Ends, Empty, Files
    <3>2. keys' \in [Procs -> Files]
      BY <3>1 DEF StoreInv, StoreTypeOK
    <3>. QED
      BY <2>1, <3>2 DEF StoreInv, StoreTypeOK, SaveFails, Returns, Ends,
         asked, outcomes
  <2>2. CASE ~(after[p] = "exit" \/ (p = "cli" /\ after[p] = "reply"))
    BY <2>2 DEF StoreInv, StoreTypeOK, SaveFails, Returns, asked, outcomes
  <2>. QED
    BY <2>1, <2>2
<1>2. ProcessShape'
  BY DEF StoreInv, ProcessShape, StoreTypeOK, SaveFails, Returns, Ends, Procs
<1>3. Origin'
  BY <1>b DEF StoreInv, Origin, SaveFails, asked, outcomes
<1>4. Retirement'
  BY <1>b DEF StoreInv, StoreTypeOK, Retirement, SaveFails, outcomes
<1>5. Rotation'
  BY <1>b DEF StoreInv, Rotation, SaveFails, asked, outcomes
<1>6. OffShape'
  <2>1. /\ stored \subseteq stored' /\ ended \subseteq ended'
        /\ rotated \subseteq rotated'
    BY DEF SaveFails, asked, outcomes
  <2>2. \A x \in Keys \ ended' : file'[x] = "off" =>
            \/ file[x] = "off"
            \/ \E q \in Procs :
                   /\ keys[q][x] = "off"
                   /\ \A m \in Keys : keys[q][m] # "none" => m \in stored'
    BY DEF SaveFails
  <2>3. ASSUME NEW x \in Keys \ ended', NEW q \in Procs, keys'[q][x] = "off"
        PROVE  \/ file[x] = "off"
               \/ /\ keys[q][x] = "off"
                  /\ \A m \in Keys : keys[q][m] # "none" =>
                         keys'[q][m] # "none" \/ m \in ended'
               \/ \E m \in Keys : <<x, m>> \in rotated' /\ keys'[q][m] # "none"
    BY <2>3 DEF StoreInv, StoreTypeOK, SaveFails, Returns, Ends, Procs, Empty
  <2>. QED
    BY <2>1, <2>2, <2>3, OffStep DEF StoreInv
<1>7. CliBeside \/ FileFollowsMemory'
  BY DEF StoreInv, FileFollowsMemory, StoreTypeOK, SaveFails, Returns, Ends,
     Procs
<1>8. UseIsSaved'
  BY DEF StoreInv, UseIsSaved, StoreTypeOK, SaveFails, Returns, Ends, Procs
<1>. QED
  BY <1>1, <1>2, <1>3, <1>4, <1>5, <1>6, <1>7, <1>8 DEF StoreInv

\* What was in memory is lost.
LEMMA KilledKeeps ==
    ASSUME StoreInv,
           NEW p \in Procs, Killed(p)
    PROVE  StoreInv'
<1>a. \A q \in Procs : keys'[q] \in {keys[q], Empty}
  BY DEF StoreInv, StoreTypeOK, Killed, Ends
<1>b. \A q \in Procs, k \in Keys : keys'[q][k] \in {keys[q][k], "none"}
  BY <1>a DEF Empty
<1>1. StoreTypeOK'
  BY DEF StoreInv, StoreTypeOK, Killed, Ends, asked, outcomes, Files, Empty
<1>2. ProcessShape'
  BY DEF StoreInv, ProcessShape, StoreTypeOK, Killed, Ends
<1>3. Origin'
  BY <1>b DEF StoreInv, Origin, Killed, asked, outcomes
<1>4. Retirement'
  BY <1>b DEF StoreInv, StoreTypeOK, Retirement, Killed, outcomes
<1>5. Rotation'
  BY <1>b DEF StoreInv, Rotation, Killed, asked, outcomes
<1>6. OffShape'
  <2>1. /\ stored \subseteq stored' /\ ended \subseteq ended'
        /\ rotated \subseteq rotated'
    BY DEF Killed, asked, outcomes
  <2>2. \A x \in Keys \ ended' : file'[x] = "off" =>
            \/ file[x] = "off"
            \/ \E q \in Procs :
                   /\ keys[q][x] = "off"
                   /\ \A m \in Keys : keys[q][m] # "none" => m \in stored'
    BY DEF Killed
  <2>3. ASSUME NEW x \in Keys \ ended', NEW q \in Procs, keys'[q][x] = "off"
        PROVE  \/ file[x] = "off"
               \/ /\ keys[q][x] = "off"
                  /\ \A m \in Keys : keys[q][m] # "none" =>
                         keys'[q][m] # "none" \/ m \in ended'
               \/ \E m \in Keys : <<x, m>> \in rotated' /\ keys'[q][m] # "none"
    BY <2>3 DEF Killed, Ends, Empty
  <2>. QED
    BY <2>1, <2>2, <2>3, OffStep DEF StoreInv
<1>7. CliBeside \/ FileFollowsMemory'
  BY DEF StoreInv, FileFollowsMemory, StoreTypeOK, Killed, Ends, Procs
<1>8. UseIsSaved'
  BY DEF StoreInv, UseIsSaved, StoreTypeOK, Killed, Ends, Procs
<1>. QED
  BY <1>1, <1>2, <1>3, <1>4, <1>5, <1>6, <1>7, <1>8 DEF StoreInv

\* A server that has read nothing.
LEMMA StartServerKeeps ==
    ASSUME StoreInv,
           StartServer
    PROVE  StoreInv'
<1>1. StoreTypeOK'
  BY DEF StoreInv, StoreTypeOK, StartServer, copies, uses, asked, outcomes
<1>2. ProcessShape'
  BY DEF StoreInv, ProcessShape, StartServer, copies, uses
<1>3. Origin'
  BY DEF StoreInv, Origin, StartServer, copies, asked, outcomes
<1>4. Retirement'
  BY DEF StoreInv, Retirement, StartServer, copies, outcomes
<1>5. Rotation'
  BY DEF StoreInv, Rotation, StartServer, copies, asked, outcomes
<1>6. OffShape'
  <2>1. /\ stored \subseteq stored' /\ ended \subseteq ended'
        /\ rotated \subseteq rotated'
    BY DEF StartServer, asked, outcomes
  <2>2. \A x \in Keys \ ended' : file'[x] = "off" =>
            \/ file[x] = "off"
            \/ \E q \in Procs :
                   /\ keys[q][x] = "off"
                   /\ \A m \in Keys : keys[q][m] # "none" => m \in stored'
    BY DEF StartServer
  <2>3. ASSUME NEW x \in Keys \ ended', NEW q \in Procs, keys'[q][x] = "off"
        PROVE  \/ file[x] = "off"
               \/ /\ keys[q][x] = "off"
                  /\ \A m \in Keys : keys[q][m] # "none" =>
                         keys'[q][m] # "none" \/ m \in ended'
               \/ \E m \in Keys : <<x, m>> \in rotated' /\ keys'[q][m] # "none"
    BY <2>3 DEF StartServer, copies
  <2>. QED
    BY <2>1, <2>2, <2>3, OffStep DEF StoreInv
<1>7. CliBeside \/ FileFollowsMemory'
  BY DEF StoreInv, FileFollowsMemory, ProcessShape, StartServer, copies
<1>8. UseIsSaved'
  BY DEF StoreInv, UseIsSaved, ProcessShape, StartServer, uses
<1>. QED
  BY <1>1, <1>2, <1>3, <1>4, <1>5, <1>6, <1>7, <1>8 DEF StoreInv

-----------------------------------------------------------------------------
(* The inductive invariant of the rate limiter, for each key: of the         *)
(* requests that were admitted, a, the entry's count c and end r, the limit  *)
(* L and the time t.                                                         *)

Entry == [at : Nat, opened : Nat]

\* The requests that were admitted, in their windows: these begin with one of
\* them, follow each other, and have no more than the limit.
EntryShape(a, L, t) ==
    /\ \A i \in 1 .. Len(a) :
           a[i].opened <= a[i].at /\ a[i].at < a[i].opened + Window /\ a[i].at <= t
    /\ \A i \in 1 .. Len(a) : \E j \in 1 .. i :
           a[j].at = a[i].opened /\ a[j].opened = a[i].opened
    /\ \A i, j \in 1 .. Len(a) : i <= j => a[i].opened <= a[j].opened
    /\ \A i, j \in 1 .. Len(a) : j = i + L => a[i].opened + Window <= a[j].opened

\* The window there is, and how many of the last requests fell in it.
WindowShape(a, c, r, L, t) ==
    /\ r <= t + Window
    /\ t >= r => \A i \in 1 .. Len(a) : a[i].opened + Window <= t
    /\ t < r =>
           /\ L > 0 /\ c >= 1 /\ r >= Window
           /\ \E j \in 1 .. Len(a) : a[j].at = r - Window /\ a[j].opened = r - Window
           /\ \A i \in 1 .. Len(a) : a[i].opened <= r - Window
           /\ \A i \in 1 .. Len(a) :
                  c <= L /\ i + c <= Len(a) => a[i].opened + 2 * Window <= r

LimiterInv ==
    /\ LimiterTypeOK
    /\ \A k \in Keys :
           /\ EntryShape(admitted[k], Limit[k], now)
           /\ WindowShape(admitted[k], count[k], resetAt[k], Limit[k], now)
           /\ Limit[k] = 0 => admitted[k] = <<>>

-----------------------------------------------------------------------------
(* Each operation of the rate limiter keeps it.                              *)

\* Of the indices of a sequence that has grown by one, one is new.
LEMMA LastIndex ==
    ASSUME NEW n \in Nat, NEW i \in 1 .. n + 1
    PROVE  i \in 1 .. n \/ i = n + 1
OBVIOUS

\* Two windows before the end of one is a window before its beginning.
LEMMA WindowBefore ==
    ASSUME NEW x \in Nat, NEW r \in Nat, x + 2 * Window <= r
    PROVE  x + Window <= r - Window
BY LimiterConstants

\* A request that is admitted is the last of its window, which has room for it
\* or begins with it.
LEMMA AdmitShape ==
    ASSUME NEW a \in Seq(Entry), NEW L \in Nat \ {0}, NEW t \in Nat,
           NEW c \in Nat, NEW r \in Nat, NEW c2 \in Nat, NEW r2 \in Nat,
           EntryShape(a, L, t), WindowShape(a, c, r, L, t),
           t >= r => c2 = 1 /\ r2 = t + Window,
           t < r => c2 = c + 1 /\ r2 = r,
           c2 <= L,
           NEW b \in Seq(Entry), b = Append(a, [at |-> t, opened |-> r2 - Window])
    PROVE  EntryShape(b, L, t) /\ WindowShape(b, c2, r2, L, t)
<1>. DEFINE m == Len(a) + 1
<1>1. Window \in Nat /\ Window > 0 /\ Len(a) \in Nat
  BY LimiterConstants
<1>2. /\ Len(b) = m /\ b[m].at = t /\ b[m].opened = r2 - Window
      /\ \A i \in 1 .. Len(a) : b[i] = a[i]
  OBVIOUS
<1>3. \A i \in 1 .. Len(a) : a[i].at \in Nat /\ a[i].opened \in Nat
  <2>1. ASSUME NEW i \in 1 .. Len(a)
        PROVE  a[i] \in Entry
    BY <2>1
  <2>. QED
    BY <2>1 DEF Entry
<1>4. r2 >= Window /\ r2 > t /\ r2 <= t + Window /\ c2 >= 1
  BY <1>1 DEF WindowShape
<1>5. \A i \in 1 .. Len(a) :
          /\ a[i].opened <= r2 - Window
          /\ i + c2 <= m => a[i].opened + 2 * Window <= r2
  BY <1>1, <1>3 DEF WindowShape
<1>6. \E j \in 1 .. m : b[j].at = r2 - Window /\ b[j].opened = r2 - Window
  <2>1. CASE t >= r
    BY <1>1, <1>2, <2>1
  <2>2. CASE t < r
    BY <1>1, <1>2, <2>2 DEF WindowShape
  <2>. QED
    BY <2>1, <2>2
<1>7. EntryShape(b, L, t)
  <2>1. \A i \in 1 .. m :
            b[i].opened <= b[i].at /\ b[i].at < b[i].opened + Window /\ b[i].at <= t
    BY <1>1, <1>2, <1>4 DEF EntryShape
  <2>2. ASSUME NEW i \in 1 .. m
        PROVE  \E j \in 1 .. i : b[j].at = b[i].opened /\ b[j].opened = b[i].opened
    <3>1. CASE i = m
      BY <1>2, <1>6, <3>1
    <3>2. CASE i \in 1 .. Len(a)
      <4>1. PICK j \in 1 .. i : a[j].at = a[i].opened /\ a[j].opened = a[i].opened
        BY <3>2 DEF EntryShape
      <4>2. j \in 1 .. Len(a)
        BY <1>1, <3>2, <4>1
      <4>3. b[j] = a[j] /\ b[i] = a[i]
        BY <1>2, <3>2, <4>2
      <4>. QED
        BY <4>1, <4>3
    <3>3. i \in 1 .. Len(a) \/ i = m
      BY <1>1, LastIndex
    <3>. QED
      BY <3>1, <3>2, <3>3
  <2>3. \A i, j \in 1 .. m : i <= j => b[i].opened <= b[j].opened
    BY <1>1, <1>2, <1>3, <1>4, <1>5 DEF EntryShape
  <2>4. ASSUME NEW i \in 1 .. m, NEW j \in 1 .. m, j = i + L
        PROVE  b[i].opened + Window <= b[j].opened
    <3>1. CASE j \in 1 .. Len(a)
      <4>1. i \in 1 .. Len(a)
        BY <1>1, <2>4, <3>1
      <4>2. b[i] = a[i] /\ b[j] = a[j]
        BY <1>2, <3>1, <4>1
      <4>. QED
        BY <2>4, <3>1, <4>1, <4>2 DEF EntryShape
    <3>2. CASE j = m
      <4>1. i \in 1 .. Len(a) /\ i + c2 <= m
        BY <1>1, <2>4, <3>2
      <4>2. b[i] = a[i] /\ b[j].opened = r2 - Window
        BY <1>2, <3>2, <4>1
      <4>3. a[i].opened \in Nat /\ a[i].opened + 2 * Window <= r2
        BY <1>3, <1>5, <4>1
      <4>4. a[i].opened + Window <= r2 - Window
        BY <4>3, WindowBefore
      <4>. QED
        BY <4>2, <4>4
    <3>3. j \in 1 .. Len(a) \/ j = m
      BY <1>1, LastIndex
    <3>. QED
      BY <3>1, <3>2, <3>3
  <2>5. Len(b) = m
    BY <1>2
  <2>. QED
    BY <2>1, <2>2, <2>3, <2>4, <2>5 DEF EntryShape
<1>8. WindowShape(b, c2, r2, L, t)
  <2>1. \A i \in 1 .. m : b[i].opened <= r2 - Window
    BY <1>1, <1>2, <1>4, <1>5
  <2>2. \A i \in 1 .. m : i + c2 <= m => b[i].opened + 2 * Window <= r2
    BY <1>1, <1>2, <1>4, <1>5
  <2>3. Len(b) = m
    BY <1>2
  <2>4. L > 0 /\ t < r2 /\ ~(t >= r2)
    BY <1>4
  <2>. QED
    BY <1>4, <1>6, <2>1, <2>2, <2>3, <2>4 DEF WindowShape
<1>. QED
  BY <1>7, <1>8

\* A request that is refused finds its window full.
LEMMA RejectShape ==
    ASSUME NEW a \in Seq(Entry), NEW L \in Nat \ {0}, NEW t \in Nat,
           NEW c \in Nat, NEW r \in Nat, NEW c2 \in Nat,
           WindowShape(a, c, r, L, t), t < r, c2 >= c, c2 > L
    PROVE  WindowShape(a, c2, r, L, t)
<1>1. c2 >= 1 /\ ~(c2 <= L)
  OBVIOUS
<1>. QED
  BY <1>1, Zenon DEF WindowShape

\* A key that is counted.
LEMMA CountKeeps ==
    ASSUME LimiterInv, NEW k \in Keys, Count(k), now' = now
    PROVE  LimiterInv'
<1>. USE ApiKeyConstants, LimiterConstants
<1>. DEFINE e == [at |-> now, opened |-> ResetWith(k) - Window]
<1>1. CASE Limit[k] = 0
  BY <1>1 DEF LimiterInv, LimiterTypeOK, Count, windows
<1>2. CASE Limit[k] # 0
  <2>1. /\ now \in Nat /\ Limit[k] \in Nat \ {0}
        /\ count[k] \in Nat /\ resetAt[k] \in Nat /\ admitted[k] \in Seq(Entry)
        /\ EntryShape(admitted[k], Limit[k], now)
        /\ WindowShape(admitted[k], count[k], resetAt[k], Limit[k], now)
    BY <1>2 DEF LimiterInv, LimiterTypeOK, Entry
  <2>2. /\ CountWith(k) \in Nat /\ ResetWith(k) \in Nat
        /\ now >= resetAt[k] => CountWith(k) = 1 /\ ResetWith(k) = now + Window
        /\ now < resetAt[k] => CountWith(k) >= count[k] /\ ResetWith(k) = resetAt[k]
        /\ now < resetAt[k] /\ CountWith(k) <= Limit[k] => CountWith(k) = count[k] + 1
    BY <2>1 DEF CountWith, ResetWith, Over
  <2>3. /\ count' = [count EXCEPT ![k] = CountWith(k)]
        /\ resetAt' = [resetAt EXCEPT ![k] = ResetWith(k)]
        /\ Within(k) => admitted' = [admitted EXCEPT ![k] = Append(@, e)]
        /\ ~Within(k) => admitted' = admitted
    BY <1>2 DEF Count
  <2>4. ResetWith(k) >= Window
    BY <2>1, <2>2 DEF WindowShape
  <2>5. e \in Entry /\ Append(admitted[k], e) \in Seq(Entry)
    BY <2>1, <2>2, <2>4 DEF Entry
  <2>6. LimiterTypeOK'
    BY <2>1, <2>2, <2>3, <2>5 DEF LimiterInv, LimiterTypeOK, Entry
  <2>7. CASE Within(k)
    <3>1. /\ CountWith(k) <= Limit[k]
          /\ now < resetAt[k] =>
                 CountWith(k) = count[k] + 1 /\ ResetWith(k) = resetAt[k]
      BY <1>2, <2>2, <2>7 DEF Within
    <3>2. /\ EntryShape(Append(admitted[k], e), Limit[k], now)
          /\ WindowShape(Append(admitted[k], e), CountWith(k), ResetWith(k), Limit[k], now)
      <4>1. \A b \in Seq(Entry) :
                b = Append(admitted[k], [at |-> now, opened |-> ResetWith(k) - Window]) =>
                    /\ EntryShape(b, Limit[k], now)
                    /\ WindowShape(b, CountWith(k), ResetWith(k), Limit[k], now)
        <5>1. now >= resetAt[k] => CountWith(k) = 1 /\ ResetWith(k) = now + Window
          BY <2>2
        <5>. QED
          BY <2>1, <2>2, <3>1, <5>1, AdmitShape
      <4>. QED
        BY <2>5, <4>1
    <3>3. \A x \in Keys : admitted'[x] =
              IF x = k THEN Append(admitted[k], e) ELSE admitted[x]
      BY <2>3, <2>7 DEF LimiterInv, LimiterTypeOK
    <3>4. \A x \in Keys :
              /\ count'[x] = IF x = k THEN CountWith(k) ELSE count[x]
              /\ resetAt'[x] = IF x = k THEN ResetWith(k) ELSE resetAt[x]
      BY <2>3 DEF LimiterInv, LimiterTypeOK
    <3>. QED
      BY <1>2, <2>6, <3>2, <3>3, <3>4, Zenon DEF LimiterInv
  <2>8. CASE ~Within(k)
    <3>1. CountWith(k) > Limit[k] /\ now < resetAt[k] /\ ResetWith(k) = resetAt[k]
      BY <2>1, <2>2, <2>8 DEF Within
    <3>2. WindowShape(admitted[k], CountWith(k), ResetWith(k), Limit[k], now)
      BY <2>1, <2>2, <3>1, RejectShape
    <3>3. admitted' = admitted
      BY <2>3, <2>8
    <3>4. \A x \in Keys :
              /\ count'[x] = IF x = k THEN CountWith(k) ELSE count[x]
              /\ resetAt'[x] = IF x = k THEN ResetWith(k) ELSE resetAt[x]
      BY <2>3 DEF LimiterInv, LimiterTypeOK
    <3>. QED
      BY <1>2, <2>6, <3>2, <3>3, <3>4, Zenon DEF LimiterInv
  <2>. QED
    BY <2>7, <2>8
<1>. QED
  BY <1>1, <1>2

\* The entries of windows that are over say nothing.
LEMMA SweepKeeps ==
    ASSUME LimiterInv, Sweep
    PROVE  LimiterInv'
<1>1. LimiterTypeOK'
  BY DEF LimiterInv, LimiterTypeOK, Sweep
<1>2. ASSUME NEW k \in Keys
      PROVE  WindowShape(admitted[k], count'[k], resetAt'[k], Limit[k], now)
  <2>1. WindowShape(admitted[k], count[k], resetAt[k], Limit[k], now)
    BY DEF LimiterInv
  <2>2. CASE k \in Swept
    <3>1. count'[k] = 0 /\ resetAt'[k] = 0 /\ now >= resetAt[k] /\ now \in Nat
      BY <2>2 DEF LimiterInv, LimiterTypeOK, Sweep, Swept, Over
    <3>2. 0 <= now + Window /\ now >= 0 /\ ~(now < 0)
      BY <3>1, LimiterConstants
    <3>. QED
      BY <2>1, <3>1, <3>2, Zenon DEF WindowShape
  <2>3. CASE k \notin Swept
    BY <2>1, <2>3 DEF Sweep
  <2>. QED
    BY <2>2, <2>3
<1>3. admitted' = admitted /\ now' = now
  BY DEF Sweep
<1>. QED
  BY <1>1, <1>2, <1>3, Zenon DEF LimiterInv

\* A window that ends now is over.
LEMMA TickShape ==
    ASSUME NEW a \in Seq(Entry), NEW L \in Nat, NEW t \in Nat,
           NEW c \in Nat, NEW r \in Nat,
           EntryShape(a, L, t), WindowShape(a, c, r, L, t)
    PROVE  EntryShape(a, L, t + 1) /\ WindowShape(a, c, r, L, t + 1)
<1>. USE LimiterConstants
<1>1. \A i \in 1 .. Len(a) : a[i].at \in Nat /\ a[i].opened \in Nat
  <2>1. ASSUME NEW i \in 1 .. Len(a)
        PROVE  a[i] \in Entry
    BY <2>1
  <2>. QED
    BY <2>1 DEF Entry
<1>2. EntryShape(a, L, t + 1)
  <2>1. \A i \in 1 .. Len(a) : a[i].at <= t + 1
    BY <1>1 DEF EntryShape
  <2>. QED
    BY <2>1, Zenon DEF EntryShape
<1>3. CASE t >= r
  <2>1. \A i \in 1 .. Len(a) : a[i].opened + Window <= t + 1
    BY <1>1, <1>3 DEF WindowShape
  <2>2. ~(t + 1 < r) /\ r <= t + 1 + Window
    BY <1>3
  <2>. QED
    BY <1>2, <2>1, <2>2, Zenon DEF WindowShape
<1>4. CASE t < r
  <2>1. t + 1 >= r => \A i \in 1 .. Len(a) : a[i].opened + Window <= t + 1
    BY <1>1, <1>4 DEF WindowShape
  <2>2. r <= t + 1 + Window
    BY DEF WindowShape
  <2>. QED
    BY <1>2, <1>4, <2>1, <2>2, Zenon DEF WindowShape
<1>. QED
  BY <1>3, <1>4

\* The passing of time keeps the limiter's invariant.
LEMMA TickKeeps ==
    ASSUME LimiterInv, Tick
    PROVE  LimiterInv'
<1>1. LimiterTypeOK' /\ now' = now + 1 /\ UNCHANGED windows
  BY DEF LimiterInv, LimiterTypeOK, Tick, windows
<1>2. ASSUME NEW k \in Keys
      PROVE  /\ EntryShape(admitted[k], Limit[k], now + 1)
             /\ WindowShape(admitted[k], count[k], resetAt[k], Limit[k], now + 1)
  BY TickShape, ApiKeyConstants DEF LimiterInv, LimiterTypeOK, Entry
<1>. QED
  BY <1>1, <1>2, Zenon DEF LimiterInv, windows

\* Nothing is counted of a key that has not been used.
LEMMA NewShape ==
    ASSUME NEW L \in Nat, NEW t \in Nat
    PROVE  EntryShape(<<>>, L, t) /\ WindowShape(<<>>, 0, 0, L, t)
BY LimiterConstants DEF EntryShape, WindowShape

\* A new server, without windows, has the limiter's invariant.
LEMMA NoWindowsKeeps ==
    ASSUME LimiterInv, NoWindows, now' = now
    PROVE  LimiterInv'
<1>1. LimiterTypeOK' /\ now \in Nat
  BY DEF LimiterInv, LimiterTypeOK, NoWindows
<1>2. \A k \in Keys : admitted'[k] = <<>> /\ count'[k] = 0 /\ resetAt'[k] = 0
  BY DEF NoWindows
<1>. QED
  BY <1>1, <1>2, NewShape, ApiKeyConstants DEF LimiterInv

-----------------------------------------------------------------------------
(* The invariant.                                                            *)

AuthInv == StoreInv /\ LimiterInv

\* What leaves the key store alone keeps its invariant.
LEMMA StoreStutter ==
    ASSUME StoreInv, UNCHANGED storeVars
    PROVE  StoreInv'
<1>. USE DEF StoreInv, storeVars, copies, uses, asked, outcomes
<1>1. StoreTypeOK'
  BY DEF StoreTypeOK
<1>2. ProcessShape'
  BY DEF ProcessShape
<1>3. Origin' /\ Retirement'
  BY DEF Origin, Retirement
<1>4. Rotation'
  BY DEF Rotation
<1>5. OffShape'
  BY Zenon DEF OffShape
<1>6. UseIsSaved' /\ (CliBeside \/ FileFollowsMemory')
  BY DEF FileFollowsMemory, UseIsSaved
<1>. QED
  BY <1>1, <1>2, <1>3, <1>4, <1>5, <1>6

\* What leaves the rate limiter alone keeps its invariant.
LEMMA LimiterStutter ==
    ASSUME LimiterInv, UNCHANGED limiterVars
    PROVE  LimiterInv'
BY DEF LimiterInv, LimiterTypeOK, limiterVars, windows

\* Both invariants hold at first.
LEMMA AuthInit ==
    ASSUME Init
    PROVE  AuthInv
<1>1. StoreInv
  BY DEF Init, StoreInit, StoreInv, StoreTypeOK, ProcessShape, Origin,
         Retirement, Rotation, OffShape, FileFollowsMemory, UseIsSaved, Procs,
         Files, Empty
<1>2. LimiterTypeOK /\ now = 0
  BY DEF Init, LimiterInit, LimiterTypeOK
<1>3. \A k \in Keys : admitted[k] = <<>> /\ count[k] = 0 /\ resetAt[k] = 0
  BY DEF Init, LimiterInit
<1>4. LimiterInv
  BY <1>2, <1>3, NewShape, ApiKeyConstants DEF LimiterInv
<1>. QED
  BY <1>1, <1>4 DEF AuthInv

\* A request keeps the invariant: what it does to the key store, and its count.
LEMMA RequestKeeps ==
    ASSUME AuthInv, NEW k \in Keys, Request(k)
    PROVE  AuthInv'
<1>0. StoreInv /\ LimiterInv /\ "server" \in Procs
  BY DEF AuthInv, Procs
<1>1. ASSUME NEW copy \in Copies("server"), NEW scope,
             Refused(copy, k, scope)
      PROVE  AuthInv'
  BY <1>0, <1>1, LookKeeps, LimiterStutter DEF Refused, AuthInv
<1>2. ASSUME NEW copy \in Copies("server"), NEW scope,
             RateLimited(copy, k, scope)
      PROVE  AuthInv'
  BY <1>0, <1>2, LookKeeps, CountKeeps DEF RateLimited, AuthInv
<1>3. ASSUME NEW copy \in Copies("server"), NEW scope,
             Admitted(copy, k, scope)
      PROVE  LimiterInv' /\ Touch
  BY <1>0, <1>3, CountKeeps DEF Admitted
<1>4. ASSUME NEW copy \in Copies("server"), NEW scope,
             Passes(copy, k, scope)
      PROVE  AuthInv'
  BY <1>0, <1>3, <1>4, LookKeeps DEF Passes, AuthInv
<1>5. ASSUME NEW copy \in Copies("server"), NEW n \in Keys,
             AdminCreates(copy, k, n)
      PROVE  AuthInv'
  BY <1>0, <1>3, <1>5, CreateKeeps DEF AdminCreates, AuthInv
<1>6. ASSUME NEW copy \in Copies("server"), NEW n \in Keys,
             AdminRevokes(copy, k, n)
      PROVE  AuthInv'
  BY <1>0, <1>3, <1>6, RevokeKeeps DEF AdminRevokes, AuthInv
<1>7. ASSUME NEW copy \in Copies("server"), NEW n \in Keys,
             AdminDeletes(copy, k, n)
      PROVE  AuthInv'
  BY <1>0, <1>3, <1>7, DeleteKeeps DEF AdminDeletes, AuthInv
<1>8. ASSUME NEW copy \in Copies("server"), NEW o \in Keys, NEW n \in Keys,
             AdminRotates(copy, k, o, n)
      PROVE  AuthInv'
  BY <1>0, <1>3, <1>8, RotateKeeps DEF AdminRotates, AuthInv
<1>. QED
  BY <1>1, <1>2, <1>4, <1>5, <1>6, <1>7, <1>8 DEF Request

\* The command line keeps the invariant, which has nothing of the limiter.
LEMMA CliKeeps ==
    ASSUME AuthInv, Cli
    PROVE  AuthInv'
<1>0. StoreInv /\ LimiterInv /\ "cli" \in Procs
  BY DEF AuthInv, Procs
<1>1. ASSUME NEW copy \in Copies("cli"), NEW k \in Keys,
             CliCreates(copy, k)
      PROVE  AuthInv'
  BY <1>0, <1>1, CreateKeeps, LimiterStutter DEF CliCreates, CliOnly, AuthInv
<1>2. ASSUME NEW copy \in Copies("cli"), NEW k \in Keys,
             CliRevokes(copy, k)
      PROVE  AuthInv'
  BY <1>0, <1>2, RevokeKeeps, LimiterStutter DEF CliRevokes, CliOnly, AuthInv
<1>3. ASSUME NEW copy \in Copies("cli"), NEW k \in Keys,
             CliDeletes(copy, k)
      PROVE  AuthInv'
  BY <1>0, <1>3, DeleteKeeps, LimiterStutter DEF CliDeletes, CliOnly, AuthInv
<1>4. ASSUME NEW copy \in Copies("cli"), NEW k \in Keys, NEW n \in Keys,
             CliRotates(copy, k, n)
      PROVE  AuthInv'
  BY <1>0, <1>4, RotateKeeps, LimiterStutter DEF CliRotates, CliOnly, AuthInv
<1>. QED
  BY <1>1, <1>2, <1>3, <1>4 DEF Cli

\* The steps of a save, and what begins one, keep the invariant.
LEMMA SavesKeep ==
    ASSUME StoreInv, Saves
    PROVE  StoreInv'
<1>1. ASSUME NEW p \in Procs, SaveStep(p)
      PROVE  StoreInv'
  BY <1>1, SaveKeeps, SaveFailsKeeps, KilledKeeps DEF SaveStep
<1>2. CASE DelayedSave
  BY <1>2, FlushKeeps DEF DelayedSave
<1>3. CASE FlushKeys
  BY <1>3, FlushKeeps DEF FlushKeys
<1>. QED
  BY <1>1, <1>2, <1>3 DEF Saves

\* Every step keeps the invariant.
LEMMA AuthStep ==
    ASSUME AuthInv, [Next]_vars
    PROVE  AuthInv'
<1>0. StoreInv /\ LimiterInv
  BY DEF AuthInv
<1>1. ASSUME NEW k \in Keys, Request(k)
      PROVE  AuthInv'
  BY <1>1, RequestKeeps
<1>2. CASE Cli
  BY <1>2, CliKeeps
<1>3. CASE Starts
  BY <1>0, <1>3, StartServerKeeps, NoWindowsKeeps DEF Starts, AuthInv
<1>4. CASE Saves /\ UNCHANGED limiterVars
  BY <1>0, <1>4, SavesKeep, LimiterStutter DEF AuthInv
<1>5. CASE Sweep /\ UNCHANGED storeVars
  BY <1>0, <1>5, StoreStutter, SweepKeeps DEF AuthInv
<1>6. CASE Tick /\ UNCHANGED storeVars
  BY <1>0, <1>6, StoreStutter, TickKeeps DEF AuthInv
<1>7. CASE UNCHANGED vars
  BY <1>0, <1>7, StoreStutter, LimiterStutter DEF vars, AuthInv
<1>. QED
  BY <1>1, <1>2, <1>3, <1>4, <1>5, <1>6, <1>7 DEF Next

\* The invariant holds in every state.
LEMMA AuthAlways == Spec => []AuthInv
<1>1. Init => AuthInv
  BY AuthInit
<1>2. AuthInv /\ [Next]_vars => AuthInv'
  BY AuthStep
<1>. QED
  BY <1>1, <1>2, PTL DEF Spec

-----------------------------------------------------------------------------
(* What the invariant is for.                                                *)

\* A retired key is in no copy as on, so it is not accepted.
LEMMA NoRevivalHolds ==
    ASSUME CliBeside = FALSE, StoreInv
    PROVE  NoRevival
BY DEF StoreInv, StoreTypeOK, Retirement, NoRevival, Accepts, Copies, Readings,
   Empty, Procs

\* Rotation is one step by the parts of the invariant about it.
LEMMA RotationHolds ==
    ASSUME StoreInv
    PROVE  RotationIsOneStep
<1>1. ASSUME NEW k \in stored, NEW n \in stored, <<k, n>> \in rotated
      PROVE  k \in retired
  BY <1>1 DEF StoreInv, StoreTypeOK, Rotation
<1>2. \A k \in Keys \ ended :
          file[k] = "off" => \E n \in stored \cup ended : <<k, n>> \in rotated
  BY DEF StoreInv, OffShape
<1>. QED
  BY <1>1, <1>2, Zenon DEF RotationIsOneStep

\* Times that are in order, two of them a window apart.
LEMMA Apart ==
    ASSUME NEW v \in Nat, NEW w \in Nat, NEW x \in Nat, NEW y \in Nat, NEW z \in Nat,
           v <= w, w + Window <= x, x <= y, y <= z
    PROVE  z - v >= Window
BY LimiterConstants

\* A time in one window is before the beginning of the next.
LEMMA Before ==
    ASSUME NEW x \in Nat, NEW y \in Nat, NEW z \in Nat,
           x < y + Window, y + Window <= z
    PROVE  x <= z
BY LimiterConstants

\* The second request of a burst of twice the limit is in another window than
\* the first, and the last in another than that, or the first began its own.
LEMMA BurstShape ==
    ASSUME NEW a \in Seq(Entry), NEW L \in Nat \ {0}, NEW t \in Nat,
           EntryShape(a, L, t),
           NEW i \in 1 .. Len(a), NEW j \in 1 .. Len(a), j = i + 2 * L - 1
    PROVE  a[j].at - a[i].at >= Window
<1>1. Window \in Nat /\ Window > 0 /\ Len(a) \in Nat
  BY LimiterConstants
<1>2. \A x \in 1 .. Len(a) : a[x].at \in Nat /\ a[x].opened \in Nat
  <2>1. ASSUME NEW x \in 1 .. Len(a)
        PROVE  a[x] \in Entry
    BY <2>1
  <2>. QED
    BY <2>1 DEF Entry
<1>3. PICK f \in 1 .. i : a[f].at = a[i].opened /\ a[f].opened = a[i].opened
  BY DEF EntryShape
<1>4. f \in 1 .. Len(a) /\ f + L \in 1 .. Len(a) /\ i + L \in 1 .. Len(a)
  BY <1>1, <1>3
<1>5. a[f].opened + Window <= a[f + L].opened
  BY <1>4 DEF EntryShape
<1>6. a[j].opened <= a[j].at /\ a[i].at < a[i].opened + Window
  BY DEF EntryShape
<1>7. CASE f = i
  <2>1. a[i + L].opened <= a[j].opened
    BY <1>1, <1>4 DEF EntryShape
  <2>2. a[i].at + Window <= a[i + L].opened
    BY <1>3, <1>5, <1>7
  <2>3. /\ a[i].at \in Nat /\ a[j].at \in Nat
        /\ a[j].opened \in Nat /\ a[i + L].opened \in Nat
    BY <1>2, <1>4
  <2>4. a[i].at <= a[i].at
    BY <2>3
  <2>. QED
    BY <1>6, <2>1, <2>2, <2>3, <2>4, Apart
<1>8. CASE f # i
  <2>1. f + L + L \in 1 .. Len(a) /\ f + L + L <= j
    BY <1>1, <1>3, <1>8
  <2>2. a[f + L].opened + Window <= a[f + L + L].opened
    BY <1>4, <2>1 DEF EntryShape
  <2>3. a[f + L + L].opened <= a[j].opened
    BY <2>1 DEF EntryShape
  <2>4. /\ a[i].at \in Nat /\ a[j].at \in Nat /\ a[j].opened \in Nat
        /\ a[f].opened \in Nat /\ a[f + L].opened \in Nat
        /\ a[f + L + L].opened \in Nat
    BY <1>2, <1>4, <2>1
  <2>5. a[i].at <= a[f + L].opened
    BY <1>3, <1>5, <1>6, <2>4, Before
  <2>. QED
    BY <1>6, <2>2, <2>3, <2>4, <2>5, Apart
<1>. QED
  BY <1>7, <1>8

\* The bound on bursts, for every key.
LEMMA BurstHolds ==
    ASSUME LimiterInv
    PROVE  BurstBound
<1>. SUFFICES ASSUME NEW k \in Keys, NEW i \in DOMAIN admitted[k],
                     NEW j \in DOMAIN admitted[k], j = i + 2 * Limit[k] - 1
              PROVE  admitted[k][j].at - admitted[k][i].at >= Window
  BY DEF BurstBound
<1>1. /\ admitted[k] \in Seq(Entry) /\ now \in Nat /\ Limit[k] \in Nat
      /\ EntryShape(admitted[k], Limit[k], now)
      /\ Limit[k] = 0 => admitted[k] = <<>>
  BY ApiKeyConstants DEF LimiterInv, LimiterTypeOK, Entry
<1>2. Limit[k] # 0 /\ i \in 1 .. Len(admitted[k]) /\ j \in 1 .. Len(admitted[k])
  BY <1>1
<1>. QED
  BY <1>1, <1>2, BurstShape

\* After the length of a window without admissions there is room.
LEMMA RetryHolds ==
    ASSUME LimiterInv
    PROVE  RetryAfterSuffices
<1>. SUFFICES ASSUME NEW k \in Keys, Limit[k] > 0,
                     \A i \in DOMAIN admitted[k] : now - admitted[k][i].at >= Window
              PROVE  Within(k)
  BY DEF RetryAfterSuffices
<1>1. /\ admitted[k] \in Seq(Entry) /\ now \in Nat /\ Limit[k] \in Nat
      /\ resetAt[k] \in Nat /\ Window \in Nat
      /\ WindowShape(admitted[k], count[k], resetAt[k], Limit[k], now)
  BY ApiKeyConstants, LimiterConstants DEF LimiterInv, LimiterTypeOK, Entry
<1>2. CASE now >= resetAt[k]
  BY <1>1, <1>2 DEF Within, CountWith, Over
<1>3. CASE now < resetAt[k]
  <2>1. PICK j \in 1 .. Len(admitted[k]) : admitted[k][j].at = resetAt[k] - Window
    BY <1>1, <1>3 DEF WindowShape
  <2>2. now - admitted[k][j].at >= Window
    BY <1>1, <2>1
  <2>. QED
    BY <1>1, <1>3, <2>1, <2>2
<1>. QED
  BY <1>1, <1>2, <1>3


\* Every variable of the key store and the rate limiter keeps its type.
THEOREM TypeCorrect == Spec => []TypeOK
<1>1. AuthInv => TypeOK
  BY DEF AuthInv, StoreInv, LimiterInv, TypeOK
<1>. QED
  BY <1>1, AuthAlways, PTL

\* What a server that has loaded its keys accepts is what the file says,
\* unless it is saving, or it could not read the file, or could not save it
\* and has not done so since (loadKeys, saveKeys).  Reads may fail.
THEOREM FileIsMemory ==
    ASSUME CliBeside = FALSE
    PROVE  Spec => []FileFollowsMemory
<1>1. AuthInv => FileFollowsMemory
  BY DEF AuthInv, StoreInv
<1>. QED
  BY <1>1, AuthAlways, PTL

\* A key that was off or gone in the file is never accepted or on again.
THEOREM RevokedStaysRevoked ==
    ASSUME CliBeside = FALSE
    PROVE  Spec => []NoRevival
<1>1. AuthInv => NoRevival
  BY NoRevivalHolds DEF AuthInv
<1>. QED
  BY <1>1, AuthAlways, PTL

\* A rotation is in the file as a whole or not at all (rotateKey).
THEOREM RotationIsAtomic == Spec => []RotationIsOneStep
<1>1. AuthInv => RotationIsOneStep
  BY RotationHolds DEF AuthInv
<1>. QED
  BY <1>1, AuthAlways, PTL

\* A noted use has a timer, a save or a failed save (touchKey, flushKeys).
THEOREM EveryUseSaved == Spec => []UseIsSaved
<1>1. AuthInv => UseIsSaved
  BY DEF AuthInv, StoreInv
<1>. QED
  BY <1>1, AuthAlways, PTL

\* Less than twice the limit is admitted within the length of a window,
\* whatever the limit and the length (checkRateLimit).
THEOREM BurstIsBounded == Spec => []BurstBound
<1>1. AuthInv => BurstBound
  BY BurstHolds DEF AuthInv
<1>. QED
  BY <1>1, AuthAlways, PTL

\* A window's length after the last admitted request, the next is admitted.
THEOREM WaitingIsEnough == Spec => []RetryAfterSuffices
<1>1. AuthInv => RetryAfterSuffices
  BY RetryHolds DEF AuthInv
<1>. QED
  BY <1>1, AuthAlways, PTL
=============================================================================
