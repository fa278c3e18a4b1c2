------------------------------ MODULE KeyStore ------------------------------
(*****************************************************************************)
(* The API keys (auth/key-store.ts): one file, and two kinds of process that *)
(* work on a copy of it in memory, the server and the command line           *)
(* (auth/cli.ts).  Auth says when the server does what.                      *)
(*                                                                           *)
(* A process reads the file once.  The command line does so each time it     *)
(* runs, the server before the first request that presents a key.  What it   *)
(* cannot read or parse it takes for no keys.  Every change rewrites the     *)
(* whole file: a temporary file, then its renaming.  Either may fail, which  *)
(* is logged and otherwise ignored, and the process may be killed before the *)
(* renaming.                                                                 *)
(*                                                                           *)
(* Simplifications.  A record is its status: what does not change is in      *)
(* ApiKey.  The temporary file matters to no one but the process that has    *)
(* written it: not so if two of them save at the very same time.             *)
(*****************************************************************************)
EXTENDS ApiKey

CONSTANTS
    CliBeside, \* whether the command line is used while the server runs
    ReadsFail  \* whether reading or parsing the file may fail

ASSUME StoreConstants == CliBeside \in BOOLEAN /\ ReadsFail \in BOOLEAN

Procs == {"server", "cli"}
Files == [Keys -> {"none", "on", "off"}]
Empty == [k \in Keys |-> "none"]

VARIABLES
    up,        \* the server runs
    loaded,    \* its `loaded'
    keys,      \* `keys' of each process
    saving,    \* whether each process is in saveKeys
    after,     \* what each process does when it has saved
    behind,    \* the server's loadKeys failed, or else its last saveKeys
    used,      \* whether it has noted a use of a key that it did not save
    saveTimer, \* `saveTimer' of the server
    file,      \* the file
    made,      \* history: the keys that were created
    ended,     \* history: the keys that someone revoked or deleted
    rotated,   \* history: pairs of a key that was on and its replacement
    stored,    \* history: the keys the file ever held
    retired    \* history: those the file then held no longer, or as off

copies    == <<loaded, keys, saving, after, behind>>
uses      == <<used, saveTimer>>
asked     == <<made, ended, rotated>>
outcomes  == <<stored, retired>>
storeVars == <<up, copies, uses, file, asked, outcomes>>

StoreTypeOK ==
    /\ up \in BOOLEAN /\ loaded \in BOOLEAN /\ behind \in BOOLEAN
    /\ keys \in [Procs -> Files]
    /\ saving \in [Procs -> BOOLEAN]
    /\ after \in [Procs -> {"reply", "again", "exit"}]
    /\ used \in BOOLEAN /\ saveTimer \in BOOLEAN
    /\ file \in Files
    /\ made \subseteq Keys /\ ended \subseteq Keys
    /\ rotated \subseteq Keys \X Keys
    /\ stored \subseteq Keys /\ retired \subseteq Keys

StoreInit ==
    /\ up = FALSE /\ loaded = FALSE /\ behind = FALSE
    /\ keys = [p \in Procs |-> Empty]
    /\ saving = [p \in Procs |-> FALSE]
    /\ after = [p \in Procs |-> "reply"]
    /\ used = FALSE /\ saveTimer = FALSE
    /\ file = Empty
    /\ made = {} /\ ended = {} /\ rotated = {}
    /\ stored = {} /\ retired = {}

-----------------------------------------------------------------------------
(* Operations on the copy in memory.                                         *)

\* What loadKeys may leave in memory: the file, or no key if that fails.
Readings == {file} \cup (IF ReadsFail THEN {Empty} ELSE {})

\* What `keys' may be after the `if (!loaded) loadKeys()' that begins all of
\* them.  A request, or a run of the command line, has one such copy.
Copies(p) == IF p = "server" /\ loaded THEN {keys[p]} ELSE Readings

\* The process is there, and saves nothing: both run to the end of a save
\* before anything else.
MayRun(p) ==
    /\ ~saving[p]
    /\ IF p = "server" THEN up ELSE up => CliBeside

\* The copy is changed, and saveKeys called.
Change(p, copy, then) ==
    /\ MayRun(p)
    /\ keys' = [keys EXCEPT ![p] = copy]
    /\ loaded' = (loaded \/ p = "server")
    /\ saving' = [saving EXCEPT ![p] = TRUE]
    /\ after' = [after EXCEPT ![p] = then]
    /\ UNCHANGED <<up, behind, file, outcomes>>

\* An operation that changes nothing: listKeys, verifyKey, an unknown id.
Look(copy) ==
    /\ MayRun("server")
    /\ keys' = [keys EXCEPT !["server"] = copy]
    /\ loaded' = TRUE
    /\ behind' = IF loaded THEN behind ELSE copy # file
    /\ UNCHANGED <<up, saving, after, file, asked, outcomes>>

\* Mutation of Create: an id is free again when its key was deleted.
CreateReused(p, copy, k) ==
    /\ copy[k] = "none"
    /\ Change(p, [copy EXCEPT ![k] = "on"], "reply")
    /\ made' = made \cup {k}
    /\ UNCHANGED <<ended, rotated>>

\* createKey
Create(p, copy, k) ==
    /\ k \notin made
    /\ Change(p, [copy EXCEPT ![k] = "on"], "reply")
    /\ made' = made \cup {k}
    /\ UNCHANGED <<ended, rotated>>

\* revokeKey
Revoke(p, copy, k) ==
    /\ copy[k] # "none"
    /\ Change(p, [copy EXCEPT ![k] = "off"], "reply")
    /\ ended' = ended \cup {k}
    /\ UNCHANGED <<made, rotated>>

\* deleteKey
Delete(p, copy, k) ==
    /\ copy[k] # "none"
    /\ Change(p, [copy EXCEPT ![k] = "none"], "reply")
    /\ ended' = ended \cup {k}
    /\ UNCHANGED <<made, rotated>>

\* Mutation of Rotate: the old key is turned off after the new one is saved.
RotateLater(p, copy, k, n) ==
    /\ n \notin made /\ SameRights(k, n)
    /\ copy[k] # "none"
    /\ Change(p, [copy EXCEPT ![n] = "on"], "again")
    /\ made' = made \cup {n}
    /\ rotated' = IF copy[k] = "on" THEN rotated \cup {<<k, n>>} ELSE rotated
    /\ UNCHANGED ended

\* rotateKey, for a key that is there: createKey saves both changes, and they are saved again.
Rotate(p, copy, k, n) ==
    /\ n \notin made /\ SameRights(k, n)
    /\ copy[k] # "none"
    /\ Change(p, [copy EXCEPT ![k] = "off", ![n] = "on"], "again")
    /\ made' = made \cup {n}
    /\ rotated' = IF copy[k] = "on" THEN rotated \cup {<<k, n>>} ELSE rotated
    /\ UNCHANGED ended

\* Mutation of Touch: the timer is left out.
TouchOnly == used' = TRUE /\ UNCHANGED saveTimer

\* touchKey: the use is noted, to be saved within 5 s.
Touch == used' = TRUE /\ saveTimer' = TRUE

\* saveKeys of what there is in memory, loaded or not.
Flush(then) ==
    /\ MayRun("server")
    /\ saving' = [saving EXCEPT !["server"] = TRUE]
    /\ after' = [after EXCEPT !["server"] = then]
    /\ saveTimer' = FALSE
    /\ UNCHANGED <<up, loaded, keys, behind, used, file, asked, outcomes>>

\* The timer of touchKey.
DelayedSave == saveTimer /\ Flush("reply")

\* flushKeys, at the end of a graceful shutdown.
FlushKeys == Flush("exit")

-----------------------------------------------------------------------------
(* saveKeys, in steps, and the ends of the processes.                        *)

\* Nothing of the process is left but its files.
Ends(p) ==
    /\ keys' = [keys EXCEPT ![p] = Empty]
    /\ saving' = [saving EXCEPT ![p] = FALSE]
    /\ after' = [after EXCEPT ![p] = "reply"]
    /\ IF p = "server"
       THEN /\ up' = FALSE /\ loaded' = FALSE /\ behind' = FALSE
            /\ used' = FALSE /\ saveTimer' = FALSE
       ELSE UNCHANGED <<up, loaded, behind, used, saveTimer>>

\* saveKeys returns, whether it has saved or not: the second save of rotateKey,
\* or the end of the operation.  The command line ends with it.
Returns(p, ok) ==
    IF after[p] = "exit" \/ (p = "cli" /\ after[p] = "reply")
    THEN Ends(p)
    ELSE /\ saving' = [saving EXCEPT ![p] = after[p] = "again"]
         /\ after' = [after EXCEPT ![p] = "reply"]
         /\ behind' = IF p = "server" THEN ~ok ELSE behind
         /\ used' = IF p = "server" /\ ok THEN FALSE ELSE used
         /\ UNCHANGED <<up, loaded, keys, saveTimer>>

\* writeFileSync of a temporary file and renameSync: all of `keys' is the file.
Save(p) ==
    /\ saving[p]
    /\ file' = keys[p]
    /\ Returns(p, TRUE)
    /\ stored' = stored \cup {k \in Keys : file'[k] # "none"}
    /\ retired' = retired \cup {k \in stored' : file'[k] # "on"}
    /\ UNCHANGED asked

\* Mutation of SaveFails: the failure is forgotten.
SaveFailsUnnoticed(p) ==
    /\ saving[p]
    /\ Returns(p, TRUE)
    /\ UNCHANGED <<file, asked, outcomes>>

\* One of the two fails.
SaveFails(p) ==
    /\ saving[p]
    /\ Returns(p, FALSE)
    /\ UNCHANGED <<file, asked, outcomes>>

\* The process is killed, or the server's 30 s of shutdown are over.
Killed(p) ==
    /\ IF p = "server" THEN up ELSE saving[p]
    /\ Ends(p)
    /\ UNCHANGED <<file, asked, outcomes>>

\* The server is started: it reads no key yet.
StartServer ==
    /\ ~up
    /\ ~saving["cli"] \/ CliBeside
    /\ up' = TRUE
    /\ UNCHANGED <<copies, uses, file, asked, outcomes>>

SaveStep(p) == Save(p) \/ SaveFails(p) \/ Killed(p)

-----------------------------------------------------------------------------
(* Properties.  FileFollowsMemory and NoRevival are of servers that have the *)
(* file for themselves while they run.  RotationIsOneStep and UseIsSaved do  *)
(* not depend on that.  What the last two say is not so.                     *)

\* The server accepts the key, if it has not expired: verifyKey.
Accepts(k) == up /\ \E copy \in Copies("server") : copy[k] = "on"

\* What the server accepts is what the file says, unless it could not read it,
\* or could not save and has not done so since (key-store.ts:35-62).
FileFollowsMemory ==
    up /\ loaded /\ ~saving["server"] /\ ~behind => keys["server"] = file

\* A key that was off or gone in the file is never accepted again, nor on in
\* the file, through crashes within a save, failed saves and the delayed save
\* of a use (key-store.ts:122-163).
NoRevival == \A k \in retired : file[k] # "on" /\ ~Accepts(k)

\* Rotation is one change of the file, wherever the crash came: with the
\* replacement in it, the key is never on again, and no key is off that was not
\* ended, without its replacement having been there (key-store.ts:170-179).
RotationIsOneStep ==
    /\ \A k, n \in stored : <<k, n>> \in rotated => k \in retired
    /\ \A k \in Keys \ ended :
           file[k] = "off" => \E n \in stored \cup ended : <<k, n>> \in rotated

\* A use that was noted is in the file or about to be: a timer, a save, or a
\* save that failed (key-store.ts:122-143).
UseIsSaved == used => saveTimer \/ behind \/ saving["server"]

\* A key that is off in the file, whoever revoked it, is not accepted (cli.ts:94).
RevokedByAnyone == \A k \in Keys : file[k] = "off" => ~Accepts(k)

\* Keys are kept until they are deleted (README.md:494).
KeysPersist == \A k \in stored : file[k] = "none" => k \in ended
=============================================================================
