-------------------------- MODULE ManifestService ---------------------------
(*****************************************************************************)
(* What the session manifest promises to the start that comes after a crash: *)
(* it lists every VM that a session was handed, until that VM is torn down   *)
(* or was found dead and replaced.  It is cleared by session, and never of a *)
(* session that has such a VM.                                               *)
(*                                                                           *)
(* SessionGateway keeps it with many requests of a session at a time,        *)
(* Recovery keeps it on disk, across crashes and starts.                     *)
(*****************************************************************************)
CONSTANTS Vms, SessionIds

VARIABLES
    held,     \* entries of the VMs that must be listed
    manifest  \* entries recorded

vars == <<held, manifest>>

Entries == [session : SessionIds, vm : Vms]

Init == held = {} /\ manifest = {}

\* A VM is handed to its session, and recorded.
Serve(e) == held' = held \cup {e} /\ manifest' = manifest \cup {e}

\* VMs are torn down, or found dead and taken off their session; sessions of
\* which none is left may be struck from the manifest.
Retire(gone) ==
    /\ held' \in SUBSET {e \in held : e.session \notin gone}
    /\ manifest' = {e \in manifest : e.session \notin gone}

Next ==
    \/ \E gone \in SUBSET SessionIds : Retire(gone)
    \/ \E e \in Entries : Serve(e)

Spec == Init /\ [][Next]_vars
=============================================================================
