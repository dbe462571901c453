---------------------------- MODULE SyncDecision ----------------------------
(***************************************************************************)
(* The pure half of core/src/sync.c: from what the console holds and what  *)
(* the server last issued, decide which way a title moves.  No I/O and no  *)
(* clock; a save is known only by the digest of its payload.               *)
(*                                                                         *)
(* local  = [has_save, sha256, base_version, base_sha256]                  *)
(* remote = [exists, latest_version, sha256]                               *)
(*                                                                         *)
(* base_version is 0 (DAEMOON_VERSION_NONE) and base_sha256 is NoSave (the *)
(* empty string) when the title has never been synced from this console.   *)
(***************************************************************************)
EXTENDS Integers, Sequences

CONSTANT NoSave      \* the digest field of a save that does not exist

VersionNone == 0

SyncActions == {"NONE", "UPLOAD", "DOWNLOAD", "CONFLICT"}

(***************************************************************************)
(* Does the save differ from the one recorded at the last successful sync? *)
(***************************************************************************)
LocalDirty(local) ==
    /\ local.has_save
    /\ \/ local.base_version = VersionNone
       \/ local.base_sha256 = NoSave
       \/ local.sha256 # local.base_sha256

\* A version comparison gone off by one: equal versions count as "server moved on".
DecideOffByOne(local, remote) ==
    CASE ~local.has_save -> IF remote.exists THEN "DOWNLOAD" ELSE "NONE"
      [] local.has_save /\ ~remote.exists -> "UPLOAD"
      [] local.has_save /\ remote.exists ->
           IF local.sha256 = remote.sha256 THEN "NONE"
           ELSE IF local.base_version + 1 >= remote.latest_version
                THEN IF LocalDirty(local) THEN "UPLOAD" ELSE "CONFLICT"
                ELSE IF LocalDirty(local) THEN "CONFLICT" ELSE "DOWNLOAD"

\* The local half of the question forgotten: an old base is always a download.
DecideIgnoresDirty(local, remote) ==
    CASE ~local.has_save -> IF remote.exists THEN "DOWNLOAD" ELSE "NONE"
      [] local.has_save /\ ~remote.exists -> "UPLOAD"
      [] local.has_save /\ remote.exists ->
           IF local.sha256 = remote.sha256 THEN "NONE"
           ELSE IF local.base_version = remote.latest_version THEN "UPLOAD"
                ELSE "DOWNLOAD"

(***************************************************************************)
(* daemoon_sync_decide.  The cases are disjoint and in the code's order.   *)
(***************************************************************************)
Decide(local, remote) ==
    CASE ~local.has_save ->
           IF remote.exists THEN "DOWNLOAD" ELSE "NONE"
      [] local.has_save /\ ~remote.exists ->
           "UPLOAD"
      [] local.has_save /\ remote.exists /\ local.sha256 = remote.sha256 ->
           "NONE"
      [] local.has_save /\ remote.exists /\ local.sha256 # remote.sha256
           /\ local.base_version = remote.latest_version ->
           IF LocalDirty(local) THEN "UPLOAD" ELSE "CONFLICT"
      [] local.has_save /\ remote.exists /\ local.sha256 # remote.sha256
           /\ local.base_version < remote.latest_version ->
           IF LocalDirty(local) THEN "CONFLICT" ELSE "DOWNLOAD"
      [] local.has_save /\ remote.exists /\ local.sha256 # remote.sha256
           /\ local.base_version > remote.latest_version ->
           "CONFLICT"

=============================================================================
