---------------------------- MODULE DaemoonSync ----------------------------
(***************************************************************************)
(* One title, several consoles, one server: daemoon_sync_title_with from   *)
(* end to end (core/src/sync.c), with the local backup and the restore it  *)
(* goes through, against the compare-and-set of the server's Put.          *)
(*                                                                         *)
(* A console runs one sync at a time and no game runs meanwhile            *)
(* (check_not_running), so a console's own steps are sequential; what      *)
(* interleaves is the consoles with each other, with requests still in     *)
(* flight, and with crashes.                                               *)
(***************************************************************************)
EXTENDS SyncDecision

CONSTANTS
    Consoles,      \* the devices that sync this title
    Kind,          \* [Consoles -> Kinds]: an archive of a 3DS, a save of a Switch, an
                   \* nds-bootstrap .sav, a directory of the desktop build
    Contents,      \* what a game can write: one member per distinct payload digest
    Empty,         \* the digest of an archive that exists and holds no file
    Torn,          \* a save a restore was writing when it stopped
    Opts,          \* the daemoon_sync_opts_t values callers pass
    MaxActs,       \* bound: what people do between syncs: play, back up, restore
    MaxFaults,     \* bound: crashes, failed steps, lost requests and lost replies
    MaxRollbacks   \* bound: restores of the server's database from a backup

Kinds == {"card", "nx", "nds", "desktop"}

ASSUME KindAssumption == Kind \in [Consoles -> Kinds]

ASSUME BoundAssumption ==
    /\ MaxActs \in Nat
    /\ MaxFaults \in Nat
    /\ MaxRollbacks \in Nat

ASSUME DistinctSaves ==
    /\ NoSave \notin Contents /\ Empty \notin Contents /\ Torn \notin Contents
    /\ NoSave # Empty /\ NoSave # Torn /\ Empty # Torn

VARIABLES
    save,          \* [Consoles -> Saves], the save the game would load now
    record,        \* [Consoles -> base records], the sync state file
    backups,       \* [Consoles -> sets of contents], work_dir/backups
    run,           \* [Consoles -> RunStates], the sync a console is in
    versions,      \* the server's version history of the title
    inflight,      \* uploads sent and not yet handled by the server
    progress,      \* history: what the game on each console wrote last, unless a
                   \* person has since deleted the last copy of it
    overlooked,    \* history: the saves a restore went on over without a backup since
                   \* the game wrote last, having taken them for none
    acts, faults, rollbacks

vars == <<save, record, backups, run, versions, inflight, progress, overlooked,
          acts, faults, rollbacks>>

-----------------------------------------------------------------------------
Packable == Contents \cup {Torn}                 \* what pack_title_to accepts
Saves    == Packable \cup {NoSave, Empty}

Policies == {"ASK", "KEEP_LOCAL", "KEEP_SERVER", "DEFER"}
OptsType == [conflict: Policies, upload_confirmed: BOOLEAN, restore_confirmed: BOOLEAN]

ASSUME OptsAssumption == Opts \subseteq OptsType

\* k_ask_everything: what daemoon_sync_title passes
AskEverything ==
    [conflict |-> "ASK", upload_confirmed |-> FALSE, restore_confirmed |-> FALSE]

\* No archive is journalled.
NeverJournalled(c) == FALSE

\* The two consoles' archives are journalled until committed; an nds-bootstrap .sav
\* and a desktop directory are plain files, changed as they are written.
Journalled(c) == Kind[c] \in {"card", "nx"}

\* Only an archive of a 3DS tells "there is none" from "it cannot be opened".  A failed
\* mount on the Switch, and a failed stat of a .sav or of a directory, are not_found.
TellsAbsent(c) == Kind[c] = "card"

\* fs_newlib renames by unlink and rename; the desktop's rename(2) replaces.
SwapIsAtomic(c) == Kind[c] = "desktop"

BaseType  == [version: Nat, sha256: Saves]
NeverSynced == [version |-> VersionNone, sha256 |-> NoSave]

LocalType  == [has_save: BOOLEAN, sha256: Saves, base_version: Nat, base_sha256: Saves]
RemoteType == [exists: BOOLEAN, latest_version: Nat, sha256: Saves]

NoLocal  == [has_save |-> FALSE, sha256 |-> NoSave,
             base_version |-> VersionNone, base_sha256 |-> NoSave]
NoRemote == [exists |-> FALSE, latest_version |-> VersionNone, sha256 |-> NoSave]

PCs == {"idle", "scanned", "resolve", "upload", "sent", "refused", "download",
        "restore", "write", "cleared", "writing", "record", "swap"}

RunStates == [pc: PCs, opts: OptsType, local: LocalType, remote: RemoteType,
              chosen: BOOLEAN,    \* a conflict policy or a person picked the side
              staged: Saves,      \* the package restore_package writes
              base: BaseType]     \* what do_upload or do_download will record

IdleRun == [pc |-> "idle", opts |-> AskEverything, local |-> NoLocal, remote |-> NoRemote,
            chosen |-> FALSE, staged |-> NoSave, base |-> NeverSynced]

\* An upload on the wire.  live: the console still waits for its answer.
\* basis and chosen are history: the base the console decided on, and whether a
\* conflict answer rather than the decision alone sent it.
Requests == [from: Consoles, parent_version: Nat, sha256: Packable, live: BOOLEAN,
             basis: Saves, chosen: BOOLEAN]
Versions == [from: Consoles, sha256: Packable, basis: Saves, chosen: BOOLEAN]

TypeOK ==
    /\ save \in [Consoles -> Saves]
    /\ record \in [Consoles -> BaseType]
    /\ backups \in [Consoles -> SUBSET Packable]
    /\ run \in [Consoles -> RunStates]
    /\ versions \in Seq(Versions)
    /\ inflight \subseteq Requests
    /\ progress \in [Consoles -> Contents \cup {NoSave}]
    /\ overlooked \in [Consoles -> SUBSET Saves]
    /\ acts \in Nat /\ faults \in Nat /\ rollbacks \in Nat

Init ==
    /\ save \in [Consoles -> Contents \cup {NoSave, Empty}]
    /\ record = [c \in Consoles |-> NeverSynced]
    /\ backups = [c \in Consoles |-> {}]
    /\ run = [c \in Consoles |-> IdleRun]
    /\ versions = <<>>
    /\ inflight = {}
    /\ progress = [c \in Consoles |-> IF save[c] \in Contents THEN save[c] ELSE NoSave]
    /\ overlooked = [c \in Consoles |-> {}]
    /\ acts = 0 /\ faults = 0 /\ rollbacks = 0

-----------------------------------------------------------------------------
(* The console between syncs *)

\* A game writes its save.
Play(c) ==
    /\ run[c].pc = "idle"
    /\ acts < MaxActs
    /\ \E x \in Contents \ {save[c]} :
         /\ save' = [save EXCEPT ![c] = x]
         /\ progress' = [progress EXCEPT ![c] = x]
    /\ overlooked' = [overlooked EXCEPT ![c] = {}]
    /\ acts' = acts + 1
    /\ UNCHANGED <<record, backups, run, versions, inflight, faults, rollbacks>>

\* daemoon_sync_backup_local.  The package is named after its own content, appears
\* under that name in one rename, and an archive with nothing in it is refused.
BackupLocal(c) ==
    /\ save[c] \in Packable
    /\ backups' = [backups EXCEPT ![c] = @ \cup {save[c]}]

\* The "back up" entry of the title screen and of a library run.
BackupNow(c) ==
    /\ run[c].pc = "idle"
    /\ acts < MaxActs
    /\ BackupLocal(c)
    /\ acts' = acts + 1
    /\ UNCHANGED <<save, record, run, versions, inflight, progress, overlooked,
                   faults, rollbacks>>

\* The list of backups, which the 3DS application has, deletes one when it is told to and
\* says yes.  Who deletes the last copy of what was played gives it up.
DeleteBackup(c) ==
    /\ run[c].pc = "idle"
    /\ Kind[c] \in {"card", "nds"}
    /\ acts < MaxActs
    /\ \E x \in backups[c] :
         /\ backups' = [backups EXCEPT ![c] = @ \ {x}]
         /\ progress' = [progress EXCEPT ![c] = IF @ = x /\ save[c] # x THEN NoSave ELSE @]
    /\ acts' = acts + 1
    /\ UNCHANGED <<save, record, run, versions, inflight, overlooked,
                   faults, rollbacks>>

\* daemoon_sync_restore_package on a backup the person picked: it asks, and records
\* no base.
RestoreBackup(c) ==
    /\ run[c].pc = "idle"
    /\ acts < MaxActs
    /\ \E x \in backups[c] :
         run' = [run EXCEPT ![c] = [IdleRun EXCEPT !.pc = "restore", !.staged = x]]
    /\ acts' = acts + 1
    /\ UNCHANGED <<save, record, backups, versions, inflight, progress, overlooked,
                   faults, rollbacks>>

-----------------------------------------------------------------------------
(* One sync of the title *)

Goto(c, label) == run' = [run EXCEPT ![c].pc = label]
EndRun(c)      == run' = [run EXCEPT ![c] = IdleRun]

\* All that is left of the run is to record its base.
RunWithBase(base) == [IdleRun EXCEPT !.pc = "record", !.base = base]

\* open_save: whether there is a save.  Where it cannot tell, a save it fails to open is
\* found no more than one that does not exist.
OpenSave(c, found) ==
    \/ found = (save[c] # NoSave) /\ UNCHANGED faults
    \/ /\ ~found /\ save[c] # NoSave
       /\ ~TellsAbsent(c)
       /\ faults < MaxFaults
       /\ faults' = faults + 1

\* daemoon_sync_scan_local: the state file merged with a hash of the save, if one was
\* found.  An archive without files hashes to the empty digest.
ScanLocal(c, found) == [has_save     |-> found,
                        sha256       |-> IF found THEN save[c] ELSE NoSave,
                        base_version |-> record[c].version,
                        base_sha256  |-> record[c].sha256]

Scan(c) ==
    /\ run[c].pc = "idle"
    /\ \E o \in Opts, found \in BOOLEAN :
         /\ OpenSave(c, found)
         /\ run' = [run EXCEPT ![c] = [IdleRun EXCEPT !.pc = "scanned", !.opts = o,
                                                      !.local = ScanLocal(c, found)]]
    /\ UNCHANGED <<save, record, backups, versions, inflight, progress, overlooked,
                   acts, rollbacks>>

\* daemoon_api_get_latest: 404 is a title that was never uploaded.
Latest == IF versions = <<>> THEN NoRemote
          ELSE [exists |-> TRUE, latest_version |-> Len(versions),
                sha256 |-> versions[Len(versions)].sha256]

\* NONE with a version this console has not recorded: record it, the bytes match.
NothingToMove(c, remote) ==
    LET local == run[c].local IN
    IF local.has_save /\ remote.exists /\ local.base_version # remote.latest_version
    THEN run' = [run EXCEPT ![c] = RunWithBase([version |-> remote.latest_version,
                                                sha256  |-> local.sha256])]
    ELSE EndRun(c)

\* Ask the server where it is and decide; the run goes on with the decision.
GetLatest(c) ==
    /\ run[c].pc = "scanned"
    /\ LET action == Decide(run[c].local, Latest) IN
       \/ action = "NONE" /\ NothingToMove(c, Latest)
       \/ /\ action # "NONE"
          /\ run' = [run EXCEPT ![c].remote = Latest,
                                ![c].pc = CASE action = "UPLOAD"   -> "upload"
                                            [] action = "DOWNLOAD" -> "download"
                                            [] action = "CONFLICT" -> "resolve"]
    /\ UNCHANGED <<save, record, backups, versions, inflight, progress, overlooked,
                   acts, faults, rollbacks>>

\* The person says no to "send this save to the server?" or to "overwrite this
\* console's save?".
Decline(c) ==
    /\ \/ run[c].pc = "upload" /\ ~run[c].opts.upload_confirmed /\ ~run[c].chosen
       \/ run[c].pc = "restore" /\ ~run[c].opts.restore_confirmed
    /\ EndRun(c)
    /\ UNCHANGED <<save, record, backups, versions, inflight, progress, overlooked,
                   acts, faults, rollbacks>>


\* The answers resolve_conflict can get: the policy's, or any of the dialog's.
Choices(policy) ==
    IF policy = "ASK" THEN {"KEEP_LOCAL", "KEEP_SERVER", "DEFER"} ELSE {policy}

Resolve(c) ==
    /\ run[c].pc = "resolve"
    /\ \E choice \in Choices(run[c].opts.conflict) :
         \/ choice = "DEFER" /\ EndRun(c)
         \/ /\ choice # "DEFER"
            /\ run' = [run EXCEPT ![c].chosen = TRUE,
                                  ![c].pc = IF choice = "KEEP_LOCAL" THEN "upload"
                                            ELSE "download"]
    /\ UNCHANGED <<save, record, backups, versions, inflight, progress, overlooked,
                   acts, faults, rollbacks>>

-----------------------------------------------------------------------------
(* do_upload *)

Request(c) ==
    [from |-> c, parent_version |-> run[c].remote.latest_version, sha256 |-> save[c],
     live |-> TRUE, basis |-> run[c].local.base_sha256, chosen |-> run[c].chosen]

\* An archive that reads empty is packed like any other.
SendEmptyToo(c) ==
    /\ run[c].pc = "upload"
    /\ inflight' = inflight \cup {Request(c)}
    /\ Goto(c, "sent")
    /\ UNCHANGED <<save, record, backups, versions, progress, overlooked,
                   acts, faults, rollbacks>>

\* pack_title_to and the POST.  A missing or an empty archive is not a package.
Send(c) ==
    /\ run[c].pc = "upload"
    /\ \/ /\ save[c] \in Packable
          /\ inflight' = inflight \cup {Request(c)}
          /\ Goto(c, "sent")
       \/ /\ save[c] \notin Packable
          /\ EndRun(c)
          /\ UNCHANGED inflight
    /\ UNCHANGED <<save, record, backups, versions, progress, overlooked,
                   acts, faults, rollbacks>>

\* The server takes whatever arrives.
AcceptsBlindly(u) == TRUE

\* Store.Put takes a version only on top of the latest; a title the server has never
\* seen takes only a first upload.
Accepts(u) == u.parent_version = Len(versions)

AddVersion(u) ==
    versions' = Append(versions, [from |-> u.from, sha256 |-> u.sha256,
                                  basis |-> u.basis, chosen |-> u.chosen])

\* The console takes the version it built on for the version it was given.
IssuedParent(u) == [version |-> Len(versions), sha256 |-> u.sha256]

\* What do_upload will record: the version the answer names, for the bytes it packed.
Issued(u) == [version |-> Len(versions) + 1, sha256 |-> u.sha256]

\* The server handles one upload, in one transaction, and answers.  Nobody waits for
\* the answer to a request whose console has given up.
Put(u) ==
    /\ inflight' = inflight \ {u}
    /\ \/ /\ Accepts(u)
          /\ AddVersion(u)
          /\ IF u.live
             THEN run' = [run EXCEPT ![u.from] = RunWithBase(Issued(u))]
             ELSE UNCHANGED run
       \/ /\ ~Accepts(u)
          /\ IF u.live THEN Goto(u.from, "refused") ELSE UNCHANGED run
          /\ UNCHANGED versions
    /\ UNCHANGED <<save, record, backups, progress, overlooked,
                   acts, faults, rollbacks>>

\* A refused upload is simply sent again.
RefusedRetries(c) ==
    /\ run[c].pc = "refused"
    /\ Goto(c, "upload")
    /\ UNCHANGED <<save, record, backups, versions, inflight, progress, overlooked,
                   acts, faults, rollbacks>>

\* VERSION_CONFLICT: somebody else uploaded in between.  A decided upload re-reads the
\* server and goes to resolve_conflict; an upload that was itself a conflict answer
\* ends the run.
Refused(c) ==
    /\ run[c].pc = "refused"
    /\ \/ run[c].chosen /\ EndRun(c)
       \/ /\ ~run[c].chosen
          /\ run' = [run EXCEPT ![c].remote = Latest, ![c].pc = "resolve"]
    /\ UNCHANGED <<save, record, backups, versions, inflight, progress, overlooked,
                   acts, faults, rollbacks>>

-----------------------------------------------------------------------------
(* do_download and restore_package *)

\* The version that is asked for is the one get_latest named, and its digest has to be
\* the one get_latest named too.
Downloadable(remote) ==
    /\ remote.latest_version \in 1..Len(versions)
    /\ versions[remote.latest_version].sha256 = remote.sha256

Download(c) ==
    /\ run[c].pc = "download"
    /\ \/ /\ Downloadable(run[c].remote)
          /\ run' = [run EXCEPT ![c].pc = "restore",
                                ![c].staged = versions[run[c].remote.latest_version].sha256,
                                ![c].base = [version |-> run[c].remote.latest_version,
                                             sha256  |-> run[c].remote.sha256]]
       \/ ~Downloadable(run[c].remote) /\ EndRun(c)
    /\ UNCHANGED <<save, record, backups, versions, inflight, progress, overlooked,
                   acts, faults, rollbacks>>

\* The restore goes on whether or not anything was backed up.
RestoreUnbacked(c) ==
    /\ run[c].pc = "restore"
    /\ Goto(c, "write")
    /\ UNCHANGED <<save, record, backups, versions, inflight, progress, overlooked,
                   acts, faults, rollbacks>>

\* 1. Back up first.  Where no save is found there is nothing to back up and the restore
\* goes on, also over one that is there; an archive that is there and is empty fails the
\* backup, and with it the restore.
BackupFirst(c) ==
    /\ run[c].pc = "restore"
    /\ \/ /\ OpenSave(c, TRUE)
          /\ \/ BackupLocal(c) /\ Goto(c, "write")
             \/ save[c] = Empty /\ EndRun(c) /\ UNCHANGED backups
          /\ UNCHANGED overlooked
       \/ /\ OpenSave(c, FALSE)
          /\ Goto(c, "write")
          /\ overlooked' = [overlooked EXCEPT ![c] = @ \cup ({save[c]} \ {NoSave})]
          /\ UNCHANGED backups
    /\ UNCHANGED <<save, record, versions, inflight, progress, acts, rollbacks>>

\* After the last byte: do_download records its base, a restored backup has none.
Written(c) ==
    IF run[c].base = NeverSynced THEN EndRun(c)
    ELSE run' = [run EXCEPT ![c] = RunWithBase(run[c].base)]

\* The commit's result is not looked at: the archive stays what it was.
CommitUnchecked(c) ==
    /\ run[c].pc = "write"
    /\ Journalled(c)
    /\ Written(c)
    /\ UNCHANGED <<save, record, backups, versions, inflight, progress, overlooked,
                   acts, faults, rollbacks>>

\* 3. Unpack and commit.  On a journalled archive nothing is there before the commit
\* and everything is after it.
Commit(c) ==
    /\ run[c].pc = "write"
    /\ Journalled(c)
    /\ save' = [save EXCEPT ![c] = run[c].staged]
    /\ Written(c)
    /\ UNCHANGED <<record, backups, versions, inflight, progress, overlooked,
                   acts, faults, rollbacks>>

\* On plain files: remove_all, then the files one after another.
RemoveAll(c) ==
    /\ run[c].pc = "write"
    /\ ~Journalled(c)
    /\ save' = [save EXCEPT ![c] = IF Kind[c] = "nds" THEN NoSave ELSE Empty]
    /\ Goto(c, "cleared")
    /\ UNCHANGED <<record, backups, versions, inflight, progress, overlooked,
                   acts, faults, rollbacks>>

WriteSome(c) ==
    /\ run[c].pc = "cleared"
    /\ save' = [save EXCEPT ![c] = Torn]
    /\ Goto(c, "writing")
    /\ UNCHANGED <<record, backups, versions, inflight, progress, overlooked,
                   acts, faults, rollbacks>>

\* The last stream's close fails and nobody looks.
WriteRestUnchecked(c) ==
    /\ run[c].pc = "writing"
    /\ Written(c)
    /\ UNCHANGED <<save, record, backups, versions, inflight, progress, overlooked,
                   acts, faults, rollbacks>>

WriteRest(c) ==
    /\ run[c].pc = "writing"
    /\ save' = [save EXCEPT ![c] = run[c].staged]
    /\ Written(c)
    /\ UNCHANGED <<record, backups, versions, inflight, progress, overlooked,
                   acts, faults, rollbacks>>

-----------------------------------------------------------------------------
(* daemoon_sync_state_save *)

\* The state file rewritten in place: the new version lands before the new digest.
StateInPlace(c) ==
    /\ run[c].pc = "record"
    /\ record' = [record EXCEPT ![c].version = run[c].base.version]
    /\ Goto(c, "swap")
    /\ UNCHANGED <<save, backups, versions, inflight, progress, overlooked,
                   acts, faults, rollbacks>>

\* The temporary file is complete before the swap starts.  On FAT the swap removes the
\* old state file first.
SwapState(c) ==
    /\ run[c].pc = "record"
    /\ \/ /\ SwapIsAtomic(c)
          /\ record' = [record EXCEPT ![c] = run[c].base]
          /\ EndRun(c)
       \/ /\ ~SwapIsAtomic(c)
          /\ record' = [record EXCEPT ![c] = NeverSynced]
          /\ Goto(c, "swap")
    /\ UNCHANGED <<save, backups, versions, inflight, progress, overlooked,
                   acts, faults, rollbacks>>

FinishSwap(c) ==
    /\ run[c].pc = "swap"
    /\ record' = [record EXCEPT ![c] = run[c].base]
    /\ EndRun(c)
    /\ UNCHANGED <<save, backups, versions, inflight, progress, overlooked,
                   acts, faults, rollbacks>>

-----------------------------------------------------------------------------
(* Failures *)

\* A step fails, the power goes, or the network does: the run is over and what was not
\* persisted is gone.  An upload being waited for is lost, or reaches the server later;
\* an answer not yet acted on is lost with the run.
Abort(c) ==
    /\ run[c].pc # "idle"
    /\ faults < MaxFaults
    /\ faults' = faults + 1
    /\ EndRun(c)
    /\ LET waiting == {u \in inflight : u.from = c /\ u.live} IN
       \/ inflight' = inflight \ waiting
       \/ /\ waiting # {}
          /\ inflight' = (inflight \ waiting) \cup {[u EXCEPT !.live = FALSE] : u \in waiting}
    /\ UNCHANGED <<save, record, backups, versions, progress, overlooked,
                   acts, rollbacks>>

\* "The server was restored from a backup" (sync.c): the newest versions are gone, or all
\* of them if the backup is older than the first upload.
Rollback ==
    /\ rollbacks < MaxRollbacks
    /\ rollbacks' = rollbacks + 1
    /\ \E n \in 0..(Len(versions) - 1) : versions' = SubSeq(versions, 1, n)
    /\ UNCHANGED <<save, record, backups, run, inflight, progress, overlooked,
                   acts, faults>>

-----------------------------------------------------------------------------
SyncStep(c) ==
    \/ GetLatest(c) \/ Decline(c) \/ Resolve(c)
    \/ Send(c) \/ Refused(c)
    \/ Download(c) \/ BackupFirst(c)
    \/ Commit(c) \/ RemoveAll(c) \/ WriteSome(c) \/ WriteRest(c)
    \/ SwapState(c) \/ FinishSwap(c)

ServerStep == \E u \in inflight : Put(u)

Next ==
    \/ \E c \in Consoles :
         \/ Play(c) \/ BackupNow(c) \/ DeleteBackup(c) \/ RestoreBackup(c)
         \/ Scan(c) \/ SyncStep(c) \/ Abort(c)
    \/ ServerStep
    \/ Rollback

Spec == Init /\ [][Next]_vars

(***************************************************************************)
(* Fairness.  A run that started goes on until it ends (the code never     *)
(* waits for another console), the server handles what reaches it, and a   *)
(* console is synced again and again (the autosync at every boot).  Games, *)
(* faults and people's refusals owe nothing.                               *)
(***************************************************************************)
Fairness ==
    /\ \A c \in Consoles : WF_vars(SyncStep(c)) /\ WF_vars(Scan(c))
    /\ WF_vars(ServerStep)

FairSpec == Spec /\ Fairness

-----------------------------------------------------------------------------
(* What makes it correct *)

\* No sync, restore, refusal or crash loses play, whatever the server did: what the game
\* on a console wrote last is in that console's save or among its local backups - except
\* a save that a restore could not open and took for none (PlayNeverLost, below).
ProgressKept ==
    \A c \in Consoles :
        progress[c] # NoSave => progress[c] \in {save[c]} \cup backups[c] \cup overlooked[c]

\* The state file never lies: the version it names is one the server has, with the
\* digest it names, however runs were cut short (state_save's temp path and rename).
\* Everything daemoon_sync_decide concludes rests on this.  A restored server breaks it.
BaseRecordTrue ==
    \A c \in Consoles :
        rollbacks = 0 /\ record[c].version # VersionNone =>
            /\ record[c].version <= Len(versions)
            /\ versions[record[c].version].sha256 = record[c].sha256

\* A version uploaded on the decision alone, nobody having been asked about the other
\* side, replaces exactly the version its console had synced: it buries nothing.  (After a
\* restore of the server the number can mean another version.)
SilentUploadBuildsOnBase ==
    \A i \in 1..Len(versions) :
        rollbacks = 0 /\ ~versions[i].chosen =>
            versions[i].basis = (IF i = 1 THEN NoSave ELSE versions[i - 1].sha256)

ServerHolds(x) == \E i \in 1..Len(versions) : versions[i].sha256 = x

\* autosync: after DEFER no restore overwrites what exists in only one place; the save
\* about to be replaced is a copy of a version the server still holds.  A restored server
\* may not hold it, and a save that the scan did not find, though it is there, may never
\* have been sent; an archive of a 3DS is always found.
DeferredRestoreIsSafe ==
    \A c \in Consoles :
        /\ rollbacks = 0
        /\ run[c].pc = "write"
        /\ run[c].opts.conflict = "DEFER"
        /\ save[c] # NoSave
        /\ TellsAbsent(c) \/ run[c].local.has_save
        => ServerHolds(save[c])

\* A base is recorded only for the bytes the console holds at that moment, after the
\* commit of a download and for what was packed in an upload.
RecordedBaseIsOnConsole ==
    [][\A c \in Consoles :
         (record'[c] # record[c] /\ record'[c].version # VersionNone)
            => record'[c].sha256 = save'[c]]_vars

\* A console's base is true from the moment it is recorded: it names what the save holds
\* then, and ever after bytes and a version that belong together on the server
\* (sync.c:562-567, save_state).
BaseHolds == []BaseRecordTrue /\ RecordedBaseIsOnConsole

\* Saves that are not journalled keep what journalled ones keep: nothing played is lost but
\* a save taken for none, a base names bytes the console has and a version the server has,
\* and no silent upload buries anything; also on FAT, where the state file is renamed in two
\* steps, and, of play, after the server came back from a backup (fs_newlib.c:199,
\* archive.c:640).
SafeOnPlainFiles ==
    /\ []ProgressKept /\ []BaseRecordTrue /\ []SilentUploadBuildsOnBase
    /\ RecordedBaseIsOnConsole

\* On journalled archives all of the above is what SyncPromise says: saves are replaced
\* whole, by versions of an append-only log or kept saves, and over nothing but a kept copy
\* or what the Switch could not open.
Promise == INSTANCE SyncPromise WITH
    Blind    <- {c \in Consoles : ~TellsAbsent(c)},
    Packable <- Contents,
    Nothing  <- NoSave,
    Blank    <- Empty,
    holds    <- save,
    kept     <- backups,
    missed   <- overlooked,
    offered  <- {u.sha256 : u \in inflight},
    log      <- [i \in 1..Len(versions) |-> versions[i].sha256]

KeepsPromise == Promise!Spec

\* Every run comes to an end: no console waits for another.
RunsEnd == \A c \in Consoles : (run[c].pc # "idle") ~> (run[c].pc = "idle")


-----------------------------------------------------------------------------
(* Said by comments of the code, and not so: TLC refutes each of these.    *)

\* sync.h on UPLOAD, "only this console moved": the latest version is the one this
\* console synced last.
UploadMeansOnlyThisConsoleMoved ==
    \A c \in Consoles :
        /\ Decide(ScanLocal(c, save[c] # NoSave), Latest) = "UPLOAD"
        /\ versions # <<>>
        => /\ record[c].version = Len(versions)
           /\ record[c].sha256 = Latest.sha256

\* sync.h on CONFLICT, "both moved": somebody else added a version since.
ConflictMeansBothMoved ==
    \A c \in Consoles :
        /\ run[c].pc = "idle"
        /\ Decide(ScanLocal(c, save[c] # NoSave), Latest) = "CONFLICT"
        => \E i \in 1..Len(versions) : i > record[c].version /\ versions[i].from # c

\* "Back up locally before restoring" (README.md:114), with "no save archive yet" for "the
\* only acceptable reason to skip this step" (sync.c:558-560): what the game wrote last is
\* always in the save or in a backup.  A mount or a stat that fails is such a reason too.
PlayNeverLost ==
    \A c \in Consoles : progress[c] # NoSave => progress[c] \in {save[c]} \cup backups[c]

=============================================================================
