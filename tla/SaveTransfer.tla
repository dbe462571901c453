---------------------------- MODULE SaveTransfer ----------------------------
(***************************************************************************)
(* How one title's save gets into packages and back: backup_local,         *)
(* pack_title_to and restore_package of core/src/sync.c with the archive   *)
(* code they call, on the three save backends of the consoles.  A step is  *)
(* what happens between two points where the power can go and leave        *)
(* something different behind.                                             *)
(*                                                                         *)
(* "card" is a 3DS archive, with a commit and a secure value outside it;   *)
(* "nx" a mounted Switch save, with a commit; "nds" one .sav file.         *)
(***************************************************************************)
EXTENDS Naturals

CONSTANTS
    Paths,          \* the files a save may have
    SavFile,        \* the one an nds save has
    Bytes,          \* what a file may hold
    Gone, Cut,      \* no such file; a file whose writing failed
    Values,         \* secure values
    NoValue,
    Absent,         \* there is no archive
    None,
    Staging,        \* the name of the package in work_dir/tmp
    Half,           \* a .part without its central directory
    Kinds,          \* the backends looked at
    Incoming,       \* what the server may send: packages and announced digests
    ShortReads,     \* whether reading a directory of a Switch save may fail
    MaxPlays, MaxFaults

Saves == [Paths -> Bytes \cup {Gone, Cut}]
EmptySave == [p \in Paths |-> Gone]
FilesOf(s) == {p \in Paths : s[p] # Gone}

(* A digest stands for the sorted paths, sizes and bytes it is taken of.   *)
Packages == [mine : BOOLEAN, files : Saves, sha256 : Saves,
             secure : Values \cup {NoValue}]

ASSUME Distinct ==
    /\ SavFile \in Paths
    /\ Gone \notin Bytes /\ Cut \notin Bytes /\ Gone # Cut
    /\ NoValue \notin Values
    /\ Absent \notin Saves /\ None \notin Saves
    /\ Staging \notin Saves
    /\ Half \notin Packages /\ None \notin Packages
ASSUME Backends == Kinds \subseteq {"card", "nx", "nds"}
ASSUME Sent == Incoming \subseteq [pkg : Packages, announced : Saves]
ASSUME Reads == ShortReads \in BOOLEAN
ASSUME Bounds == MaxPlays \in Nat /\ MaxFaults \in Nat

VARIABLES
    kind,       \* the backend
    disk,       \* what the archive holds, as the console would find it
    work,       \* what an open archive holds before its commit
    secure,     \* the console's secure value for the title
    zips,       \* finished packages on the SD card, by name
    parts,      \* their .part files
    run,        \* the operation under way: locals of the functions in it
    whole,      \* history: the saves the game wrote
    plays, faults

vars == <<kind, disk, work, secure, zips, parts, run, whole, plays, faults>>

Names == Saves \cup {Staging}
Journalled == {"card", "nx"}

File(n, p) == [name |-> n, pkg |-> p]
Without(files, n) == {f \in files : f.name # n}
Put(files, n, p) == Without(files, n) \cup {File(n, p)}
Exists(files, n) == \E f \in files : f.name = n

-----------------------------------------------------------------------------

Idle == [op |-> "none", pc |-> "idle", r |-> "ok", name |-> Staging, src |-> None,
         pkg |-> None, left |-> {}, warned |-> FALSE, missed |-> FALSE]

Results == {"ok", "not_found", "error"}

(* What the person, or the sync of the title, goes on to do.               *)
Begin(op, pc, src) ==
    /\ run.pc = "idle"
    /\ run' = [Idle EXCEPT !.op = op, !.pc = pc, !.src = src]

Goto(pc) == run' = [run EXCEPT !.pc = pc]
Return(r) == run' = [run EXCEPT !.pc = "done", !.r = r]

MayFail == faults < MaxFaults
Fault == MayFail /\ faults' = faults + 1
NoFault == UNCHANGED faults

(* open_save on a save that is there but cannot be reached.  The 3DS tells *)
(* that apart from a save that is not there, the other two do not.         *)
Unreachable == IF kind = "card" THEN "error" ELSE "not_found"

-----------------------------------------------------------------------------
(* The game, while the application is not running it.                      *)

Play ==
    /\ run.pc = "idle"
    /\ plays < MaxPlays
    /\ \E s \in [Paths -> Bytes \cup {Gone}], v \in Values :
          /\ s # EmptySave
          /\ kind = "nds" => FilesOf(s) = {SavFile}
          /\ disk' = s
          /\ whole' = whole \cup {s}
          /\ secure' = IF kind = "card" THEN v ELSE secure
    /\ plays' = plays + 1
    /\ UNCHANGED <<kind, work, zips, parts, run, faults>>

(* A game's first launch makes an archive with nothing in it.              *)
FirstLaunch ==
    /\ run.pc = "idle"
    /\ kind \in Journalled
    /\ disk = Absent
    /\ disk' = EmptySave
    /\ UNCHANGED <<kind, work, secure, zips, parts, run, whole, plays, faults>>

-----------------------------------------------------------------------------
(* What starts an operation.  A declined question starts none.             *)

BackupLocal ==
    /\ Begin("backup", "hash", None)
    /\ UNCHANGED <<kind, disk, work, secure, zips, parts, whole, plays, faults>>

(* do_upload: the package is staged under a name of its own.               *)
Upload ==
    /\ Begin("upload", "pack", None)
    /\ UNCHANGED <<kind, disk, work, secure, zips, parts, whole, plays, faults>>

(* do_download: what arrived is renamed into place and has to say it is    *)
(* what the server announced; a package that does not is removed again.    *)
Download ==
    /\ \E i \in Incoming :
          /\ i.pkg.sha256 = i.announced
          /\ zips' = Put(zips, Staging, i.pkg)
    /\ Begin("download", "hash", [dir |-> "zips", name |-> Staging])
    /\ UNCHANGED <<kind, disk, work, secure, parts, whole, plays, faults>>

(* The list of backups goes by the start of a name, so it offers .part     *)
(* files too.                                                              *)
Offered == [dir : {"zips"}, name : {f.name : f \in zips} \ {Staging}]
    \cup [dir : {"parts"}, name : {f.name : f \in parts} \ {Staging}]

RestoreBackup ==
    /\ \E src \in Offered : Begin("restore", "hash", src)
    /\ UNCHANGED <<kind, disk, work, secure, zips, parts, whole, plays, faults>>

DeleteBackup ==
    /\ run.pc = "idle"
    /\ \E src \in Offered :
          IF src.dir = "zips"
          THEN zips' = Without(zips, src.name) /\ UNCHANGED parts
          ELSE parts' = Without(parts, src.name) /\ UNCHANGED zips
    /\ UNCHANGED <<kind, disk, work, secure, run, whole, plays, faults>>

-----------------------------------------------------------------------------
(* Backing up, alone or as the first step of a restore.                    *)

Restoring == run.op \in {"restore", "download"}

(* Mutant: a restore goes on after a backup that failed, too.              *)
NoBackupAnyway(r) ==
    run' = [run EXCEPT !.pc = IF Restoring THEN "verify" ELSE "done",
                       !.r = IF Restoring THEN "ok" ELSE r]

(* How a backup ends that made no package: a restore goes on if there was  *)
(* nothing to back up and stops at anything else.                          *)
NoBackup(r) ==
    run' = [run EXCEPT !.pc = IF Restoring /\ r = "not_found" THEN "verify" ELSE "done",
                       !.r = IF Restoring /\ r = "not_found" THEN "ok" ELSE r,
                       !.missed = r = "not_found" /\ disk # Absent]

(* The files of s that come before an error.                               *)
Shortened(s) == {t \in Saves : \A p \in Paths : t[p] \in {s[p], Gone}}

(* Mutant: no backend tells an error from the end of a directory.          *)
ListingsCutShort(s) == IF MayFail THEN Shortened(s) ELSE {s}

(* What the walk of an archive yields: every file.  An error in it is one  *)
(* on a 3DS; the Switch's loop on readdir takes it for the end.            *)
Listings(s) == IF kind = "nx" /\ ShortReads /\ MayFail THEN Shortened(s) ELSE {s}
Read(s, listed) == IF listed = s THEN NoFault ELSE Fault

HashForBackup ==
    /\ run.pc = "hash"
    /\ \/ /\ disk = Absent
          /\ NoBackup("not_found")
          /\ NoFault
       \/ /\ disk # Absent
          /\ Fault
          /\ \E r \in {Unreachable, "error"} : NoBackup(r)
       \/ /\ disk # Absent
          /\ \E listed \in Listings(disk) :
                /\ Read(disk, listed)
                /\ IF listed = EmptySave THEN NoBackup("error")
                   ELSE IF Exists(zips, listed)
                   THEN run' = [run EXCEPT !.pc = IF Restoring THEN "verify" ELSE "done",
                                           !.name = listed]
                   ELSE run' = [run EXCEPT !.pc = "pack", !.name = listed]
    /\ UNCHANGED <<kind, disk, work, secure, zips, parts, whole, plays>>

(* pack_title_to, up to the .part: the value is recorded if it can be      *)
(* read, the archive opened, the file made.                                *)
PackBegin ==
    /\ run.pc = "pack"
    /\ \/ /\ disk = Absent
          /\ NoBackup("not_found")
          /\ NoFault
          /\ UNCHANGED parts
       \/ /\ disk # Absent
          /\ Fault
          /\ \E r \in {Unreachable, "error"} : NoBackup(r)
          /\ UNCHANGED parts
       \/ /\ disk # Absent
          /\ parts' = Put(parts, run.name, Half)
          /\ \E v \in {secure, NoValue} :
                /\ IF v = secure THEN NoFault ELSE Fault
                /\ run' = [run EXCEPT !.pc = "packing", !.pkg =
                             [mine |-> TRUE, files |-> EmptySave,
                              sha256 |-> EmptySave, secure |-> v]]
    /\ UNCHANGED <<kind, disk, work, secure, zips, whole, plays>>

(* The files and, last, the manifest with their digest.  A read that fails *)
(* or comes out shorter than listed, an empty archive, a full SD card:     *)
(* the .part goes.                                                         *)
PackFiles ==
    /\ run.pc = "packing"
    /\ \/ /\ \E listed \in Listings(disk) :
                /\ Read(disk, listed)
                /\ listed # EmptySave
                /\ LET pkg == [run.pkg EXCEPT !.files = listed, !.sha256 = listed]
                   IN  /\ run' = [run EXCEPT !.pc = "rename", !.pkg = pkg]
                       /\ parts' = Put(parts, run.name, pkg)
       \/ /\ IF disk = EmptySave THEN NoFault ELSE Fault
          /\ NoBackup("error")
          /\ parts' = Without(parts, run.name)
    /\ UNCHANGED <<kind, disk, work, secure, zips, whole, plays>>

PackRename ==
    /\ run.pc = "rename"
    /\ parts' = Without(parts, run.name)
    /\ \/ /\ NoFault
          /\ zips' = Put(zips, run.name, run.pkg)
          /\ Goto(CASE Restoring -> "verify" [] run.op = "upload" -> "send" [] OTHER -> "done")
       \/ /\ Fault
          /\ NoBackup("error")
          /\ UNCHANGED zips
    /\ UNCHANGED <<kind, disk, work, secure, whole, plays>>

(* The server has it, or the request failed (DaemoonSync).                 *)
Send ==
    /\ run.pc = "send"
    /\ \E r \in {"ok", "error"} : Return(r)
    /\ UNCHANGED <<kind, disk, work, secure, zips, parts, whole, plays, faults>>

-----------------------------------------------------------------------------
(* Restoring.                                                              *)

Verified(p) == p.sha256 = p.files
At(src) == {f.pkg : f \in {g \in (IF src.dir = "zips" THEN zips ELSE parts) :
                             g.name = src.name}}

(* Mutant: the manifest is believed about the payload.                     *)
AcceptsUnhashed(p) == p.mine

Accepts(p) == Verified(p) /\ p.mine

(* The package against its own manifest, and the manifest against the      *)
(* title, before anything is written.  A .part whose writing was cut short *)
(* has no central directory to read.                                       *)
VerifyPackage ==
    /\ run.pc = "verify"
    /\ \/ /\ NoFault
          /\ \E p \in At(run.src) \ {Half} :
                /\ Accepts(p)
                /\ run' = [run EXCEPT !.pc = "open", !.pkg = p]
       \/ /\ \A p \in At(run.src) \ {Half} : ~ Accepts(p)
          /\ NoFault
          /\ Return("error")
       \/ /\ Fault
          /\ Return("error")
    /\ UNCHANGED <<kind, disk, work, secure, zips, parts, whole, plays>>

(* Only an nds save can be written where there is none.                    *)
OpenSaveWrite ==
    /\ run.pc = "open"
    /\ \/ /\ kind = "nds" \/ disk # Absent
          /\ NoFault
          /\ work' = IF kind = "nds" THEN Absent ELSE disk
          /\ Goto("clear")
       \/ /\ kind # "nds" /\ disk = Absent
          /\ NoFault
          /\ Return("not_found")
          /\ UNCHANGED work
       \/ /\ Fault
          /\ Return("error")
          /\ UNCHANGED work
    /\ UNCHANGED <<kind, disk, secure, zips, parts, whole, plays>>

(* The write side: on an archive only its uncommitted view changes.        *)
Show(s) ==
    IF kind = "nds"
    THEN disk' = (IF s = EmptySave THEN Absent ELSE s) /\ UNCHANGED work
    ELSE work' = s /\ UNCHANGED disk
Shown == IF kind = "nds" THEN (IF disk = Absent THEN EmptySave ELSE disk) ELSE work

(* What remove_all leaves when it says it worked: no file of its listing.  *)
Unlisted(s, listed) == [p \in Paths |-> IF listed[p] = Gone THEN s[p] ELSE Gone]

RemoveAll ==
    /\ run.pc = "clear"
    /\ \/ /\ \E listed \in Listings(Shown) :
                Read(Shown, listed) /\ Show(Unlisted(Shown, listed))
          /\ run' = [run EXCEPT !.pc = "write", !.left = FilesOf(run.pkg.files)]
       \/ /\ Fault
          /\ \E kept \in SUBSET FilesOf(Shown) :
                /\ kind = "nds" => kept = FilesOf(Shown)
                /\ Show([p \in Paths |-> IF p \in kept THEN Shown[p] ELSE Gone])
          /\ run' = [run EXCEPT !.pc = "close", !.r = "error"]
    /\ UNCHANGED <<kind, secure, zips, parts, whole, plays>>

(* Mutant: the card's backend writes whatever a package names.             *)
AnyFile(p) == TRUE

(* An nds save has no file but its own.                                    *)
Writable(p) == kind = "nds" => p = SavFile

(* One file, in some order.  Opening one truncates it, so a write that     *)
(* fails leaves part of it.                                                *)
WriteFile ==
    /\ run.pc = "write"
    /\ \E p \in run.left :
          \/ /\ Writable(p)
             /\ NoFault
             /\ Show([Shown EXCEPT ![p] = run.pkg.files[p]])
             /\ run' = [run EXCEPT !.left = @ \ {p}]
          \/ /\ Writable(p)
             /\ Fault
             /\ \E b \in {Shown[p], Cut} : Show([Shown EXCEPT ![p] = b])
             /\ run' = [run EXCEPT !.pc = "close", !.r = "error"]
          \/ /\ ~ Writable(p)
             /\ NoFault
             /\ UNCHANGED <<disk, work>>
             /\ run' = [run EXCEPT !.pc = "close", !.r = "not_found"]
    /\ UNCHANGED <<kind, secure, zips, parts, whole, plays>>

Commit ==
    /\ run.pc = "write"
    /\ run.left = {}
    /\ \/ /\ NoFault
          /\ disk' = IF kind \in Journalled THEN work ELSE disk
          /\ Goto("close")
       \/ /\ kind \in Journalled
          /\ Fault
          /\ run' = [run EXCEPT !.pc = "close", !.r = "error"]
          /\ UNCHANGED disk
    /\ UNCHANGED <<kind, work, secure, zips, parts, whole, plays>>

(* What was not committed is gone.  A close that fails fails the restore.  *)
CloseSave ==
    /\ run.pc = "close"
    /\ work' = Absent
    /\ \/ /\ NoFault
          /\ Goto(IF run.r = "ok" THEN "value" ELSE "done")
       \/ /\ kind = "card"
          /\ Fault
          /\ Return("error")
    /\ UNCHANGED <<kind, disk, secure, zips, parts, whole, plays>>

(* Mutant: a package without a value leaves the console's where it is.     *)
PutValueIfAny ==
    /\ run.pc = "value"
    /\ secure' = IF kind = "card" /\ run.pkg.secure # NoValue THEN run.pkg.secure ELSE secure
    /\ Return("ok")
    /\ UNCHANGED <<kind, disk, work, zips, parts, whole, plays, faults>>

(* The value the package was bound to is written, or the console's removed.*)
(* A failure is a notice and no more.                                      *)
PutSecureValue ==
    /\ run.pc = "value"
    /\ \/ /\ NoFault
          /\ secure' = IF kind = "card" THEN run.pkg.secure ELSE secure
          /\ Return("ok")
       \/ /\ kind = "card"
          /\ Fault
          /\ run' = [run EXCEPT !.pc = "done", !.warned = TRUE]
          /\ UNCHANGED secure
    /\ UNCHANGED <<kind, disk, work, zips, parts, whole, plays>>

-----------------------------------------------------------------------------

(* The caller reports the result; what was staged is removed.              *)
Report ==
    /\ run.pc = "done"
    /\ run' = Idle
    /\ zips' = IF run.op \in {"upload", "download"} THEN Without(zips, Staging) ELSE zips
    /\ UNCHANGED <<kind, disk, work, secure, parts, whole, plays, faults>>

(* The power goes: an archive loses what was not committed.                *)
PowerOff ==
    /\ run.pc # "idle"
    /\ Fault
    /\ run' = Idle
    /\ work' = Absent
    /\ UNCHANGED <<kind, disk, secure, zips, parts, whole, plays>>

Init ==
    /\ kind \in Kinds
    /\ disk = Absent
    /\ work = Absent
    /\ secure = NoValue
    /\ zips = {}
    /\ parts = {}
    /\ run = Idle
    /\ whole = {}
    /\ plays = 0
    /\ faults = 0

Next ==
    \/ Play \/ FirstLaunch
    \/ BackupLocal \/ Upload \/ Download \/ RestoreBackup \/ DeleteBackup
    \/ HashForBackup \/ PackBegin \/ PackFiles \/ PackRename \/ Send
    \/ VerifyPackage \/ OpenSaveWrite \/ RemoveAll \/ WriteFile \/ Commit
    \/ CloseSave \/ PutSecureValue
    \/ Report \/ PowerOff

Spec == Init /\ [][Next]_vars

-----------------------------------------------------------------------------
(* Properties.                                                             *)

Contents == Saves \cup {Absent}
Runs == [op : {"none", "backup", "upload", "restore", "download"},
         pc : {"idle", "hash", "pack", "packing", "rename", "send", "verify", "open",
               "clear", "write", "close", "value", "done"},
         r : Results, name : Names,
         src : [dir : {"zips", "parts"}, name : Names] \cup {None},
         pkg : Packages \cup {None}, left : SUBSET Paths,
         warned : BOOLEAN, missed : BOOLEAN]

(* Every variable has its type, and an nds save no file but its own.       *)
TypeOK ==
    /\ kind \in Kinds
    /\ disk \in Contents
    /\ work \in Contents
    /\ secure \in Values \cup {NoValue}
    /\ zips \subseteq [name : Names, pkg : Packages]
    /\ parts \subseteq [name : Names, pkg : Packages \cup {Half}]
    /\ run \in Runs
    /\ whole \subseteq Saves
    /\ plays \in Nat /\ faults \in Nat
    /\ kind = "nds" => disk = Absent \/ FilesOf(disk) = {SavFile}

(* The saves that came whole: from the game, or from the server in a       *)
(* package of this title that verifies.                                    *)
WholeSaves == whole \cup {i.pkg.files : i \in {j \in Incoming : Verified(j.pkg) /\ j.pkg.mine}}

SavOnly(s) == [EmptySave EXCEPT ![SavFile] = s[SavFile]]

(* What a restore that broke off leaves of an nds save: part of its file,  *)
(* or the file of a package that has others too and was not made from one. *)
Broken(s) ==
    kind = "nds" /\ \/ s[SavFile] = Cut
                    \/ \E i \in Incoming : Accepts(i.pkg) /\ s = SavOnly(i.pkg.files)

(* A package made here, whether kept as a backup or uploaded, is a whole   *)
(* save under its own digest: never an empty one, never some of its files  *)
(* (pack_title_to, daemoon_archive_pack, the .part and the rename).        *)
IsASave(p) ==
    /\ Verified(p) /\ p.mine
    /\ p.files # EmptySave
    /\ p.files \in WholeSaves \/ Broken(p.files)
PackagesAreSaves ==
    /\ \A f \in zips : f.name # Staging => f.name = f.pkg.sha256 /\ IsASave(f.pkg)
    /\ run.pc = "send" => IsASave(run.pkg)

(* An archive with a commit never holds a mixture of two saves, nor part   *)
(* of one, whatever fails during a restore (restore_package's order of     *)
(* verify, unpack and commit; daemoon_archive_unpack clears first).        *)
CommittedIsWhole ==
    kind \in Journalled => disk \in WholeSaves \cup {Absent, EmptySave}

(* A restore that says it worked left exactly the package's files and,     *)
(* unless it warned, the package's secure value or none; and a download    *)
(* what the server announced (restore_package's last step, do_download).   *)
RestoredIsWhole ==
    run.pc = "done" /\ Restoring /\ run.r = "ok" =>
        /\ disk = IF kind = "nds" /\ run.pkg.files = EmptySave THEN Absent ELSE run.pkg.files
        /\ kind = "card" /\ ~ run.warned => secure = run.pkg.secure
        /\ run.op = "download" =>
              \E i \in Incoming : i.pkg = run.pkg /\ i.announced = run.pkg.files

(* What a restore takes from the console is in a backup before it does,    *)
(* unless open_save took a save it could not reach for one that is not     *)
(* there (rule 1 of restore_package).                                      *)
BackedUp(s) == \E f \in zips : f.name # Staging /\ f.pkg.files = s
ReplacedIsBackedUp ==
    [][run.pc # "idle" /\ disk' # disk /\ ~ run.missed =>
          disk \in {Absent, EmptySave} \/ BackedUp(disk)]_vars

-----------------------------------------------------------------------------
(* What comments in the code say and it does not do.                       *)

(* A save that is there is never replaced without a backup: no save yet is *)
(* the only reason to skip it (core/src/sync.c, step 1 of restore_package).*)
NoRestoreWithoutBackup ==
    [][run.pc # "idle" /\ disk' # disk =>
          disk \in {Absent, EmptySave} \/ BackedUp(disk)]_vars

(* A backup that succeeded, of a 3DS save that has a value, has it too     *)
(* (backend.h: the value is part of the save; pack_title_to).              *)
BackupCarriesItsValue ==
    run.pc = "done" /\ run.op = "backup" /\ run.r = "ok" /\ faults = 0
      /\ kind = "card" /\ secure \in Values
        => \E f \in zips : f.name = disk /\ f.pkg.secure = secure
=============================================================================
