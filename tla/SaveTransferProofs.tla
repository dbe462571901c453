------------------------- MODULE SaveTransferProofs -------------------------
(***************************************************************************)
(* Theorems of SaveTransfer for any paths and contents, any packages the   *)
(* server may send and any number of plays and faults.                     *)
(***************************************************************************)
EXTENDS SaveTransfer, TLAPS

(***************************************************************************)
(* Type correctness.                                                       *)
(***************************************************************************)

Holding == {"packing", "rename", "open", "clear", "write", "close", "value"}

\* What the operation has at hand where it needs it.
InHand ==
    /\ run.pc \in Holding => run.pkg \in Packages
    /\ run.pc = "packing" => disk # Absent
    /\ run.pc \in {"clear", "write"} /\ kind # "nds" => work \in Saves
    /\ run.pc = "write" => run.left \subseteq FilesOf(run.pkg.files)

TypeInv == TypeOK /\ InHand

\* No operation is an operation.
LEMMA IdleType == Idle \in Runs
  BY DEF Idle, Runs, Results, Names

\* So is one that has just begun.
LEMMA BeginType ==
    ASSUME NEW op \in {"backup", "upload", "restore", "download"},
           NEW pc \in {"hash", "pack"},
           NEW src \in [dir : {"zips", "parts"}, name : Names] \cup {None},
           Begin(op, pc, src)
    PROVE  run' \in Runs /\ run'.pc = pc
  BY DEF Begin, Idle, Runs, Results, Names

\* An empty save is a save, and has no files.
LEMMA EmptyType == EmptySave \in Saves /\ FilesOf(EmptySave) = {}
  BY DEF EmptySave, Saves, FilesOf

\* What a walk yields is a save.
LEMMA ListingType == ASSUME NEW s \in Saves PROVE Listings(s) \subseteq Saves
  BY DEF Listings, Shortened

\* So is what is left of one.
LEMMA UnlistedType ==
    ASSUME NEW s \in Saves, NEW listed \in Saves PROVE Unlisted(s, listed) \in Saves
  BY DEF Unlisted, Saves

\* Nothing is left of one that was listed in full.
LEMMA UnlistedAll ==
    ASSUME NEW s \in Saves PROVE Unlisted(s, s) = EmptySave
  BY DEF Unlisted, Saves, EmptySave

\* The initial state is well typed.
LEMMA InitType == Init => TypeInv
  BY IdleType DEF Init, TypeInv, TypeOK, InHand, Holding, Contents, Idle

\* A backup that made no package goes on to the restore or is over.
LEMMA NoBackupType ==
    ASSUME run \in Runs, NEW r \in {"not_found", "error"}, NoBackup(r)
    PROVE  run' \in Runs /\ run'.pc \in {"verify", "done"}
  BY DEF NoBackup, Runs, Results, Restoring

\* The game's steps keep the types.
LEMMA PlayType == TypeInv /\ (Play \/ FirstLaunch) => TypeInv'
  <1> SUFFICES ASSUME TypeInv, Play \/ FirstLaunch PROVE TypeInv'
    OBVIOUS
  <1> USE DEF TypeInv
  <1>1. run.pc = "idle" /\ UNCHANGED run
    BY DEF Play, FirstLaunch
  <1>2. InHand'
    BY <1>1 DEF InHand, Holding
  <1>3. CASE Play
    <2>1. PICK s \in [Paths -> Bytes \cup {Gone}], v \in Values :
            /\ kind = "nds" => FilesOf(s) = {SavFile}
            /\ disk' = s
            /\ whole' = whole \cup {s}
            /\ secure' = IF kind = "card" THEN v ELSE secure
      BY <1>3 DEF Play
    <2>2. s \in Saves
      BY DEF Saves
    <2>3. plays' \in Nat
      BY <1>3 DEF Play, TypeOK
    <2> QED
      BY <1>2, <1>3, <2>1, <2>2, <2>3 DEF Play, TypeOK, Contents, FilesOf
  <1>4. CASE FirstLaunch
    BY <1>2, <1>4, EmptyType DEF FirstLaunch, TypeOK, Contents, Journalled
  <1> QED
    BY <1>3, <1>4

\* What starts an operation does.
LEMMA StartType ==
    TypeInv /\ (BackupLocal \/ Upload \/ RestoreBackup \/ DeleteBackup) => TypeInv'
  <1> SUFFICES ASSUME TypeInv, BackupLocal \/ Upload \/ RestoreBackup \/ DeleteBackup
               PROVE  TypeInv'
    OBVIOUS
  <1> USE DEF TypeInv
  <1>1. CASE BackupLocal \/ Upload
    <2>1. run' \in Runs /\ run'.pc \in {"hash", "pack"}
      BY <1>1, BeginType DEF BackupLocal, Upload
    <2> QED
      BY <1>1, <2>1 DEF BackupLocal, Upload, TypeOK, InHand, Holding, FilesOf
  <1>2. CASE RestoreBackup
    <2>1. PICK src \in Offered : Begin("restore", "hash", src)
      BY <1>2 DEF RestoreBackup
    <2>2. src \in [dir : {"zips", "parts"}, name : Names]
      BY DEF Offered, TypeOK
    <2>3. run' \in Runs /\ run'.pc = "hash"
      BY <2>1, <2>2, BeginType
    <2> QED
      BY <1>2, <2>3 DEF RestoreBackup, TypeOK, InHand, Holding, FilesOf
  <1>3. CASE DeleteBackup
    <2>1. zips' \subseteq zips /\ parts' \subseteq parts
      BY <1>3 DEF DeleteBackup, Without
    <2> QED
      BY <1>3, <2>1 DEF DeleteBackup, TypeOK, InHand, Holding, FilesOf
  <1> QED
    BY <1>1, <1>2, <1>3

\* So does a download.
LEMMA DownloadType == TypeInv /\ Download => TypeInv'
  <1> SUFFICES ASSUME TypeInv, Download PROVE TypeInv'
    OBVIOUS
  <1> USE DEF TypeInv
  <1>1. PICK i \in Incoming : zips' = Put(zips, Staging, i.pkg)
    BY DEF Download
  <1>2. i.pkg \in Packages /\ Staging \in Names
    BY Sent DEF Names
  <1>3. zips' \subseteq [name : Names, pkg : Packages]
    BY <1>1, <1>2 DEF Put, Without, File, TypeOK
  <1>4. run' \in Runs /\ run'.pc = "hash"
    <2>1. [dir |-> "zips", name |-> Staging] \in [dir : {"zips", "parts"}, name : Names]
      BY <1>2
    <2> QED
      BY <2>1, BeginType DEF Download
  <1> QED
    BY <1>3, <1>4 DEF Download, TypeOK, InHand, Holding, FilesOf

\* Hashing what the console has keeps the types.
LEMMA HashType == TypeInv /\ HashForBackup => TypeInv'
  <1> SUFFICES ASSUME TypeInv, HashForBackup PROVE TypeInv'
    OBVIOUS
  <1> USE DEF TypeInv
  <1>1. run \in Runs /\ UNCHANGED <<kind, disk, work, secure, zips, parts, whole, plays>>
    BY DEF HashForBackup, TypeOK
  <1>2. faults' \in Nat
    <2>1. NoFault \/ Fault
      BY DEF HashForBackup, Read
    <2> QED
      BY <2>1 DEF NoFault, Fault, TypeOK
  <1>3. run' \in Runs /\ run'.pc \in {"verify", "done", "pack"}
    <2>1. CASE \E r \in {"not_found", "error"} : NoBackup(r)
      BY <1>1, <2>1, NoBackupType
    <2>2. CASE /\ disk # Absent
               /\ \E listed \in Listings(disk) :
                     \/ run' = [run EXCEPT !.pc = IF Restoring THEN "verify" ELSE "done",
                                           !.name = listed]
                     \/ run' = [run EXCEPT !.pc = "pack", !.name = listed]
      <3>1. PICK listed \in Listings(disk) :
              \/ run' = [run EXCEPT !.pc = IF Restoring THEN "verify" ELSE "done",
                                    !.name = listed]
              \/ run' = [run EXCEPT !.pc = "pack", !.name = listed]
        BY <2>2
      <3>2. listed \in Names
        BY <2>2, ListingType DEF TypeOK, Contents, Names
      <3> QED
        BY <1>1, <3>1, <3>2 DEF Runs
    <2> QED
      BY <2>1, <2>2 DEF HashForBackup, Unreachable
  <1> QED
    BY <1>1, <1>2, <1>3 DEF TypeOK, InHand, Holding, FilesOf

\* Beginning a package does.
LEMMA PackBeginType == TypeInv /\ PackBegin => TypeInv'
  <1> SUFFICES ASSUME TypeInv, PackBegin PROVE TypeInv'
    OBVIOUS
  <1> USE DEF TypeInv
  <1>1. run \in Runs /\ UNCHANGED <<kind, disk, work, secure, zips, whole, plays>>
    BY DEF PackBegin, TypeOK
  <1>2. faults' \in Nat
    <2>1. NoFault \/ Fault
      BY DEF PackBegin
    <2> QED
      BY <2>1 DEF NoFault, Fault, TypeOK
  <1>3. CASE UNCHANGED parts /\ \E r \in {"not_found", "error"} : NoBackup(r)
    <2>1. run' \in Runs /\ run'.pc \in {"verify", "done"}
      BY <1>1, <1>3, NoBackupType
    <2> QED
      BY <1>1, <1>2, <1>3, <2>1 DEF TypeOK, InHand, Holding, FilesOf
  <1>4. CASE /\ disk # Absent
             /\ parts' = Put(parts, run.name, Half)
             /\ \E v \in {secure, NoValue} :
                   run' = [run EXCEPT !.pc = "packing", !.pkg =
                             [mine |-> TRUE, files |-> EmptySave,
                              sha256 |-> EmptySave, secure |-> v]]
    <2>1. parts' \subseteq [name : Names, pkg : Packages \cup {Half}]
      BY <1>1, <1>4 DEF Put, Without, File, TypeOK, Runs
    <2>2. run' \in Runs /\ run'.pc = "packing" /\ run'.pkg \in Packages
      <3>1. PICK v \in {secure, NoValue} :
              run' = [run EXCEPT !.pc = "packing", !.pkg =
                        [mine |-> TRUE, files |-> EmptySave,
                         sha256 |-> EmptySave, secure |-> v]]
        BY <1>4
      <3>2. [mine |-> TRUE, files |-> EmptySave, sha256 |-> EmptySave, secure |-> v]
              \in Packages
        BY EmptyType DEF Packages, TypeOK
      <3> QED
        BY <1>1, <3>1, <3>2 DEF Runs
    <2> QED
      BY <1>1, <1>2, <1>4, <2>1, <2>2 DEF TypeOK, InHand, Holding, FilesOf
  <1> QED
    BY <1>3, <1>4 DEF PackBegin, Unreachable

\* So does filling it.
LEMMA PackFilesType == TypeInv /\ PackFiles => TypeInv'
  <1> SUFFICES ASSUME TypeInv, PackFiles PROVE TypeInv'
    OBVIOUS
  <1> USE DEF TypeInv
  <1>1. /\ run \in Runs /\ run.pkg \in Packages /\ disk \in Saves
        /\ UNCHANGED <<kind, disk, work, secure, zips, whole, plays>>
    BY DEF PackFiles, TypeOK, InHand, Holding, Contents
  <1>2. faults' \in Nat
    <2>1. NoFault \/ Fault
      BY DEF PackFiles, Read
    <2> QED
      BY <2>1 DEF NoFault, Fault, TypeOK
  <1>3. CASE NoBackup("error") /\ parts' = Without(parts, run.name)
    <2>1. run' \in Runs /\ run'.pc \in {"verify", "done"}
      BY <1>1, <1>3, NoBackupType
    <2>2. parts' \subseteq parts
      BY <1>3 DEF Without
    <2> QED
      BY <1>1, <1>2, <2>1, <2>2 DEF TypeOK, InHand, Holding, FilesOf
  <1>4. CASE \E listed \in Listings(disk) :
                LET pkg == [run.pkg EXCEPT !.files = listed, !.sha256 = listed]
                IN  /\ run' = [run EXCEPT !.pc = "rename", !.pkg = pkg]
                    /\ parts' = Put(parts, run.name, pkg)
    <2>1. PICK listed \in Listings(disk) :
            LET pkg == [run.pkg EXCEPT !.files = listed, !.sha256 = listed]
            IN  /\ run' = [run EXCEPT !.pc = "rename", !.pkg = pkg]
                /\ parts' = Put(parts, run.name, pkg)
      BY <1>4
    <2>2. [run.pkg EXCEPT !.files = listed, !.sha256 = listed] \in Packages
      BY <1>1, ListingType DEF Packages
    <2>3. parts' \subseteq [name : Names, pkg : Packages \cup {Half}]
      BY <1>1, <2>1, <2>2 DEF Put, Without, File, TypeOK, Runs
    <2>4. run' \in Runs /\ run'.pc = "rename" /\ run'.pkg \in Packages
      BY <1>1, <2>1, <2>2 DEF Runs
    <2> QED
      BY <1>1, <1>2, <2>3, <2>4 DEF TypeOK, InHand, Holding, FilesOf
  <1> QED
    BY <1>3, <1>4 DEF PackFiles

\* So does giving it its name.
LEMMA PackRenameType == TypeInv /\ PackRename => TypeInv'
  <1> SUFFICES ASSUME TypeInv, PackRename PROVE TypeInv'
    OBVIOUS
  <1> USE DEF TypeInv
  <1>1. /\ run \in Runs /\ run.pkg \in Packages
        /\ UNCHANGED <<kind, disk, work, secure, whole, plays>>
    BY DEF PackRename, TypeOK, InHand, Holding
  <1>2. faults' \in Nat
    BY DEF PackRename, NoFault, Fault, TypeOK
  <1>3. parts' \subseteq parts
    BY DEF PackRename, Without
  <1>4. zips' \subseteq [name : Names, pkg : Packages]
    BY <1>1 DEF PackRename, Put, Without, File, TypeOK, Runs
  <1>5. run' \in Runs /\ run'.pc \in {"verify", "send", "done"}
    <2>1. CASE NoBackup("error")
      BY <1>1, <2>1, NoBackupType
    <2>2. CASE Goto(CASE Restoring -> "verify" [] run.op = "upload" -> "send" [] OTHER -> "done")
      BY <1>1, <2>2 DEF Goto, Runs
    <2> QED
      BY <2>1, <2>2 DEF PackRename
  <1> QED
    BY <1>1, <1>2, <1>3, <1>4, <1>5 DEF TypeOK, InHand, Holding, FilesOf

\* So does sending it.
LEMMA SendType == TypeInv /\ Send => TypeInv'
  <1> SUFFICES ASSUME TypeInv, Send PROVE TypeInv'
    OBVIOUS
  <1> USE DEF TypeInv
  <1>1. run' \in Runs /\ run'.pc = "done"
    BY DEF Send, Return, TypeOK, Runs, Results
  <1> QED
    BY <1>1 DEF Send, TypeOK, InHand, Holding, FilesOf

\* Verifying a package keeps the types.
LEMMA VerifyType == TypeInv /\ VerifyPackage => TypeInv'
  <1> SUFFICES ASSUME TypeInv, VerifyPackage PROVE TypeInv'
    OBVIOUS
  <1> USE DEF TypeInv
  <1>1. run \in Runs /\ UNCHANGED <<kind, disk, work, secure, zips, parts, whole, plays>>
    BY DEF VerifyPackage, TypeOK
  <1>2. faults' \in Nat
    <2>1. NoFault \/ Fault
      BY DEF VerifyPackage
    <2> QED
      BY <2>1 DEF NoFault, Fault, TypeOK
  <1>3. \/ run' \in Runs /\ run'.pc = "done"
        \/ run' \in Runs /\ run'.pc = "open" /\ run'.pkg \in Packages
    <2>1. CASE Return("error")
      BY <1>1, <2>1 DEF Return, Runs, Results
    <2>2. CASE \E p \in At(run.src) \ {Half} : run' = [run EXCEPT !.pc = "open", !.pkg = p]
      <3>1. PICK p \in At(run.src) \ {Half} : run' = [run EXCEPT !.pc = "open", !.pkg = p]
        BY <2>2
      <3>2. p \in Packages
        BY DEF At, TypeOK
      <3> QED
        BY <1>1, <3>1, <3>2 DEF Runs
    <2> QED
      BY <2>1, <2>2 DEF VerifyPackage
  <1> QED
    BY <1>1, <1>2, <1>3 DEF TypeOK, InHand, Holding, FilesOf

\* So does opening the save for writing.
LEMMA OpenType == TypeInv /\ OpenSaveWrite => TypeInv'
  <1> SUFFICES ASSUME TypeInv, OpenSaveWrite PROVE TypeInv'
    OBVIOUS
  <1> USE DEF TypeInv
  <1>1. /\ run \in Runs /\ run.pkg \in Packages /\ disk \in Contents
        /\ UNCHANGED <<kind, disk, secure, zips, parts, whole, plays>>
    BY DEF OpenSaveWrite, TypeOK, InHand, Holding
  <1>2. faults' \in Nat
    BY DEF OpenSaveWrite, NoFault, Fault, TypeOK
  <1>3. CASE \/ Return("not_found") /\ UNCHANGED work
             \/ Return("error") /\ UNCHANGED work
    <2>1. run' \in Runs /\ run'.pc = "done"
      BY <1>1, <1>3 DEF Return, Runs, Results
    <2> QED
      BY <1>1, <1>2, <1>3, <2>1 DEF TypeOK, InHand, Holding, FilesOf
  <1>4. CASE /\ kind = "nds" \/ disk # Absent
             /\ work' = IF kind = "nds" THEN Absent ELSE disk
             /\ Goto("clear")
    <2>1. run' \in Runs /\ run'.pc = "clear" /\ run'.pkg \in Packages
      BY <1>1, <1>4 DEF Goto, Runs
    <2>2. work' \in Contents /\ (kind # "nds" => work' \in Saves)
      BY <1>1, <1>4 DEF Contents
    <2> QED
      BY <1>1, <1>2, <2>1, <2>2 DEF TypeOK, InHand, Holding, FilesOf
  <1> QED
    BY <1>3, <1>4 DEF OpenSaveWrite

\* What showing a save changes, and what it may be shown of an nds save.
LEMMA ShowType ==
    ASSUME TypeInv, NEW s \in Saves, Show(s),
           kind = "nds" => FilesOf(s) \subseteq {SavFile}
    PROVE  /\ disk' \in Contents /\ work' \in Contents
           /\ kind # "nds" => UNCHANGED disk /\ work' \in Saves
           /\ kind = "nds" => disk' = Absent \/ FilesOf(disk') = {SavFile}
  <1>1. CASE kind = "nds"
    <2>1. s # EmptySave => FilesOf(s) # {}
      BY DEF EmptySave, Saves, FilesOf
    <2> QED
      BY <1>1, <2>1 DEF Show, Contents, TypeInv, TypeOK
  <1>2. CASE kind # "nds"
    BY <1>2 DEF Show, Contents, TypeInv, TypeOK
  <1> QED
    BY <1>1, <1>2

\* What an open save shows is a save, of no file but its own on an nds card.
LEMMA ShownType ==
    ASSUME TypeInv, run.pc \in {"clear", "write"}
    PROVE  Shown \in Saves /\ (kind = "nds" => FilesOf(Shown) \subseteq {SavFile})
  BY EmptyType DEF TypeInv, TypeOK, InHand, Shown, Contents

\* Clearing a save keeps the types.
LEMMA RemoveAllType == TypeInv /\ RemoveAll => TypeInv'
  <1> SUFFICES ASSUME TypeInv, RemoveAll PROVE TypeInv'
    OBVIOUS
  <1>1. /\ run.pc = "clear" /\ run \in Runs /\ run.pkg \in Packages
        /\ UNCHANGED <<kind, secure, zips, parts, whole, plays>>
    BY DEF RemoveAll, TypeInv, TypeOK, InHand, Holding
  <1>2. Shown \in Saves /\ (kind = "nds" => FilesOf(Shown) \subseteq {SavFile})
    BY <1>1, ShownType
  <1>3. faults' \in Nat
    <2>1. NoFault \/ Fault
      BY DEF RemoveAll, Read
    <2> QED
      BY <2>1 DEF NoFault, Fault, TypeInv, TypeOK
  <1>4. PICK s \in Saves : Show(s) /\ FilesOf(s) \subseteq FilesOf(Shown)
    <2>1. CASE \E listed \in Listings(Shown) : Show(Unlisted(Shown, listed))
      <3>1. PICK listed \in Listings(Shown) : Show(Unlisted(Shown, listed))
        BY <2>1
      <3>2. Unlisted(Shown, listed) \in Saves
        BY <1>2, ListingType, UnlistedType
      <3>3. FilesOf(Unlisted(Shown, listed)) \subseteq FilesOf(Shown)
        BY DEF Unlisted, FilesOf
      <3> QED
        BY <3>1, <3>2, <3>3
    <2>2. CASE \E kept \in SUBSET FilesOf(Shown) :
                 Show([p \in Paths |-> IF p \in kept THEN Shown[p] ELSE Gone])
      <3>1. PICK kept \in SUBSET FilesOf(Shown) :
              Show([p \in Paths |-> IF p \in kept THEN Shown[p] ELSE Gone])
        BY <2>2
      <3>2. [p \in Paths |-> IF p \in kept THEN Shown[p] ELSE Gone] \in Saves
        BY <1>2 DEF Saves
      <3>3. FilesOf([p \in Paths |-> IF p \in kept THEN Shown[p] ELSE Gone])
              \subseteq FilesOf(Shown)
        BY DEF FilesOf
      <3> QED
        BY <3>1, <3>2, <3>3
    <2> QED
      BY <2>1, <2>2 DEF RemoveAll
  <1>5. /\ disk' \in Contents /\ work' \in Contents
        /\ kind # "nds" => UNCHANGED disk /\ work' \in Saves
        /\ kind = "nds" => disk' = Absent \/ FilesOf(disk') = {SavFile}
    BY <1>2, <1>4, ShowType
  <1>6. \/ /\ run' \in Runs /\ run'.pc = "write" /\ run'.pkg \in Packages
           /\ run'.left = FilesOf(run'.pkg.files)
        \/ run' \in Runs /\ run'.pc = "close" /\ run'.pkg \in Packages
    <2>1. FilesOf(run.pkg.files) \subseteq Paths
      BY DEF FilesOf
    <2>2. CASE run' = [run EXCEPT !.pc = "write", !.left = FilesOf(run.pkg.files)]
      BY <1>1, <2>1, <2>2 DEF Runs
    <2>3. CASE run' = [run EXCEPT !.pc = "close", !.r = "error"]
      BY <1>1, <2>3 DEF Runs, Results
    <2> QED
      BY <2>2, <2>3 DEF RemoveAll
  <1> QED
    BY <1>1, <1>3, <1>5, <1>6 DEF TypeInv, TypeOK, InHand, Holding

\* So does writing a file into it.
LEMMA WriteFileType == TypeInv /\ WriteFile => TypeInv'
  <1> SUFFICES ASSUME TypeInv, WriteFile PROVE TypeInv'
    OBVIOUS
  <1>1. /\ run.pc = "write" /\ run \in Runs /\ run.pkg \in Packages
        /\ run.left \subseteq FilesOf(run.pkg.files)
        /\ UNCHANGED <<kind, secure, zips, parts, whole, plays>>
    BY DEF WriteFile, TypeInv, TypeOK, InHand, Holding
  <1>2. Shown \in Saves /\ (kind = "nds" => FilesOf(Shown) \subseteq {SavFile})
    BY <1>1, ShownType
  <1>3. faults' \in Nat
    <2>1. NoFault \/ Fault
      BY DEF WriteFile
    <2> QED
      BY <2>1 DEF NoFault, Fault, TypeInv, TypeOK
  <1>4. PICK p \in run.left :
          \/ /\ Writable(p)
             /\ Show([Shown EXCEPT ![p] = run.pkg.files[p]])
             /\ run' = [run EXCEPT !.left = @ \ {p}]
          \/ /\ Writable(p)
             /\ \E b \in {Shown[p], Cut} : Show([Shown EXCEPT ![p] = b])
             /\ run' = [run EXCEPT !.pc = "close", !.r = "error"]
          \/ /\ UNCHANGED <<disk, work>>
             /\ run' = [run EXCEPT !.pc = "close", !.r = "not_found"]
    BY DEF WriteFile
  <1>5. p \in Paths /\ run.pkg.files \in Saves /\ run.pkg.files[p] \in Bytes \cup {Gone, Cut}
    BY <1>1 DEF FilesOf, Packages, Saves
  <1>6. \/ run' \in Runs /\ run'.pc = "close" /\ run'.pkg \in Packages
        \/ /\ run' \in Runs /\ run'.pc = "write" /\ run'.pkg \in Packages
           /\ run'.left \subseteq FilesOf(run'.pkg.files)
    <2>1. CASE run' = [run EXCEPT !.left = @ \ {p}]
      BY <1>1, <2>1 DEF Runs
    <2>2. CASE \E r \in {"error", "not_found"} : run' = [run EXCEPT !.pc = "close", !.r = r]
      BY <1>1, <2>2 DEF Runs, Results
    <2> QED
      BY <1>4, <2>1, <2>2
  <1>7. CASE UNCHANGED <<disk, work>>
    BY <1>1, <1>3, <1>6, <1>7 DEF TypeInv, TypeOK, InHand, Holding
  <1>8. CASE Writable(p) /\ \E b \in Bytes \cup {Gone, Cut} : Show([Shown EXCEPT ![p] = b])
    <2>1. PICK b \in Bytes \cup {Gone, Cut} : Show([Shown EXCEPT ![p] = b])
      BY <1>8
    <2>2. [Shown EXCEPT ![p] = b] \in Saves
      BY <1>2, <1>5 DEF Saves
    <2>3. kind = "nds" => FilesOf([Shown EXCEPT ![p] = b]) \subseteq {SavFile}
      BY <1>2, <1>5, <1>8 DEF Writable, FilesOf, Saves
    <2>4. /\ disk' \in Contents /\ work' \in Contents
          /\ kind # "nds" => UNCHANGED disk /\ work' \in Saves
          /\ kind = "nds" => disk' = Absent \/ FilesOf(disk') = {SavFile}
      BY <2>1, <2>2, <2>3, ShowType
    <2> QED
      BY <1>1, <1>3, <1>6, <2>4 DEF TypeInv, TypeOK, InHand, Holding
  <1>9. Shown[p] \in Bytes \cup {Gone, Cut}
    BY <1>2, <1>5 DEF Saves
  <1> QED
    BY <1>4, <1>5, <1>7, <1>8, <1>9

\* So does committing it.
LEMMA CommitType == TypeInv /\ Commit => TypeInv'
  <1> SUFFICES ASSUME TypeInv, Commit PROVE TypeInv'
    OBVIOUS
  <1>1. /\ run.pc = "write" /\ run \in Runs /\ run.pkg \in Packages
        /\ UNCHANGED <<kind, work, secure, zips, parts, whole, plays>>
    BY DEF Commit, TypeInv, TypeOK, InHand, Holding
  <1>2. faults' \in Nat
    BY DEF Commit, NoFault, Fault, TypeInv, TypeOK
  <1>3. run' \in Runs /\ run'.pc = "close" /\ run'.pkg \in Packages
    BY <1>1 DEF Commit, Goto, Runs, Results
  <1>4. disk' \in Contents /\ (kind = "nds" => UNCHANGED disk)
    BY <1>1 DEF Commit, TypeInv, TypeOK, Journalled
  <1> QED
    BY <1>1, <1>2, <1>3, <1>4 DEF TypeInv, TypeOK, InHand, Holding

\* So do the steps after the commit, and the power going.
LEMMA FinishType ==
    TypeInv /\ (CloseSave \/ PutSecureValue \/ Report \/ PowerOff) => TypeInv'
  <1> SUFFICES ASSUME TypeInv, CloseSave \/ PutSecureValue \/ Report \/ PowerOff
               PROVE  TypeInv'
    OBVIOUS
  <1> USE DEF TypeInv
  <1>1. CASE CloseSave
    <2>1. run \in Runs /\ run.pkg \in Packages
      BY <1>1 DEF CloseSave, TypeOK, InHand, Holding
    <2>2. run' \in Runs /\ run'.pc \in {"value", "done"} /\ run'.pkg \in Packages
      BY <1>1, <2>1 DEF CloseSave, Goto, Return, Runs, Results
    <2>3. faults' \in Nat
      BY <1>1 DEF CloseSave, NoFault, Fault, TypeOK
    <2> QED
      BY <1>1, <2>2, <2>3 DEF CloseSave, TypeOK, InHand, Holding, Contents
  <1>2. CASE PutSecureValue
    <2>1. run' \in Runs /\ run'.pc = "done"
      BY <1>2 DEF PutSecureValue, Return, TypeOK, Runs, Results
    <2>2. secure' \in Values \cup {NoValue}
      BY <1>2 DEF PutSecureValue, TypeOK, InHand, Holding, Packages
    <2>3. faults' \in Nat
      BY <1>2 DEF PutSecureValue, NoFault, Fault, TypeOK
    <2> QED
      BY <1>2, <2>1, <2>2, <2>3 DEF PutSecureValue, TypeOK, InHand, Holding
  <1>3. CASE Report
    <2>1. zips' \subseteq zips /\ run' = Idle
      BY <1>3 DEF Report, Without
    <2> QED
      BY <1>3, <2>1, IdleType DEF Report, TypeOK, InHand, Holding, Idle
  <1>4. CASE PowerOff
    BY <1>4, IdleType DEF PowerOff, Fault, TypeOK, InHand, Holding, Idle, Contents
  <1> QED
    BY <1>1, <1>2, <1>3, <1>4

\* No step takes a variable out of its type.
LEMMA StepType == TypeInv /\ [Next]_vars => TypeInv'
  <1> SUFFICES ASSUME TypeInv, [Next]_vars PROVE TypeInv'
    OBVIOUS
  <1>1. CASE UNCHANGED vars
    BY <1>1 DEF vars, TypeInv, TypeOK, InHand, FilesOf
  <1>2. CASE Next
    BY <1>2, PlayType, StartType, DownloadType, HashType, PackBeginType, PackFilesType,
       PackRenameType, SendType, VerifyType, OpenType, RemoveAllType, WriteFileType,
       CommitType, FinishType DEF Next
  <1> QED
    BY <1>1, <1>2

\* Every variable keeps its type and an nds save has no file but its own,
\* whatever the packages name and whatever fails (core/src/sync.c with the
\* save backends).
THEOREM TypeCorrect == Spec => []TypeOK
  <1>1. TypeInv => TypeOK
    BY DEF TypeInv
  <1> QED
    BY <1>1, InitType, StepType, PTL DEF Spec

(***************************************************************************)
(* An archive with a commit never holds a mixture of two saves.            *)
(***************************************************************************)

\* What an archive may hold, and what a package of the title that verifies has.
Fit == WholeSaves \cup {Absent, EmptySave}
Sound(f) == f.pkg # Half /\ Verified(f.pkg) /\ f.pkg.mine => f.pkg.files \in Fit

\* Packages hold what an archive held; a restore writes what it verified, and
\* what it has written so far is the package's.
WholeInv ==
    kind \in Journalled =>
        /\ disk \in Fit
        /\ \A f \in zips \cup parts : Sound(f)
        /\ run.pc \in {"rename", "open", "clear", "write"} => run.pkg.files \in Fit
        /\ run.pc = "write" => \A p \in Paths \ run.left : work[p] = run.pkg.files[p]

\* A backup that made no package takes nothing in hand.
LEMMA NoBackupEnds ==
    ASSUME TypeInv, NEW r \in {"not_found", "error"}, NoBackup(r)
    PROVE  run'.pc \in {"verify", "done"}
  BY NoBackupType DEF TypeInv, TypeOK

\* What was whole stays so while the game writes more.
LEMMA FitGrows ==
    ASSUME whole \subseteq whole'
    PROVE  Fit \subseteq Fit' /\ \A f : Sound(f) => Sound(f)'
  BY DEF Fit, WholeSaves, Sound, Verified

\* No step breaks it, if a directory that cannot be read is told from its end.
LEMMA WholeStep ==
    ASSUME ~ ShortReads, TypeInv, WholeInv, [Next]_vars
    PROVE  WholeInv'
  <1> SUFFICES ASSUME kind' \in Journalled
               PROVE  /\ disk' \in Fit'
                      /\ \A f \in zips' \cup parts' : Sound(f)'
                      /\ run'.pc \in {"rename", "open", "clear", "write"}
                           => run'.pkg.files \in Fit'
                      /\ run'.pc = "write"
                           => \A p \in Paths \ run'.left : work'[p] = run'.pkg.files[p]
    BY DEF WholeInv
  <1>1. kind \in Journalled /\ UNCHANGED kind /\ kind # "nds"
    BY DEF Next, vars, Play, FirstLaunch, BackupLocal, Upload, Download, RestoreBackup,
       DeleteBackup, HashForBackup, PackBegin, PackFiles, PackRename, Send, VerifyPackage,
       OpenSaveWrite, RemoveAll, WriteFile, Commit, CloseSave, PutSecureValue, Report,
       PowerOff, Journalled
  <1>2. whole \subseteq whole'
    BY DEF Next, vars, Play, FirstLaunch, BackupLocal, Upload, Download, RestoreBackup,
       DeleteBackup, HashForBackup, PackBegin, PackFiles, PackRename, Send, VerifyPackage,
       OpenSaveWrite, RemoveAll, WriteFile, Commit, CloseSave, PutSecureValue, Report,
       PowerOff
  <1>3. /\ disk \in Fit'
        /\ \A f \in zips \cup parts : Sound(f)'
        /\ run.pc \in {"rename", "open", "clear", "write"} => run.pkg.files \in Fit'
        /\ run.pc = "write" => \A p \in Paths \ run.left : work[p] = run.pkg.files[p]
    BY <1>1, <1>2, FitGrows DEF WholeInv
  <1>4. run \in Runs /\ (run.pc \in Holding => run.pkg \in Packages)
    BY DEF TypeInv, TypeOK, InHand
  <1>5. \A s : Listings(s) = {s}
    BY DEF Listings
  <1>6. Absent \in Fit' /\ EmptySave \in Fit'
    BY DEF Fit
  <1>7. CASE UNCHANGED vars
    BY <1>3, <1>7 DEF vars
  <1>8. CASE Play
    <2>1. disk' \in whole'
      BY <1>8 DEF Play
    <2>2. disk' \in Fit'
      BY <2>1 DEF Fit, WholeSaves
    <2> QED
      BY <1>3, <1>8, <2>2 DEF Play
  <1>9. CASE FirstLaunch
    BY <1>3, <1>6, <1>9 DEF FirstLaunch
  <1>10. CASE BackupLocal \/ Upload \/ RestoreBackup
    <2>1. run'.pc \in {"hash", "pack"}
      BY <1>10 DEF BackupLocal, Upload, RestoreBackup, Begin, Idle
    <2> QED
      BY <1>3, <1>10, <2>1 DEF BackupLocal, Upload, RestoreBackup
  <1>11. CASE Download
    <2>1. PICK i \in Incoming : zips' = Put(zips, Staging, i.pkg)
      BY <1>11 DEF Download
    <2>2. Sound(File(Staging, i.pkg))'
      BY DEF Sound, Fit, WholeSaves, File, Verified
    <2>3. \A f \in zips' : Sound(f)'
      BY <1>3, <2>1, <2>2 DEF Put, Without
    <2>4. run'.pc = "hash"
      BY <1>11 DEF Download, Begin, Idle
    <2> QED
      BY <1>3, <1>11, <2>3, <2>4 DEF Download
  <1>12. CASE DeleteBackup
    <2>1. zips' \subseteq zips /\ parts' \subseteq parts
      BY <1>12 DEF DeleteBackup, Without
    <2> QED
      BY <1>3, <1>12, <2>1 DEF DeleteBackup
  <1>13. CASE HashForBackup
    <2>1. run'.pc \in {"verify", "done", "pack"}
      BY <1>4, <1>13, NoBackupEnds DEF HashForBackup, Unreachable, Runs
    <2> QED
      BY <1>3, <1>13, <2>1 DEF HashForBackup
  <1>14. CASE PackBegin
    <2>1. run'.pc \in {"verify", "done", "packing"}
      BY <1>4, <1>14, NoBackupEnds DEF PackBegin, Unreachable, Runs
    <2>2. \A f \in parts' : Sound(f)'
      BY <1>3, <1>14 DEF PackBegin, Put, Without, File, Sound
    <2> QED
      BY <1>3, <1>14, <2>1, <2>2 DEF PackBegin
  <1>15. CASE PackFiles
    <2>1. CASE NoBackup("error") /\ parts' = Without(parts, run.name)
      <3>1. run'.pc \in {"verify", "done"}
        BY <2>1, NoBackupEnds
      <3> QED
        BY <1>3, <1>15, <2>1, <3>1 DEF PackFiles, Without
    <2>2. CASE LET pkg == [run.pkg EXCEPT !.files = disk, !.sha256 = disk]
               IN  /\ run' = [run EXCEPT !.pc = "rename", !.pkg = pkg]
                   /\ parts' = Put(parts, run.name, pkg)
      <3>1. run.pkg \in Packages
        BY <1>4, <1>15 DEF PackFiles, Holding
      <3>2. run'.pc = "rename" /\ run'.pkg.files = disk /\ parts' = Put(parts, run.name, run'.pkg)
        BY <1>4, <2>2, <3>1 DEF Runs, Packages
      <3>3. \A f \in parts' : Sound(f)'
        BY <1>3, <3>2 DEF Put, Without, File, Sound
      <3> QED
        BY <1>3, <1>15, <3>2, <3>3 DEF PackFiles
    <2> QED
      BY <1>5, <1>15, <2>1, <2>2 DEF PackFiles
  <1>16. CASE PackRename
    <2>1. run'.pc \in {"verify", "done", "send"}
      BY <1>4, <1>16, NoBackupEnds DEF PackRename, Goto, Runs
    <2>2. run.pkg.files \in Fit'
      BY <1>3, <1>16 DEF PackRename
    <2>3. \A f \in zips' \cup parts' : Sound(f)'
      BY <1>3, <1>16, <2>2 DEF PackRename, Put, Without, File, Sound
    <2> QED
      BY <1>3, <1>16, <2>1, <2>3 DEF PackRename
  <1>17. CASE Send
    <2>1. run'.pc = "done"
      BY <1>4, <1>17 DEF Send, Return, Runs
    <2> QED
      BY <1>3, <1>17, <2>1 DEF Send
  <1>18. CASE VerifyPackage
    <2>1. \/ run'.pc = "done"
          \/ run'.pc = "open" /\ run'.pkg.files \in Fit'
      <3>1. CASE Return("error")
        BY <1>4, <3>1 DEF Return, Runs
      <3>2. CASE \E p \in At(run.src) \ {Half} :
                    Accepts(p) /\ run' = [run EXCEPT !.pc = "open", !.pkg = p]
        <4>1. PICK p \in At(run.src) \ {Half} :
                Accepts(p) /\ run' = [run EXCEPT !.pc = "open", !.pkg = p]
          BY <3>2
        <4>2. PICK f \in zips \cup parts : f.pkg = p
          BY DEF At
        <4>3. p.files \in Fit'
          BY <1>3, <4>1, <4>2 DEF Sound, Accepts, Verified
        <4> QED
          BY <1>4, <4>1, <4>3 DEF Runs
      <3> QED
        BY <1>18, <3>1, <3>2 DEF VerifyPackage
    <2> QED
      BY <1>3, <1>18, <2>1 DEF VerifyPackage
  <1>19. CASE OpenSaveWrite
    <2>1. run'.pc \in {"clear", "done"} /\ UNCHANGED run.pkg
      BY <1>4, <1>19 DEF OpenSaveWrite, Goto, Return, Runs
    <2> QED
      BY <1>3, <1>19, <2>1 DEF OpenSaveWrite
  <1>20. CASE RemoveAll
    <2>1. UNCHANGED <<disk, zips, parts>> /\ work \in Saves /\ run.pkg \in Packages
      BY <1>1, <1>4, <1>20 DEF RemoveAll, Show, TypeInv, InHand, Holding
    <2>2. CASE run' = [run EXCEPT !.pc = "close", !.r = "error"]
      BY <1>3, <1>4, <2>1, <2>2 DEF Runs
    <2>3. CASE /\ \E listed \in Listings(Shown) : Show(Unlisted(Shown, listed))
               /\ run' = [run EXCEPT !.pc = "write", !.left = FilesOf(run.pkg.files)]
      <3>1. work' = EmptySave
        BY <1>1, <1>5, <2>1, <2>3, UnlistedAll DEF Show, Shown
      <3>2. /\ run'.pc = "write" /\ run'.pkg = run.pkg
            /\ run'.left = FilesOf(run.pkg.files)
        BY <1>4, <2>3 DEF Runs
      <3>3. \A p \in Paths \ run'.left : work'[p] = run'.pkg.files[p]
        BY <3>1, <3>2 DEF EmptySave, FilesOf
      <3> QED
        BY <1>3, <1>20, <2>1, <3>2, <3>3 DEF RemoveAll
    <2> QED
      BY <1>20, <2>2, <2>3 DEF RemoveAll
  <1>21. CASE WriteFile
    <2>1. UNCHANGED <<disk, zips, parts>> /\ work \in Saves
      BY <1>1, <1>21 DEF WriteFile, Show, TypeInv, InHand
    <2>2. CASE \E r \in {"error", "not_found"} : run' = [run EXCEPT !.pc = "close", !.r = r]
      BY <1>3, <1>4, <2>1, <2>2 DEF Runs
    <2>3. CASE \E p \in run.left : /\ Show([Shown EXCEPT ![p] = run.pkg.files[p]])
                                  /\ run' = [run EXCEPT !.left = @ \ {p}]
      <3>1. PICK p \in run.left : /\ Show([Shown EXCEPT ![p] = run.pkg.files[p]])
                                 /\ run' = [run EXCEPT !.left = @ \ {p}]
        BY <2>3
      <3>2. work' = [work EXCEPT ![p] = run.pkg.files[p]]
        BY <1>1, <3>1 DEF Show, Shown
      <3>3. run'.pc = "write" /\ run'.pkg = run.pkg /\ run'.left = run.left \ {p}
        BY <1>4, <1>21, <3>1 DEF WriteFile, Runs
      <3>4. \A q \in Paths \ run'.left : work'[q] = run'.pkg.files[q]
        BY <1>3, <1>21, <2>1, <3>2, <3>3 DEF WriteFile, Saves
      <3> QED
        BY <1>3, <1>21, <2>1, <3>3, <3>4 DEF WriteFile
    <2> QED
      BY <1>21, <2>2, <2>3 DEF WriteFile
  <1>22. CASE Commit
    <2>1. run'.pc = "close"
      BY <1>4, <1>22 DEF Commit, Goto, Runs
    <2>2. work = run.pkg.files
      <3>1. work \in Saves /\ run.pkg.files \in Saves
        BY <1>1, <1>4, <1>22 DEF Commit, TypeInv, InHand, Holding, Packages
      <3>2. \A p \in Paths : work[p] = run.pkg.files[p]
        BY <1>3, <1>22 DEF Commit
      <3> QED
        BY <3>1, <3>2 DEF Saves
    <2>3. disk' \in Fit'
      BY <1>1, <1>3, <1>22, <2>2 DEF Commit
    <2> QED
      BY <1>3, <1>22, <2>1, <2>3 DEF Commit
  <1>23. CASE CloseSave
    <2>1. run'.pc \in {"value", "done"}
      BY <1>4, <1>23 DEF CloseSave, Goto, Return, Runs
    <2> QED
      BY <1>3, <1>23, <2>1 DEF CloseSave
  <1>24. CASE PutSecureValue
    <2>1. run'.pc = "done"
      BY <1>4, <1>24 DEF PutSecureValue, Return, Runs
    <2> QED
      BY <1>3, <1>24, <2>1 DEF PutSecureValue
  <1>25. CASE Report
    <2>1. run'.pc = "idle" /\ zips' \subseteq zips
      BY <1>25 DEF Report, Idle, Without
    <2> QED
      BY <1>3, <1>25, <2>1 DEF Report
  <1>26. CASE PowerOff
    <2>1. run'.pc = "idle"
      BY <1>26 DEF PowerOff, Idle
    <2> QED
      BY <1>3, <1>26, <2>1 DEF PowerOff
  <1> QED
    BY <1>7, <1>8, <1>9, <1>10, <1>11, <1>12, <1>13, <1>14, <1>15, <1>16, <1>17, <1>18,
       <1>19, <1>20, <1>21, <1>22, <1>23, <1>24, <1>25, <1>26 DEF Next

\* Whatever fails during a restore, an archive with a commit holds what the
\* game wrote, a whole package that verified, or nothing, unless a directory
\* that cannot be read looks like its end (restore_package, core/src/sync.c;
\* daemoon_archive_unpack, core/src/archive.c).
THEOREM CommittedStaysWhole == ~ ShortReads => (Spec => []CommittedIsWhole)
  <1> SUFFICES ASSUME ~ ShortReads PROVE Spec => []CommittedIsWhole
    OBVIOUS
  <1>1. Init => TypeInv /\ WholeInv
    <2>1. Init => WholeInv
      BY DEF Init, WholeInv, Fit, Idle
    <2> QED
      BY <2>1, InitType
  <1>2. TypeInv /\ WholeInv /\ [Next]_vars => (TypeInv /\ WholeInv)'
    BY StepType, WholeStep
  <1>3. TypeInv /\ WholeInv => CommittedIsWhole
    BY DEF WholeInv, CommittedIsWhole, Fit
  <1> QED
    BY <1>1, <1>2, <1>3, PTL DEF Spec

(***************************************************************************)
(* What a restore replaces is in a backup first.                           *)
(***************************************************************************)

\* There is nothing on the console to lose.
Spared == disk \in {Absent, EmptySave} \/ BackedUp(disk)

\* Backups are named for what they hold; a package in the making is named for
\* what the archive holds; a restore that has come past its backup has one,
\* and on an nds card, once the file is gone, writes it only once.
BackupInv ==
    /\ \A f \in zips : f.name # Staging => f.pkg.files = f.name
    /\ run.pc = "hash" => run.op # "upload"
    /\ run.pc \in {"pack", "packing", "rename"} =>
          run.name = IF run.op = "upload" THEN Staging ELSE disk
    /\ run.pc = "rename" /\ run.op # "upload" => run.pkg.files = disk
    /\ run.pc \in {"verify", "open", "clear"} /\ ~ run.missed => Spared
    /\ run.pc = "write" /\ ~ run.missed =>
          IF kind = "nds" THEN SavFile \in run.left => disk = Absent ELSE Spared

\* A restore goes on without a backup only if there was nothing to back up.
LEMMA NoBackupSpares ==
    ASSUME TypeInv, NEW r \in {"not_found", "error"}, NoBackup(r)
    PROVE  /\ run'.pc \in {"verify", "done"}
           /\ run'.pc = "verify" /\ ~ run'.missed => disk = Absent
  BY DEF NoBackup, TypeInv, TypeOK, Runs

\* No step breaks it, if a directory that cannot be read is told from its end.
LEMMA BackupStep ==
    ASSUME ~ ShortReads, TypeInv, BackupInv, [Next]_vars
    PROVE  BackupInv'
  <1>1. run \in Runs /\ disk \in Contents /\ (run.pc \in Holding => run.pkg \in Packages)
    BY DEF TypeInv, TypeOK, InHand
  <1>2. \A s : Listings(s) = {s}
    BY DEF Listings
  <1>3. CASE UNCHANGED vars
    BY <1>3 DEF vars, BackupInv, Spared, BackedUp
  <1>4. CASE Play \/ FirstLaunch
    BY <1>4 DEF Play, FirstLaunch, BackupInv
  <1>5. CASE BackupLocal \/ Upload \/ RestoreBackup
    <2>1. \/ run'.pc = "hash" /\ run'.op # "upload"
          \/ run'.pc = "pack" /\ run'.op = "upload" /\ run'.name = Staging
      BY <1>5 DEF BackupLocal, Upload, RestoreBackup, Begin, Idle
    <2> QED
      BY <1>5, <2>1 DEF BackupLocal, Upload, RestoreBackup, BackupInv
  <1>6. CASE Download
    <2>1. run'.pc = "hash" /\ run'.op # "upload"
      BY <1>6 DEF Download, Begin, Idle
    <2>2. \A f \in zips' : f.name # Staging => f \in zips
      BY <1>6 DEF Download, Put, Without, File
    <2> QED
      BY <2>1, <2>2 DEF BackupInv
  <1>7. CASE DeleteBackup
    <2>1. zips' \subseteq zips /\ run.pc = "idle" /\ UNCHANGED run
      BY <1>7 DEF DeleteBackup, Without
    <2> QED
      BY <2>1 DEF BackupInv
  <1>8. CASE HashForBackup
    <2>1. UNCHANGED <<disk, zips>> /\ run.op # "upload"
      BY <1>8 DEF HashForBackup, BackupInv
    <2>2. CASE \E r \in {"not_found", "error"} : NoBackup(r)
      <3>1. /\ run'.pc \in {"verify", "done"}
            /\ run'.pc = "verify" /\ ~ run'.missed => disk = Absent
        BY <2>2, NoBackupSpares
      <3> QED
        BY <2>1, <3>1 DEF BackupInv, Spared
    <2>3. CASE /\ Exists(zips, disk) /\ disk # Absent
               /\ run' = [run EXCEPT !.pc = IF Restoring THEN "verify" ELSE "done",
                                     !.name = disk]
      <3>1. disk # Staging
        BY <1>1, <2>3, Distinct DEF Contents
      <3>2. Spared'
        BY <2>1, <2>3, <3>1 DEF Exists, BackupInv, Spared, BackedUp
      <3>3. run'.pc \in {"verify", "done"}
        BY <1>1, <2>3 DEF Runs
      <3> QED
        BY <2>1, <3>2, <3>3 DEF BackupInv
    <2>4. CASE run' = [run EXCEPT !.pc = "pack", !.name = disk]
      <3>1. run'.pc = "pack" /\ run'.op # "upload" /\ run'.name = disk
        BY <1>1, <2>1, <2>4 DEF Runs
      <3> QED
        BY <2>1, <3>1 DEF BackupInv
    <2> QED
      BY <1>2, <1>8, <2>2, <2>3, <2>4 DEF HashForBackup, Unreachable
  <1>9. CASE PackBegin
    <2>1. UNCHANGED <<disk, zips>> /\ run.pc = "pack"
      BY <1>9 DEF PackBegin
    <2>2. CASE \E r \in {"not_found", "error"} : NoBackup(r)
      <3>1. /\ run'.pc \in {"verify", "done"}
            /\ run'.pc = "verify" /\ ~ run'.missed => disk = Absent
        BY <2>2, NoBackupSpares
      <3> QED
        BY <2>1, <3>1 DEF BackupInv, Spared
    <2>3. CASE run'.pc = "packing" /\ run'.op = run.op /\ run'.name = run.name
      BY <2>1, <2>3 DEF BackupInv
    <2> QED
      BY <1>1, <1>9, <2>2, <2>3 DEF PackBegin, Unreachable, Runs
  <1>10. CASE PackFiles
    <2>1. UNCHANGED <<disk, zips>> /\ run.pc = "packing" /\ run.pkg \in Packages
      BY <1>1, <1>10 DEF PackFiles, Holding
    <2>2. CASE NoBackup("error")
      <3>1. /\ run'.pc \in {"verify", "done"}
            /\ run'.pc = "verify" /\ ~ run'.missed => disk = Absent
        BY <2>2, NoBackupSpares
      <3> QED
        BY <2>1, <3>1 DEF BackupInv, Spared
    <2>3. CASE run' = [run EXCEPT !.pc = "rename",
                                  !.pkg = [run.pkg EXCEPT !.files = disk, !.sha256 = disk]]
      <3>1. /\ run'.pc = "rename" /\ run'.op = run.op /\ run'.name = run.name
            /\ run'.pkg.files = disk
        BY <1>1, <2>1, <2>3 DEF Runs, Packages
      <3> QED
        BY <2>1, <3>1 DEF BackupInv
    <2> QED
      BY <1>2, <1>10, <2>2, <2>3 DEF PackFiles
  <1>11. CASE PackRename
    <2>1. UNCHANGED disk /\ run.pc = "rename"
      BY <1>11 DEF PackRename
    <2>2. CASE NoBackup("error") /\ UNCHANGED zips
      <3>1. /\ run'.pc \in {"verify", "done"}
            /\ run'.pc = "verify" /\ ~ run'.missed => disk = Absent
        BY <2>2, NoBackupSpares
      <3> QED
        BY <2>1, <2>2, <3>1 DEF BackupInv, Spared
    <2>3. CASE /\ zips' = Put(zips, run.name, run.pkg)
               /\ Goto(CASE Restoring -> "verify" [] run.op = "upload" -> "send"
                         [] OTHER -> "done")
      <3>1. /\ run'.pc \in {"verify", "send", "done"}
            /\ run'.pc = "verify" => run.op # "upload"
        BY <1>1, <2>3 DEF Goto, Restoring, Runs
      <3>2. \A f \in zips' : f.name # Staging => f.pkg.files = f.name
        BY <2>1, <2>3 DEF Put, Without, File, BackupInv
      <3>3. run.op # "upload" => Spared'
        <4>1. ASSUME run.op # "upload" PROVE File(disk, run.pkg) \in zips' /\ run.pkg.files = disk
          BY <2>1, <2>3, <4>1 DEF Put, BackupInv
        <4>2. disk # Absent => disk # Staging
          BY <1>1, Distinct DEF Contents
        <4> QED
          BY <2>1, <4>1, <4>2 DEF Spared, BackedUp, File
      <3> QED
        BY <3>1, <3>2, <3>3 DEF BackupInv
    <2> QED
      BY <1>11, <2>2, <2>3 DEF PackRename
  <1>12. CASE Send
    <2>1. run'.pc = "done"
      BY <1>1, <1>12 DEF Send, Return, Runs
    <2> QED
      BY <1>12, <2>1 DEF Send, BackupInv
  <1>13. CASE VerifyPackage
    <2>1. run'.pc \in {"done", "open"} /\ run'.missed = run.missed
      BY <1>1, <1>13 DEF VerifyPackage, Return, Runs
    <2> QED
      BY <1>13, <2>1 DEF VerifyPackage, BackupInv, Spared, BackedUp
  <1>14. CASE OpenSaveWrite
    <2>1. run'.pc \in {"done", "clear"} /\ run'.missed = run.missed
      BY <1>1, <1>14 DEF OpenSaveWrite, Goto, Return, Runs
    <2> QED
      BY <1>14, <2>1 DEF OpenSaveWrite, BackupInv, Spared, BackedUp
  <1>15. CASE RemoveAll
    <2>1. run.pc = "clear" /\ UNCHANGED <<kind, zips>> /\ Shown \in Saves
      BY <1>15, ShownType DEF RemoveAll
    <2>2. CASE run' = [run EXCEPT !.pc = "close", !.r = "error"]
      <3>1. run'.pc = "close"
        BY <1>1, <2>2 DEF Runs
      <3> QED
        BY <2>1, <3>1 DEF BackupInv
    <2>3. CASE /\ \E listed \in Listings(Shown) : Show(Unlisted(Shown, listed))
               /\ run' = [run EXCEPT !.pc = "write", !.left = FilesOf(run.pkg.files)]
      <3>1. run'.pc = "write" /\ run'.missed = run.missed
        BY <1>1, <2>3 DEF Runs
      <3>2. kind = "nds" => disk' = Absent
        BY <1>2, <2>1, <2>3, UnlistedAll DEF Show
      <3>3. kind # "nds" => UNCHANGED disk
        BY <2>3 DEF Show
      <3> QED
        BY <2>1, <3>1, <3>2, <3>3 DEF BackupInv, Spared, BackedUp
    <2> QED
      BY <1>15, <2>2, <2>3 DEF RemoveAll
  <1>16. CASE WriteFile
    <2>1. run.pc = "write" /\ UNCHANGED <<kind, zips>>
      BY <1>16 DEF WriteFile
    <2>2. CASE \E r \in {"error", "not_found"} : run' = [run EXCEPT !.pc = "close", !.r = r]
      <3>1. run'.pc = "close"
        BY <1>1, <2>2 DEF Runs
      <3> QED
        BY <2>1, <3>1 DEF BackupInv
    <2>3. CASE \E p \in run.left : /\ Writable(p)
                                  /\ Show([Shown EXCEPT ![p] = run.pkg.files[p]])
                                  /\ run' = [run EXCEPT !.left = @ \ {p}]
      <3>1. PICK p \in run.left : /\ Writable(p)
                                 /\ Show([Shown EXCEPT ![p] = run.pkg.files[p]])
                                 /\ run' = [run EXCEPT !.left = @ \ {p}]
        BY <2>3
      <3>2. run'.pc = "write" /\ run'.missed = run.missed /\ run'.left = run.left \ {p}
        BY <1>1, <2>1, <3>1 DEF Runs
      <3>3. kind = "nds" => SavFile \notin run'.left
        BY <3>1, <3>2 DEF Writable
      <3>4. kind # "nds" => UNCHANGED disk
        BY <3>1 DEF Show
      <3> QED
        BY <2>1, <3>2, <3>3, <3>4 DEF BackupInv, Spared, BackedUp
    <2> QED
      BY <1>16, <2>2, <2>3 DEF WriteFile
  <1>17. CASE Commit
    <2>1. run'.pc = "close" /\ UNCHANGED zips
      BY <1>1, <1>17 DEF Commit, Goto, Runs
    <2> QED
      BY <2>1 DEF BackupInv
  <1>18. CASE CloseSave
    <2>1. run'.pc \in {"value", "done"} /\ UNCHANGED zips
      BY <1>1, <1>18 DEF CloseSave, Goto, Return, Runs
    <2> QED
      BY <2>1 DEF BackupInv
  <1>19. CASE PutSecureValue
    <2>1. run'.pc = "done" /\ UNCHANGED zips
      BY <1>1, <1>19 DEF PutSecureValue, Return, Runs
    <2> QED
      BY <2>1 DEF BackupInv
  <1>20. CASE Report \/ PowerOff
    <2>1. run'.pc = "idle" /\ zips' \subseteq zips
      BY <1>20 DEF Report, PowerOff, Idle, Without
    <2> QED
      BY <2>1 DEF BackupInv
  <1> QED
    BY <1>3, <1>4, <1>5, <1>6, <1>7, <1>8, <1>9, <1>10, <1>11, <1>12, <1>13, <1>14, <1>15,
       <1>16, <1>17, <1>18, <1>19, <1>20 DEF Next

\* A step of a restore that changes the archive finds it spared.
LEMMA OverwritesSpared ==
    ASSUME TypeInv, BackupInv, [Next]_vars,
           run.pc # "idle", disk' # disk, ~ run.missed
    PROVE  Spared
  <1>1. RemoveAll \/ WriteFile \/ Commit
    BY DEF Next, vars, Play, FirstLaunch, BackupLocal, Upload, Download, RestoreBackup,
       DeleteBackup, HashForBackup, PackBegin, PackFiles, PackRename, Send, VerifyPackage,
       OpenSaveWrite, CloseSave, PutSecureValue, Report, PowerOff
  <1>2. CASE RemoveAll
    BY <1>2 DEF RemoveAll, BackupInv
  <1>3. CASE WriteFile
    <2>1. run.pc = "write" /\ \E p \in run.left : Writable(p)
      BY <1>3 DEF WriteFile
    <2>2. kind = "nds"
      BY <1>3 DEF WriteFile, Show
    <2> QED
      BY <2>1, <2>2 DEF Writable, BackupInv, Spared
  <1>4. CASE Commit
    BY <1>4 DEF Commit, Journalled, BackupInv
  <1> QED
    BY <1>1, <1>2, <1>3, <1>4

\* What a restore takes from the console is in a backup before it does, unless
\* open_save could not reach it or a directory that cannot be read looks like
\* its end (rule 1 of restore_package, core/src/sync.c).
THEOREM BackupComesFirst == ~ ShortReads => (Spec => ReplacedIsBackedUp)
  <1> SUFFICES ASSUME ~ ShortReads PROVE Spec => ReplacedIsBackedUp
    OBVIOUS
  <1>1. Init => TypeInv /\ BackupInv
    <2>1. Init => BackupInv
      BY DEF Init, BackupInv, Idle
    <2> QED
      BY <2>1, InitType
  <1>2. TypeInv /\ BackupInv /\ [Next]_vars => (TypeInv /\ BackupInv)'
    BY StepType, BackupStep
  <1>3. TypeInv /\ BackupInv /\ [Next]_vars =>
          [run.pc # "idle" /\ disk' # disk /\ ~ run.missed =>
              disk \in {Absent, EmptySave} \/ BackedUp(disk)]_vars
    BY OverwritesSpared DEF Spared
  <1> QED
    BY <1>1, <1>2, <1>3, PTL DEF Spec, ReplacedIsBackedUp

(***************************************************************************)
(* Packages made here are whole saves, and a restore that says it worked   *)
(* left the package's.                                                     *)
(***************************************************************************)

\* What an archive may hold, with or without a commit.
Kept(s) == s \in Fit \/ Broken(s)

\* A package that could be restored from f, if f is one, holds that.
Restorable(p) == p # Half /\ Accepts(p) => Kept(p.files)

\* What pack_title_to makes of an archive with something in it.
Made(p) == Accepts(p) /\ p.files # EmptySave

\* What is written of a package: its files but those that are left.
Written(pkg, left) == [p \in Paths |-> IF p \in left THEN Gone ELSE pkg.files[p]]

SavesInv ==
    /\ kind = "nds" => \A s \in whole : FilesOf(s) = {SavFile}
    /\ Kept(disk)
    /\ \A f \in zips \cup parts : Restorable(f.pkg)
    /\ \A f \in zips : f.name # Staging => f.name = f.pkg.sha256 /\ Made(f.pkg)
    /\ run.pc = "packing" => run.pkg.mine
    /\ run.pc \in {"rename", "send"} =>
          Made(run.pkg) /\ run.pkg.files \in Saves /\ Kept(run.pkg.files)
    /\ run.pc \in {"open", "clear", "write"} => Kept(run.pkg.files)
    /\ run.pc = "write" => Shown = Written(run.pkg, run.left)

\* A package the server sent as what it announced.
Announced(p) == \E i \in Incoming : i.pkg = p /\ i.announced = p.sha256

\* What a package leaves of a save.
Restored(p) == IF kind = "nds" /\ p.files = EmptySave THEN Absent ELSE p.files

\* The verified package is in hand, and the archive has taken all of it.
WithPackage ==
    \/ run.pc \in {"open", "clear", "write", "close", "value"}
    \/ run.pc = "done" /\ run.r = "ok"
Committed ==
    \/ run.pc = "value"
    \/ run.pc \in {"close", "done"} /\ run.r = "ok"

RestoredInv ==
    /\ run.pc = "send" => run.op = "upload"
    /\ run.op = "download" =>
          /\ run.src = [dir |-> "zips", name |-> Staging]
          /\ \A f \in zips : f.name = Staging => Announced(f.pkg)
          /\ WithPackage => Announced(run.pkg) /\ Verified(run.pkg)
    /\ Restoring /\ Committed => disk = Restored(run.pkg)
    /\ run.pc = "done" /\ Restoring /\ run.r = "ok" /\ kind = "card" /\ ~ run.warned =>
          secure = run.pkg.secure

\* What was kept stays so while the game writes more.
LEMMA KeptGrows ==
    ASSUME whole \subseteq whole', UNCHANGED kind
    PROVE  /\ \A s : Kept(s) => Kept(s)'
           /\ \A p : Restorable(p) => Restorable(p)'
  BY FitGrows DEF Kept, Broken, Restorable, Accepts, Verified

\* The one file of an nds save that a package fills.
LEMMA SavKept ==
    ASSUME SavesInv, kind = "nds", NEW s \in Saves, Kept(s)
    PROVE  Kept(SavOnly(s))
  <1>1. SavOnly(s) \in Saves /\ SavOnly(s)[SavFile] = s[SavFile]
    BY Distinct DEF SavOnly, EmptySave, Saves
  <1>2. CASE s \in whole
    <2>1. FilesOf(s) = {SavFile}
      BY <1>2 DEF SavesInv
    <2>2. \A p \in Paths : SavOnly(s)[p] = s[p]
      BY <2>1, Distinct DEF FilesOf, SavOnly, EmptySave
    <2>3. SavOnly(s) = s
      BY <1>1, <2>2 DEF Saves
    <2> QED
      BY <2>3
  <1>3. CASE \E i \in Incoming : Accepts(i.pkg) /\ s = i.pkg.files
    BY <1>3 DEF Kept, Broken
  <1>4. CASE s[SavFile] = Cut
    BY <1>1, <1>4 DEF Kept, Broken
  <1>5. CASE \E i \in Incoming : Accepts(i.pkg) /\ s = SavOnly(i.pkg.files)
    <2>1. PICK i \in Incoming : Accepts(i.pkg) /\ s = SavOnly(i.pkg.files)
      BY <1>5
    <2>2. \A p \in Paths : SavOnly(s)[p] = s[p]
      BY <2>1, Distinct DEF SavOnly, EmptySave
    <2>3. SavOnly(s) = s
      BY <1>1, <2>2 DEF Saves
    <2> QED
      BY <2>3
  <1>6. CASE s = EmptySave
    <2>1. \A p \in Paths : SavOnly(s)[p] = s[p]
      BY <1>6, Distinct DEF SavOnly, EmptySave
    <2>2. SavOnly(s) = s
      BY <1>1, <2>1 DEF Saves
    <2> QED
      BY <2>2
  <1>7. s # Absent
    BY Distinct
  <1> QED
    BY <1>2, <1>3, <1>4, <1>5, <1>6, <1>7 DEF Kept, Fit, WholeSaves, Broken, Accepts

\* No step takes a save the game wrote from history, or changes the backend.
LEMMA Lasting ==
    ASSUME [Next]_vars
    PROVE  UNCHANGED kind /\ whole \subseteq whole'
  BY DEF Next, vars, Play, FirstLaunch, BackupLocal, Upload, Download, RestoreBackup,
     DeleteBackup, HashForBackup, PackBegin, PackFiles, PackRename, Send, VerifyPackage,
     OpenSaveWrite, RemoveAll, WriteFile, Commit, CloseSave, PutSecureValue, Report,
     PowerOff

\* Where an operation has no package in hand, the archive and the packages are as they were
\* or fewer.
LEMMA HandsOff ==
    ASSUME SavesInv, UNCHANGED <<kind, disk, whole>>, zips' \subseteq zips,
           \A f \in parts' : f \in parts \/ f.pkg = Half,
           run'.pc \in {"idle", "hash", "pack", "verify", "close", "value", "done"}
    PROVE  SavesInv'
  <1>1. (\A s : Kept(s) => Kept(s)') /\ (\A p : Restorable(p) => Restorable(p)')
    BY KeptGrows
  <1>2. Restorable(Half)'
    BY DEF Restorable
  <1>3. \A f \in zips' \cup parts' : Restorable(f.pkg)'
    BY <1>1, <1>2 DEF SavesInv
  <1> QED
    BY <1>1, <1>3 DEF SavesInv

\* What the game and the archive's making leave, and what the server sends.
LEMMA OutsideSaves ==
    ASSUME TypeInv, SavesInv, Play \/ FirstLaunch \/ Download
    PROVE  SavesInv'
  <1>1. UNCHANGED kind /\ whole \subseteq whole'
    BY Lasting DEF Next
  <1>2. (\A s : Kept(s) => Kept(s)') /\ (\A p : Restorable(p) => Restorable(p)')
    BY <1>1, KeptGrows
  <1>3. CASE Play
    <2>1. PICK s \in [Paths -> Bytes \cup {Gone}] :
            (kind = "nds" => FilesOf(s) = {SavFile}) /\ disk' = s /\ whole' = whole \cup {s}
      BY <1>3 DEF Play
    <2>2. Kept(disk)'
      BY <2>1 DEF Kept, Fit, WholeSaves
    <2>3. UNCHANGED <<zips, parts, run>> /\ run.pc = "idle"
      BY <1>3 DEF Play
    <2>4. \A f \in zips \cup parts : Restorable(f.pkg)'
      BY <1>2 DEF SavesInv
    <2>5. kind' = "nds" => \A t \in whole' : FilesOf(t) = {SavFile}
      BY <1>1, <2>1 DEF SavesInv
    <2> QED
      BY <2>2, <2>3, <2>4, <2>5 DEF SavesInv
  <1>4. CASE FirstLaunch
    <2>1. Kept(disk)'
      BY <1>4 DEF FirstLaunch, Kept, Fit
    <2>2. UNCHANGED <<zips, parts, run, whole>> /\ run.pc = "idle"
      BY <1>4 DEF FirstLaunch
    <2>3. \A f \in zips \cup parts : Restorable(f.pkg)'
      BY <1>2 DEF SavesInv
    <2> QED
      BY <1>1, <2>1, <2>2, <2>3 DEF SavesInv
  <1>5. CASE Download
    <2>1. PICK i \in Incoming : zips' = Put(zips, Staging, i.pkg)
      BY <1>5 DEF Download
    <2>2. Restorable(i.pkg)'
      BY DEF Restorable, Accepts, Kept, Fit, WholeSaves, Verified
    <2>3. \A f \in zips' : f \in zips \/ (f.name = Staging /\ f.pkg = i.pkg)
      BY <2>1 DEF Put, Without, File
    <2>4. UNCHANGED <<kind, disk, whole, parts>> /\ run'.pc = "hash"
      BY <1>5 DEF Download, Begin, Idle
    <2>5. \A f \in zips' \cup parts' : Restorable(f.pkg)'
      BY <1>2, <2>2, <2>3, <2>4 DEF SavesInv
    <2>6. \A f \in zips' : f.name # Staging => f.name = f.pkg.sha256 /\ Made(f.pkg)
      BY <2>3 DEF SavesInv
    <2> QED
      BY <1>2, <2>4, <2>5, <2>6 DEF SavesInv
  <1> QED
    BY <1>3, <1>4, <1>5

\* A package that is made is a whole save under its digest.
LEMMA PackSaves ==
    ASSUME ~ ShortReads, TypeInv, BackupInv, SavesInv, PackBegin \/ PackFiles \/ PackRename
    PROVE  SavesInv'
  <1>1. run \in Runs /\ disk \in Contents /\ (run.pc \in Holding => run.pkg \in Packages)
    BY DEF TypeInv, TypeOK, InHand
  <1>2. (\A s : Kept(s) => Kept(s)') /\ (\A p : Restorable(p) => Restorable(p)')
        /\ UNCHANGED <<kind, disk, whole>>
    <2>1. UNCHANGED <<kind, disk, whole>>
      BY DEF PackBegin, PackFiles, PackRename
    <2> QED
      BY <2>1, KeptGrows
  <1>3. CASE PackBegin
    <2>1. zips' = zips /\ \A f \in parts' : f \in parts \/ f.pkg = Half
      BY <1>3 DEF PackBegin, Put, Without, File
    <2>2. CASE run'.pc \in {"verify", "done"}
      BY <1>2, <2>1, <2>2, HandsOff
    <2>3. CASE run'.pc = "packing" /\ run'.pkg.mine
      <3>1. Restorable(Half)'
        BY DEF Restorable
      <3>2. \A f \in zips' \cup parts' : Restorable(f.pkg)'
        BY <1>2, <2>1, <3>1 DEF SavesInv
      <3> QED
        BY <1>2, <2>1, <2>3, <3>2 DEF SavesInv
    <2>4. \/ \E r \in {"not_found", "error"} : NoBackup(r)
          \/ \E v \in {secure, NoValue} :
               run' = [run EXCEPT !.pc = "packing", !.pkg =
                         [mine |-> TRUE, files |-> EmptySave, sha256 |-> EmptySave, secure |-> v]]
      BY <1>3 DEF PackBegin, Unreachable
    <2>5. CASE \E v \in {secure, NoValue} :
               run' = [run EXCEPT !.pc = "packing", !.pkg =
                         [mine |-> TRUE, files |-> EmptySave, sha256 |-> EmptySave, secure |-> v]]
      BY <1>1, <2>3, <2>5 DEF Runs
    <2> QED
      BY <2>2, <2>4, <2>5, NoBackupEnds
  <1>4. CASE PackFiles
    <2>1. CASE NoBackup("error") /\ parts' = Without(parts, run.name)
      <3>1. run'.pc \in {"verify", "done"}
        BY <2>1, NoBackupEnds
      <3>2. zips' = zips /\ parts' \subseteq parts
        BY <1>4, <2>1 DEF PackFiles, Without
      <3> QED
        BY <1>2, <3>1, <3>2, HandsOff
    <2>2. CASE /\ disk # EmptySave
               /\ LET pkg == [run.pkg EXCEPT !.files = disk, !.sha256 = disk]
                  IN  /\ run' = [run EXCEPT !.pc = "rename", !.pkg = pkg]
                      /\ parts' = Put(parts, run.name, pkg)
      <3>1. PICK pkg : pkg = [run.pkg EXCEPT !.files = disk, !.sha256 = disk]
        OBVIOUS
      <3>2. run.pkg \in Packages /\ run.pkg.mine
        BY <1>1, <1>4 DEF PackFiles, Holding, SavesInv
      <3>3. pkg.files = disk /\ pkg.sha256 = disk /\ pkg.mine
        BY <3>1, <3>2 DEF Packages
      <3>4. run'.pc = "rename" /\ run'.pkg = pkg /\ parts' = Put(parts, run.name, pkg)
        BY <1>1, <2>2, <3>1 DEF Runs
      <3>5. Made(pkg) /\ pkg.files \in Saves
        BY <1>1, <1>4, <2>2, <3>3
        DEF Made, Accepts, Verified, PackFiles, Contents, TypeInv, InHand
      <3>6. Kept(pkg.files)'
        BY <1>2, <3>3 DEF SavesInv
      <3>7. Restorable(pkg)'
        BY <3>6 DEF Restorable
      <3>8. zips' = zips
        BY <1>4 DEF PackFiles
      <3>9. \A f \in zips' \cup parts' : Restorable(f.pkg)'
        BY <1>2, <3>4, <3>7, <3>8 DEF Put, Without, File, SavesInv
      <3> QED
        BY <1>2, <3>4, <3>5, <3>6, <3>8, <3>9 DEF SavesInv
    <2>3. \A s : Listings(s) = {s}
      BY DEF Listings
    <2> QED
      BY <1>4, <2>1, <2>2, <2>3 DEF PackFiles
  <1>5. CASE PackRename
    <2>1. /\ run.pc = "rename" /\ Made(run.pkg) /\ Kept(run.pkg.files)
          /\ run.pkg.files \in Saves /\ parts' \subseteq parts
      BY <1>5 DEF PackRename, SavesInv, Without
    <2>2. CASE NoBackup("error") /\ UNCHANGED zips
      <3>1. run'.pc \in {"verify", "done"}
        BY <2>2, NoBackupEnds
      <3> QED
        BY <1>2, <2>1, <2>2, <3>1, HandsOff
    <2>3. CASE /\ zips' = Put(zips, run.name, run.pkg)
               /\ Goto(CASE Restoring -> "verify" [] run.op = "upload" -> "send"
                         [] OTHER -> "done")
      <3>1. run.name # Staging => run.name = run.pkg.sha256
        BY <2>1 DEF BackupInv, Made, Accepts, Verified
      <3>2. \A f \in zips' : f \in zips \/ (f.name = run.name /\ f.pkg = run.pkg)
        BY <2>3 DEF Put, Without, File
      <3>4. run'.pc \in {"verify", "send", "done"} /\ run'.pkg = run.pkg
        BY <1>1, <2>3 DEF Goto, Runs
      <3>5. PICK p : p = run.pkg
        OBVIOUS
      <3>6. Restorable(p)' /\ Kept(p.files)'
        BY <1>2, <2>1, <3>5 DEF Restorable
      <3>7. \A f \in zips' \cup parts' : Restorable(f.pkg)'
        BY <1>2, <2>1, <3>2, <3>5, <3>6 DEF SavesInv
      <3>8. \A f \in zips' : f.name # Staging => f.name = f.pkg.sha256 /\ Made(f.pkg)
        BY <2>1, <3>1, <3>2 DEF SavesInv
      <3>9. run'.pkg = p /\ Made(p) /\ p.files \in Saves
        BY <2>1, <3>4, <3>5
      <3> QED
        BY <1>2, <3>4, <3>6, <3>7, <3>8, <3>9 DEF SavesInv
    <2> QED
      BY <1>5, <2>2, <2>3 DEF PackRename
  <1> QED
    BY <1>3, <1>4, <1>5

\* A restore writes a package that verified over nothing.
LEMMA RestoreSaves ==
    ASSUME ~ ShortReads, TypeInv, SavesInv,
           VerifyPackage \/ OpenSaveWrite \/ RemoveAll \/ WriteFile \/ Commit
    PROVE  SavesInv'
  <1>1. run \in Runs /\ disk \in Contents /\ (run.pc \in Holding => run.pkg \in Packages)
        /\ (kind = "nds" => disk = Absent \/ FilesOf(disk) = {SavFile})
    BY DEF TypeInv, TypeOK, InHand
  <1>2. UNCHANGED <<kind, zips, parts, whole>>
    BY DEF VerifyPackage, OpenSaveWrite, RemoveAll, WriteFile, Commit
  <1>3. (\A s : Kept(s) => Kept(s)') /\ (\A p : Restorable(p) => Restorable(p)')
    BY <1>2, KeptGrows
  <1>4. ASSUME Kept(disk'), run'.pc \notin {"packing", "rename", "send"},
               run'.pc \in {"open", "clear", "write"} => Kept(run'.pkg.files),
               run'.pc = "write" => Shown' = Written(run'.pkg, run'.left)
        PROVE  SavesInv'
    <2>1. Kept(disk)'
      <3>1. PICK d : d = disk'
        OBVIOUS
      <3>2. Kept(d)'
        BY <1>3, <1>4, <3>1
      <3> QED
        BY <3>1, <3>2
    <2>2. run'.pc \in {"open", "clear", "write"} => Kept(run.pkg.files)'
      <3>1. PICK s : s = run'.pkg.files
        OBVIOUS
      <3>2. Kept(s) => Kept(s)'
        BY <1>3
      <3> QED
        BY <1>4, <3>1, <3>2
    <2>3. \A f \in zips' \cup parts' : Restorable(f.pkg)'
      BY <1>2, <1>3 DEF SavesInv
    <2>4. run'.pc = "write" => (Shown = Written(run.pkg, run.left))'
      BY <1>4 DEF Written
    <2> QED
      BY <1>2, <1>4, <2>1, <2>2, <2>3, <2>4 DEF SavesInv
  <1>5. CASE VerifyPackage
    <2>1. disk' = disk /\ Kept(disk)
      BY <1>5 DEF VerifyPackage, SavesInv
    <2>2. CASE Return("error")
      <3>1. run'.pc = "done"
        BY <1>1, <2>2 DEF Return, Runs
      <3> QED
        BY <1>4, <2>1, <3>1
    <2>3. CASE \E p \in At(run.src) \ {Half} :
                  Accepts(p) /\ run' = [run EXCEPT !.pc = "open", !.pkg = p]
      <3>1. PICK p \in At(run.src) \ {Half} :
              Accepts(p) /\ run' = [run EXCEPT !.pc = "open", !.pkg = p]
        BY <2>3
      <3>2. PICK f \in zips \cup parts : f.pkg = p
        BY DEF At
      <3>3. Kept(p.files)
        BY <3>1, <3>2 DEF SavesInv, Restorable
      <3>4. run'.pc = "open" /\ run'.pkg = p
        BY <1>1, <3>1 DEF Runs
      <3> QED
        BY <1>4, <2>1, <3>3, <3>4
    <2> QED
      BY <1>5, <2>2, <2>3 DEF VerifyPackage
  <1>6. CASE OpenSaveWrite
    <2>1. /\ disk' = disk /\ Kept(disk) /\ Kept(run.pkg.files)
      BY <1>6 DEF OpenSaveWrite, SavesInv
    <2>2. run'.pc \in {"clear", "done"} /\ run'.pkg = run.pkg
      BY <1>1, <1>6 DEF OpenSaveWrite, Goto, Return, Runs
    <2> QED
      BY <1>4, <2>1, <2>2
  <1>7. CASE RemoveAll
    <2>1. /\ Shown \in Saves /\ run.pkg \in Packages /\ Kept(disk) /\ Kept(run.pkg.files)
      BY <1>1, <1>7, ShownType DEF RemoveAll, Holding, SavesInv
    <2>2. CASE /\ \E kept \in SUBSET FilesOf(Shown) :
                     /\ kind = "nds" => kept = FilesOf(Shown)
                     /\ Show([p \in Paths |-> IF p \in kept THEN Shown[p] ELSE Gone])
               /\ run' = [run EXCEPT !.pc = "close", !.r = "error"]
      <3>1. PICK kept \in SUBSET FilesOf(Shown) :
                     /\ kind = "nds" => kept = FilesOf(Shown)
                     /\ Show([p \in Paths |-> IF p \in kept THEN Shown[p] ELSE Gone])
        BY <2>2
      <3>2. run'.pc = "close"
        BY <1>1, <2>2 DEF Runs
      <3>3. CASE kind = "nds"
        <4>1. [p \in Paths |-> IF p \in kept THEN Shown[p] ELSE Gone] = Shown
          BY <2>1, <3>1, <3>3 DEF Saves, FilesOf
        <4>2. disk' = Absent \/ disk' = disk
          BY <3>1, <3>3, <4>1 DEF Show, Shown
        <4>3. Kept(Absent)
          BY DEF Kept, Fit
        <4> QED
          BY <1>4, <2>1, <3>2, <4>2, <4>3
      <3>4. CASE kind # "nds"
        BY <1>4, <2>1, <3>1, <3>2, <3>4 DEF Show
      <3> QED
        BY <3>3, <3>4
    <2>3. CASE /\ \E listed \in Listings(Shown) : Show(Unlisted(Shown, listed))
               /\ run' = [run EXCEPT !.pc = "write", !.left = FilesOf(run.pkg.files)]
      <3>1. Show(EmptySave)
        <4>1. Listings(Shown) = {Shown}
          BY DEF Listings
        <4> QED
          BY <2>1, <2>3, <4>1, UnlistedAll
      <3>2. /\ run'.pc = "write" /\ run'.pkg = run.pkg
            /\ run'.left = FilesOf(run.pkg.files)
        BY <1>1, <2>3 DEF Runs
      <3>3. Kept(disk')
        <4>1. Kept(Absent)
          BY DEF Kept, Fit
        <4> QED
          BY <2>1, <3>1, <4>1 DEF Show
      <3>4. Shown' = EmptySave
        BY <1>2, <3>1 DEF Show, Shown
      <3>5. Written(run.pkg, FilesOf(run.pkg.files)) = EmptySave
        BY DEF Written, FilesOf, EmptySave
      <3>6. Shown' = Written(run'.pkg, run'.left)
        BY <3>2, <3>4, <3>5
      <3> QED
        BY <1>4, <2>1, <3>2, <3>3, <3>6
    <2> QED
      BY <1>7, <2>2, <2>3 DEF RemoveAll
  <1>8. CASE WriteFile
    <2>1. /\ run.pc = "write" /\ run.pkg \in Packages /\ run.left \subseteq FilesOf(run.pkg.files)
          /\ Kept(disk) /\ Kept(run.pkg.files) /\ Shown = Written(run.pkg, run.left)
          /\ run.pkg.files \in Saves
      BY <1>1, <1>8 DEF WriteFile, Holding, TypeInv, InHand, SavesInv, Packages
    <2>2. ASSUME kind = "nds", SavFile \in run.left
          PROVE  Shown = EmptySave /\ disk = Absent
      <3>1. Shown[SavFile] = Gone
        BY <2>1, <2>2, Distinct DEF Written
      <3>2. disk = Absent
        BY <1>1, <2>2, <3>1 DEF Shown, FilesOf
      <3> QED
        BY <2>2, <3>2 DEF Shown
    <2>3. CASE \E p \in run.left : /\ Writable(p)
                                  /\ Show([Shown EXCEPT ![p] = run.pkg.files[p]])
                                  /\ run' = [run EXCEPT !.left = @ \ {p}]
      <3>1. PICK p \in run.left : /\ Writable(p)
                                 /\ Show([Shown EXCEPT ![p] = run.pkg.files[p]])
                                 /\ run' = [run EXCEPT !.left = @ \ {p}]
        BY <2>3
      <3>2. run'.pc = "write" /\ run'.pkg = run.pkg /\ run'.left = run.left \ {p}
        BY <1>1, <2>1, <3>1 DEF Runs
      <3>3. PICK s : s = [Shown EXCEPT ![p] = run.pkg.files[p]]
        OBVIOUS
      <3>4. p \in Paths /\ run.pkg.files[p] # Gone
        BY <2>1 DEF FilesOf
      <3>5. s = Written(run.pkg, run.left \ {p})
        BY <2>1, <3>3, <3>4 DEF Written
      <3>6. s # EmptySave
        <4>1. s[p] # Gone
          BY <2>1, <3>3, <3>4 DEF Written
        <4> QED
          BY <3>4, <4>1 DEF EmptySave
      <3>7. Shown' = s
        <4>1. CASE kind = "nds"
          <5>1. disk' = s
            BY <3>1, <3>3, <3>6, <4>1 DEF Show
          <5>2. s # Absent
            <6>1. s \in Saves
              BY <2>1, <3>5 DEF Written, Saves
            <6> QED
              BY <6>1, Distinct
          <5> QED
            BY <1>2, <4>1, <5>1, <5>2 DEF Shown
        <4>2. CASE kind # "nds"
          BY <1>2, <3>1, <3>3, <4>2 DEF Show, Shown
        <4> QED
          BY <4>1, <4>2
      <3>8. Kept(disk')
        <4>1. CASE kind = "nds"
          <5>1. p = SavFile
            BY <3>1, <4>1 DEF Writable
          <5>2. s = SavOnly(run.pkg.files)
            BY <2>2, <3>3, <4>1, <5>1 DEF SavOnly
          <5>3. disk' = s
            BY <3>1, <3>3, <3>6, <4>1 DEF Show
          <5> QED
            BY <2>1, <4>1, <5>2, <5>3, SavKept
        <4>2. CASE kind # "nds"
          BY <2>1, <3>1, <4>2 DEF Show
        <4> QED
          BY <4>1, <4>2
      <3>9. Shown' = Written(run'.pkg, run'.left)
        BY <3>2, <3>5, <3>7
      <3> QED
        BY <1>4, <2>1, <3>2, <3>8, <3>9
    <2>4. CASE \E p \in run.left : /\ Writable(p)
                                  /\ \E b \in {Shown[p], Cut} : Show([Shown EXCEPT ![p] = b])
                                  /\ run' = [run EXCEPT !.pc = "close", !.r = "error"]
      <3>1. PICK p \in run.left : /\ Writable(p)
                                 /\ \E b \in {Shown[p], Cut} : Show([Shown EXCEPT ![p] = b])
        BY <2>4
      <3>2. run'.pc = "close"
        BY <1>1, <2>4 DEF Runs
      <3>3. Kept(disk')
        <4>1. CASE kind = "nds"
          <5>1. p = SavFile /\ Shown = EmptySave
            BY <2>2, <3>1, <4>1 DEF Writable
          <5>2. PICK b \in {Shown[p], Cut} : Show([EmptySave EXCEPT ![SavFile] = b])
            BY <3>1, <5>1
          <5>3. [EmptySave EXCEPT ![SavFile] = b][SavFile] = b
            BY Distinct DEF EmptySave
          <5>4. CASE b = Cut
            <6>1. disk' = Absent \/ disk' = [EmptySave EXCEPT ![SavFile] = b]
              BY <4>1, <5>2 DEF Show
            <6> QED
              BY <4>1, <5>3, <5>4, <6>1 DEF Kept, Fit, Broken
          <5>5. CASE b = Shown[p]
            <6>1. b = Gone
              BY <5>1, <5>5, Distinct DEF EmptySave
            <6>2. [EmptySave EXCEPT ![SavFile] = b] = EmptySave
              BY <6>1, Distinct DEF EmptySave
            <6>3. disk' = Absent
              BY <4>1, <5>2, <6>2 DEF Show
            <6> QED
              BY <6>3 DEF Kept, Fit
          <5> QED
            BY <5>4, <5>5
        <4>2. CASE kind # "nds"
          BY <2>1, <3>1, <4>2 DEF Show
        <4> QED
          BY <4>1, <4>2
      <3> QED
        BY <1>4, <3>2, <3>3
    <2>5. CASE UNCHANGED <<disk, work>> /\ run' = [run EXCEPT !.pc = "close", !.r = "not_found"]
      <3>1. run'.pc = "close"
        BY <1>1, <2>5 DEF Runs
      <3> QED
        BY <1>4, <2>1, <2>5, <3>1
    <2> QED
      BY <1>8, <2>3, <2>4, <2>5 DEF WriteFile
  <1>9. CASE Commit
    <2>1. /\ run.pc = "write" /\ run.left = {} /\ run.pkg \in Packages /\ run.pkg.files \in Saves
          /\ Kept(disk) /\ Kept(run.pkg.files) /\ Shown = Written(run.pkg, {})
      BY <1>1, <1>9 DEF Commit, Holding, SavesInv, Packages
    <2>2. run'.pc = "close"
      BY <1>1, <1>9 DEF Commit, Goto, Runs
    <2>3. Written(run.pkg, {}) = run.pkg.files
      BY <2>1 DEF Written, Saves
    <2>4. disk' \in {disk, run.pkg.files}
      BY <1>9, <2>1, <2>3 DEF Commit, Shown, Journalled
    <2> QED
      BY <1>4, <2>1, <2>2, <2>4
  <1> QED
    BY <1>5, <1>6, <1>7, <1>8, <1>9

\* No step breaks it.
LEMMA SavesStep ==
    ASSUME ~ ShortReads, TypeInv, BackupInv, SavesInv, [Next]_vars
    PROVE  SavesInv'
  <1>1. run \in Runs
    BY DEF TypeInv, TypeOK
  <1>2. CASE Play \/ FirstLaunch \/ Download
    BY <1>2, OutsideSaves
  <1>3. CASE PackBegin \/ PackFiles \/ PackRename
    BY <1>3, PackSaves
  <1>4. CASE VerifyPackage \/ OpenSaveWrite \/ RemoveAll \/ WriteFile \/ Commit
    BY <1>4, RestoreSaves
  <1>5. CASE BackupLocal \/ Upload \/ RestoreBackup
    <2>1. run'.pc \in {"hash", "pack"}
      BY <1>5 DEF BackupLocal, Upload, RestoreBackup, Begin, Idle
    <2> QED
      BY <1>5, <2>1, HandsOff DEF BackupLocal, Upload, RestoreBackup
  <1>6. CASE DeleteBackup
    <2>1. zips' \subseteq zips /\ parts' \subseteq parts /\ run'.pc = "idle"
          /\ UNCHANGED <<kind, disk, whole>>
      BY <1>6 DEF DeleteBackup, Without
    <2> QED
      BY <2>1, HandsOff
  <1>7. CASE HashForBackup
    <2>1. run'.pc \in {"verify", "done", "pack"}
      BY <1>1, <1>7, NoBackupEnds DEF HashForBackup, Unreachable, Runs
    <2> QED
      BY <1>7, <2>1, HandsOff DEF HashForBackup
  <1>8. CASE Send \/ CloseSave \/ PutSecureValue
    <2>1. run'.pc \in {"done", "value"}
      BY <1>1, <1>8 DEF Send, CloseSave, PutSecureValue, Goto, Return, Runs
    <2> QED
      BY <1>8, <2>1, HandsOff DEF Send, CloseSave, PutSecureValue
  <1>9. CASE Report \/ PowerOff
    <2>1. run'.pc = "idle" /\ zips' \subseteq zips
      BY <1>9 DEF Report, PowerOff, Idle, Without
    <2> QED
      BY <1>9, <2>1, HandsOff DEF Report, PowerOff
  <1>10. CASE UNCHANGED vars
    BY <1>10 DEF vars, SavesInv, Kept, Fit, WholeSaves, Broken, Restorable, Shown
  <1> QED
    BY <1>2, <1>3, <1>4, <1>5, <1>6, <1>7, <1>8, <1>9, <1>10 DEF Next

\* Nothing has been packed at the start.
LEMMA InitSaves == Init => SavesInv /\ BackupInv
  BY DEF Init, SavesInv, BackupInv, Kept, Fit, Idle

\* A package made here is a whole save of the title under its own digest, whatever failed
\* or was restored before (pack_title_to, daemoon_archive_pack), unless a directory that
\* cannot be read looks like its end.
THEOREM PackagesStaySaves == ~ ShortReads => (Spec => []PackagesAreSaves)
  <1> SUFFICES ASSUME ~ ShortReads PROVE Spec => []PackagesAreSaves
    OBVIOUS
  <1> DEFINE Inv == TypeInv /\ BackupInv /\ SavesInv
  <1>1. Init => Inv
    BY InitType, InitSaves
  <1>2. Inv /\ [Next]_vars => Inv'
    BY StepType, BackupStep, SavesStep
  <1>3. Inv => PackagesAreSaves
    <2> SUFFICES ASSUME Inv PROVE PackagesAreSaves
      OBVIOUS
    <2>1. \A s : s # Absent /\ s # EmptySave /\ Kept(s) => s \in WholeSaves \/ Broken(s)
      BY DEF Kept, Fit
    <2>2. ASSUME NEW p, p.files # Absent, Made(p), Kept(p.files) PROVE IsASave(p)
      BY <2>1, <2>2 DEF Made, Accepts, IsASave
    <2>3. ASSUME NEW f \in zips, f.name # Staging
          PROVE  f.name = f.pkg.sha256 /\ IsASave(f.pkg)
      <3>1. f.pkg \in Packages /\ f.pkg # Half /\ f.pkg.files # Absent
        BY Distinct DEF TypeInv, TypeOK, Packages
      <3>2. f.name = f.pkg.sha256 /\ Made(f.pkg) /\ Kept(f.pkg.files)
        BY <2>3, <3>1 DEF SavesInv, Restorable, Made
      <3> QED
        BY <2>2, <3>1, <3>2
    <2>4. run.pc = "send" => IsASave(run.pkg)
      BY <2>2, Distinct DEF SavesInv
    <2> QED
      BY <2>3, <2>4 DEF PackagesAreSaves
  <1> QED
    BY <1>1, <1>2, <1>3, PTL DEF Spec

\* An operation that has no package in hand, or one that failed, says nothing of one.
LEMMA NothingRestored ==
    ASSUME RestoredInv, run'.op = run.op, run'.src = run.src,
           \A f \in zips' : f.name = Staging => f \in zips \/ run.op = "upload",
           run'.pc \notin {"open", "clear", "write", "close", "value"},
           run'.pc = "send" => run.op = "upload",
           run'.pc = "done" /\ Restoring => run'.r # "ok"
    PROVE  RestoredInv'
  <1>1. Restoring' <=> Restoring
    BY DEF Restoring
  <1>2. run.op = "download" => Restoring
    BY DEF Restoring
  <1>3. \A p : Announced(p)' <=> Announced(p)
    BY DEF Announced
  <1> QED
    BY <1>1, <1>2, <1>3 DEF RestoredInv, WithPackage, Committed

\* A restore goes on with its package.
LEMMA RestoreGoesOn ==
    ASSUME RestoredInv, UNCHANGED <<kind, zips>>,
           run'.op = run.op, run'.src = run.src, run'.pkg = run.pkg,
           run.pc \in {"open", "clear", "write", "close", "value"},
           run'.pc \in {"clear", "write", "close", "value", "done"},
           Restoring /\ Committed' => disk' = Restored(run.pkg),
           run'.pc = "done" /\ Restoring /\ run'.r = "ok" /\ kind = "card" /\ ~ run'.warned
             => secure' = run.pkg.secure
    PROVE  RestoredInv'
  <1>1. Restoring' <=> Restoring
    BY DEF Restoring
  <1>2. PICK p : p = run.pkg
    OBVIOUS
  <1>3. (\A q : Announced(q)' <=> Announced(q)) /\ Restored(p)' = Restored(p)
        /\ (Verified(p)' <=> Verified(p))
    BY DEF Announced, Restored, Verified
  <1>4. run.op = "download" => Announced(p) /\ Verified(p)
    BY <1>2 DEF RestoredInv, WithPackage
  <1>5. run'.pkg = p
    BY <1>2
  <1>6. run'.op = "download" =>
          /\ run'.src = [dir |-> "zips", name |-> Staging]
          /\ \A f \in zips' : f.name = Staging => Announced(f.pkg)'
          /\ Announced(run.pkg)' /\ Verified(run.pkg)'
    BY <1>3, <1>4, <1>5 DEF RestoredInv
  <1>7. Restoring' /\ Committed' => disk' = Restored(run.pkg)'
    BY <1>1, <1>2, <1>3, <1>5
  <1>8. run'.pc = "done" /\ Restoring' /\ run'.r = "ok" /\ kind' = "card" /\ ~ run'.warned
          => secure' = run'.pkg.secure
    BY <1>1
  <1> QED
    BY <1>6, <1>7, <1>8 DEF RestoredInv

\* What was written and committed is the package.
LEMMA CommitRestores ==
    ASSUME TypeInv, SavesInv, Commit, run'.r = "ok"
    PROVE  disk' = Restored(run.pkg)
  <1>1. /\ run \in Runs /\ run.pkg \in Packages /\ run.pkg.files \in Saves
        /\ kind \in {"card", "nx", "nds"}
        /\ kind = "nds" => disk = Absent \/ FilesOf(disk) = {SavFile}
    BY Backends DEF Commit, TypeInv, TypeOK, InHand, Holding, Packages
  <1>2. Shown = run.pkg.files
    <2>1. Shown = Written(run.pkg, {})
      BY DEF Commit, SavesInv
    <2> QED
      BY <1>1, <2>1 DEF Written, Saves
  <1>3. disk' = IF kind \in Journalled THEN work ELSE disk
    <2>1. [run EXCEPT !.pc = "close", !.r = "error"].r = "error"
      BY <1>1 DEF Runs
    <2> QED
      BY <2>1 DEF Commit
  <1>4. CASE kind = "nds"
    <2>1. CASE disk = Absent
      BY <1>2, <1>3, <1>4, <2>1 DEF Shown, Restored, Journalled
    <2>2. CASE disk # Absent
      <3>1. disk # EmptySave
        BY <1>1, <1>4, <2>2, EmptyType
      <3> QED
        BY <1>2, <1>3, <1>4, <2>2, <3>1 DEF Shown, Restored, Journalled
    <2> QED
      BY <2>1, <2>2
  <1>5. CASE kind # "nds"
    BY <1>1, <1>2, <1>3, <1>5 DEF Shown, Restored, Journalled
  <1> QED
    BY <1>4, <1>5

\* No step breaks it.
LEMMA RestoredStep ==
    ASSUME TypeInv, BackupInv, SavesInv, RestoredInv, [Next]_vars
    PROVE  RestoredInv'
  <1>1. run \in Runs /\ disk \in Contents
    BY DEF TypeInv, TypeOK
  <1>2. CASE UNCHANGED vars
    BY <1>2 DEF vars, RestoredInv, Announced, Restoring, Restored, Verified, WithPackage,
                Committed
  <1>3. CASE Play \/ FirstLaunch \/ DeleteBackup
    <2>1. run' = run /\ run.pc = "idle" /\ zips' \subseteq zips
      BY <1>3 DEF Play, FirstLaunch, DeleteBackup, Without
    <2> QED
      BY <2>1, NothingRestored
  <1>4. CASE BackupLocal \/ Upload \/ RestoreBackup \/ Report \/ PowerOff
    <2>1. CASE BackupLocal \/ Upload \/ RestoreBackup
      <3>1. run'.op # "download" /\ run'.pc \in {"hash", "pack"}
        BY <2>1 DEF BackupLocal, Upload, RestoreBackup, Begin, Idle
      <3> QED
        BY <3>1 DEF RestoredInv, WithPackage, Committed
    <2>2. CASE Report \/ PowerOff
      <3>1. run'.op # "download" /\ run'.pc = "idle"
        BY <2>2 DEF Report, PowerOff, Idle
      <3> QED
        BY <3>1 DEF RestoredInv, WithPackage, Committed
    <2> QED
      BY <1>4, <2>1, <2>2
  <1>5. CASE Download
    <2>1. PICK i \in Incoming : i.pkg.sha256 = i.announced /\ zips' = Put(zips, Staging, i.pkg)
      BY <1>5 DEF Download
    <2>2. /\ run'.op = "download" /\ run'.pc = "hash"
          /\ run'.src = [dir |-> "zips", name |-> Staging]
      BY <1>5 DEF Download, Begin, Idle
    <2>3. \A f \in zips' : f.name = Staging => Announced(f.pkg)'
      BY <2>1 DEF Put, Without, File, Announced
    <2> QED
      BY <2>2, <2>3 DEF RestoredInv, WithPackage, Committed
  <1>b. ASSUME NEW r \in {"not_found", "error"}, NoBackup(r)
        PROVE  /\ run'.op = run.op /\ run'.src = run.src /\ run'.pc \in {"verify", "done"}
               /\ run'.pc = "done" /\ Restoring => run'.r # "ok"
    BY <1>1, <1>b DEF NoBackup, Runs
  <1>6. CASE HashForBackup
    <2>1. zips' = zips
      BY <1>6 DEF HashForBackup
    <2>2. CASE \E r \in {"not_found", "error"} : NoBackup(r)
      BY <1>b, <2>1, <2>2, NothingRestored
    <2>3. CASE \E listed : run' = [run EXCEPT !.pc = IF Restoring THEN "verify" ELSE "done",
                                              !.name = listed]
      <3>1. /\ run'.op = run.op /\ run'.src = run.src
            /\ run'.pc = IF Restoring THEN "verify" ELSE "done"
        BY <1>1, <2>3 DEF Runs
      <3> QED
        BY <2>1, <3>1, NothingRestored
    <2>4. CASE \E listed : run' = [run EXCEPT !.pc = "pack", !.name = listed]
      <3>1. run'.op = run.op /\ run'.src = run.src /\ run'.pc = "pack"
        BY <1>1, <2>4 DEF Runs
      <3> QED
        BY <2>1, <3>1, NothingRestored
    <2> QED
      BY <1>6, <2>2, <2>3, <2>4 DEF HashForBackup, Unreachable
  <1>7. CASE PackBegin \/ PackFiles
    <2>1. zips' = zips
      BY <1>7 DEF PackBegin, PackFiles
    <2>2. CASE \E r \in {"not_found", "error"} : NoBackup(r)
      BY <1>b, <2>1, <2>2, NothingRestored
    <2>3. CASE \E pc \in {"packing", "rename"} : \E pkg :
                 run' = [run EXCEPT !.pc = pc, !.pkg = pkg]
      <3>1. run'.op = run.op /\ run'.src = run.src /\ run'.pc \in {"packing", "rename"}
        BY <1>1, <2>3 DEF Runs
      <3> QED
        BY <2>1, <3>1, NothingRestored
    <2> QED
      BY <1>7, <2>2, <2>3 DEF PackBegin, PackFiles, Unreachable
  <1>8. CASE PackRename
    <2>1. CASE NoBackup("error") /\ UNCHANGED zips
      BY <1>b, <2>1, NothingRestored
    <2>2. CASE /\ zips' = Put(zips, run.name, run.pkg)
               /\ Goto(CASE Restoring -> "verify" [] run.op = "upload" -> "send"
                         [] OTHER -> "done")
      <3>1. /\ run'.op = run.op /\ run'.src = run.src
            /\ run'.pc = CASE Restoring -> "verify" [] run.op = "upload" -> "send"
                           [] OTHER -> "done"
        BY <1>1, <2>2 DEF Goto, Runs
      <3>2. /\ run'.pc = "verify" \/ (~ Restoring /\ (run'.pc = "send" => run.op = "upload"))
            /\ run'.pc \in {"verify", "send", "done"}
        <4>1. CASE Restoring
          <5>1. run.op # "upload"
            BY <4>1 DEF Restoring
          <5> QED
            BY <3>1, <4>1, <5>1
        <4>2. CASE ~ Restoring /\ run.op = "upload"
          BY <3>1, <4>2
        <4>3. CASE ~ Restoring /\ run.op # "upload"
          <5>1. run'.pc = "done"
            BY <3>1, <4>3
          <5> QED
            BY <4>3, <5>1
        <4> QED
          BY <4>1, <4>2, <4>3
      <3>3. run'.pc \in {"verify", "send", "done"}
        BY <3>2
      <3>4. run.op # "upload" => run.name # Staging
        <4>1. ASSUME run.op # "upload" PROVE run.name \in Saves
          BY <1>8, <4>1 DEF PackRename, BackupInv, SavesInv
        <4> QED
          BY <4>1, Distinct
      <3>5. \A f \in zips' : f.name = Staging => f \in zips \/ run.op = "upload"
        BY <2>2, <3>4 DEF Put, Without, File
      <3>6. run'.pc = "done" => ~ Restoring
        BY <3>2
      <3>7. run'.pc = "send" => run.op = "upload"
        BY <3>2
      <3> QED
        BY <3>1, <3>3, <3>5, <3>6, <3>7, NothingRestored
    <2> QED
      BY <1>8, <2>1, <2>2 DEF PackRename
  <1>9. CASE Send
    <2>1. run.op = "upload" /\ zips' = zips
      BY <1>9 DEF Send, RestoredInv
    <2>2. run'.op = run.op /\ run'.src = run.src /\ run'.pc = "done"
      BY <1>1, <1>9 DEF Send, Return, Runs
    <2> QED
      BY <2>1, <2>2, NothingRestored DEF Restoring
  <1>10. CASE VerifyPackage
    <2>1. UNCHANGED <<kind, zips>>
      BY <1>10 DEF VerifyPackage
    <2>2. CASE Return("error")
      <3>1. run'.op = run.op /\ run'.src = run.src /\ run'.pc = "done" /\ run'.r = "error"
        BY <1>1, <2>2 DEF Return, Runs
      <3> QED
        BY <2>1, <3>1, NothingRestored
    <2>3. CASE \E p \in At(run.src) \ {Half} :
                  Accepts(p) /\ run' = [run EXCEPT !.pc = "open", !.pkg = p]
      <3>1. PICK p \in At(run.src) \ {Half} :
              Accepts(p) /\ run' = [run EXCEPT !.pc = "open", !.pkg = p]
        BY <2>3
      <3>2. run'.op = run.op /\ run'.src = run.src /\ run'.pc = "open" /\ run'.pkg = p
        BY <1>1, <3>1 DEF Runs
      <3>3. run.op = "download" => Announced(p)
        BY DEF RestoredInv, At
      <3>4. (\A q : Announced(q)' <=> Announced(q)) /\ Verified(p)'
        BY <3>1 DEF Announced, Verified, Accepts
      <3> QED
        BY <2>1, <3>2, <3>3, <3>4 DEF RestoredInv, WithPackage, Committed
    <2> QED
      BY <1>10, <2>2, <2>3 DEF VerifyPackage
  <1>11. CASE OpenSaveWrite
    <2>1. /\ run.pc = "open" /\ UNCHANGED <<kind, zips>> /\ run'.op = run.op
          /\ run'.src = run.src /\ run'.pkg = run.pkg
          /\ run'.pc = "clear" \/ (run'.pc = "done" /\ run'.r # "ok")
      BY <1>1, <1>11 DEF OpenSaveWrite, Goto, Return, Runs
    <2> QED
      BY <2>1, RestoreGoesOn DEF Committed
  <1>12. CASE RemoveAll \/ WriteFile
    <2>1. /\ run.pc \in {"clear", "write"} /\ UNCHANGED <<kind, zips>> /\ run'.op = run.op
          /\ run'.src = run.src /\ run'.pkg = run.pkg
          /\ run'.pc = "write" \/ (run'.pc = "close" /\ run'.r # "ok")
      BY <1>1, <1>12 DEF RemoveAll, WriteFile, Runs
    <2> QED
      BY <2>1, RestoreGoesOn DEF Committed
  <1>13. CASE Commit
    <2>1. /\ run.pc = "write" /\ UNCHANGED <<kind, zips>> /\ run'.op = run.op
          /\ run'.src = run.src /\ run'.pkg = run.pkg /\ run'.pc = "close"
      BY <1>1, <1>13 DEF Commit, Goto, Runs
    <2> QED
      BY <1>13, <2>1, CommitRestores, RestoreGoesOn DEF Committed
  <1>14. CASE CloseSave
    <2>1. /\ run.pc = "close" /\ UNCHANGED <<kind, zips, disk>> /\ run'.op = run.op
          /\ run'.src = run.src /\ run'.pkg = run.pkg
          /\ (run'.pc = "value" /\ run.r = "ok") \/ (run'.pc = "done" /\ run'.r # "ok")
      BY <1>1, <1>14 DEF CloseSave, Goto, Return, Runs
    <2>2. Restoring /\ run.r = "ok" => disk' = Restored(run.pkg)
      BY <2>1 DEF RestoredInv, Committed
    <2> QED
      BY <2>1, <2>2, RestoreGoesOn DEF Committed
  <1>15. CASE PutSecureValue
    <2>1. /\ run.pc = "value" /\ UNCHANGED <<kind, zips, disk>> /\ run'.op = run.op
          /\ run'.src = run.src /\ run'.pkg = run.pkg /\ run'.pc = "done"
          /\ run'.warned \/ (kind = "card" => secure' = run.pkg.secure)
      BY <1>1, <1>15 DEF PutSecureValue, Return, Runs
    <2>2. Restoring => disk' = Restored(run.pkg)
      BY <2>1 DEF RestoredInv, Committed
    <2> QED
      BY <2>1, <2>2, RestoreGoesOn DEF Committed
  <1> QED
    BY <1>2, <1>3, <1>4, <1>5, <1>6, <1>7, <1>8, <1>9, <1>10, <1>11, <1>12, <1>13, <1>14,
       <1>15 DEF Next

\* A restore that says it worked left exactly the package's files and value, and a download
\* what the server announced (restore_package's last step, do_download), unless a directory
\* that cannot be read looks like its end.
THEOREM RestoresAreWhole == ~ ShortReads => (Spec => []RestoredIsWhole)
  <1> SUFFICES ASSUME ~ ShortReads PROVE Spec => []RestoredIsWhole
    OBVIOUS
  <1> DEFINE Inv == TypeInv /\ BackupInv /\ SavesInv /\ RestoredInv
  <1>1. Init => Inv
    <2>1. Init => RestoredInv
      BY DEF Init, RestoredInv, Idle, WithPackage, Committed
    <2> QED
      BY <2>1, InitType, InitSaves
  <1>2. Inv /\ [Next]_vars => Inv'
    BY StepType, BackupStep, SavesStep, RestoredStep
  <1>3. Inv => RestoredIsWhole
    <2> SUFFICES ASSUME RestoredInv, run.pc = "done", Restoring, run.r = "ok"
                 PROVE  /\ disk = Restored(run.pkg)
                        /\ kind = "card" /\ ~ run.warned => secure = run.pkg.secure
                        /\ run.op = "download" =>
                              \E i \in Incoming : i.pkg = run.pkg /\ i.announced = run.pkg.files
      BY DEF RestoredIsWhole, Restored
    <2>1. disk = Restored(run.pkg) /\ (kind = "card" /\ ~ run.warned => secure = run.pkg.secure)
      BY DEF RestoredInv, Committed
    <2>2. run.op = "download" => Announced(run.pkg) /\ Verified(run.pkg)
      BY DEF RestoredInv, WithPackage
    <2> QED
      BY <2>1, <2>2 DEF Announced, Verified
  <1> QED
    BY <1>1, <1>2, <1>3, PTL DEF Spec

=============================================================================
