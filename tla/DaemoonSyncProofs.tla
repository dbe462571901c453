------------------------- MODULE DaemoonSyncProofs -------------------------
(***************************************************************************)
(* Theorems of DaemoonSync for any number of consoles, any mix of storage  *)
(* kinds, any set of contents and any bounds.                              *)
(***************************************************************************)
EXTENDS DaemoonSync, TLAPS

(***************************************************************************)
(* Type correctness.                                                       *)
(***************************************************************************)

\* What get_latest answers is a remote record, whatever the history.
LEMMA LatestType == TypeOK => Latest \in RemoteType
  <1>1. NoRemote \in RemoteType
    BY DEF NoRemote, RemoteType, Saves, VersionNone
  <1>2. ASSUME TypeOK, versions # <<>>
        PROVE  Len(versions) \in Nat /\ versions[Len(versions)].sha256 \in Saves
    <2>1. versions \in Seq(Versions) /\ Len(versions) \in 1..Len(versions)
      BY <1>2 DEF TypeOK
    <2>2. versions[Len(versions)] \in Versions
      BY <2>1
    <2> QED
      BY <2>1, <2>2 DEF Versions, Saves
  <1> QED
    BY <1>1, <1>2 DEF Latest, RemoteType

\* The fresh run and the run that only has its base left to record are runs.
LEMMA RunTypes ==
    /\ IdleRun \in RunStates
    /\ \A base \in BaseType : RunWithBase(base) \in RunStates
  BY DEF IdleRun, RunWithBase, RunStates, NoLocal, NoRemote, NeverSynced, AskEverything,
         LocalType, RemoteType, BaseType, OptsType, Policies, PCs, Saves, VersionNone

\* So are the runs a step leads to.
LEMMA MoveType ==
    ASSUME run \in [Consoles -> RunStates], NEW c \in Consoles
    PROVE  /\ \A label \in PCs : Goto(c, label) => run' \in [Consoles -> RunStates]
           /\ EndRun(c) => run' \in [Consoles -> RunStates]
           /\ \A base \in BaseType :
                run' = [run EXCEPT ![c] = RunWithBase(base)] => run' \in [Consoles -> RunStates]
  <1>1. ASSUME NEW label \in PCs, Goto(c, label) PROVE run' \in [Consoles -> RunStates]
    BY <1>1 DEF Goto, RunStates
  <1> QED
    BY <1>1, RunTypes DEF EndRun

\* Init puts every variable in its type.
LEMMA InitType == Init => TypeOK
  <1> SUFFICES ASSUME Init PROVE TypeOK
    OBVIOUS
  <1>1. run \in [Consoles -> RunStates]
    BY RunTypes DEF Init
  <1>2. record \in [Consoles -> BaseType]
    BY DEF Init, NeverSynced, BaseType, Saves, VersionNone
  <1>3. save \in [Consoles -> Saves] /\ progress \in [Consoles -> Contents \cup {NoSave}]
    BY DEF Init, Saves, Packable
  <1>4. versions \in Seq(Versions) /\ inflight \subseteq Requests
    BY DEF Init
  <1>5. backups \in [Consoles -> SUBSET Packable] /\ overlooked \in [Consoles -> SUBSET Saves]
    BY DEF Init
  <1> QED
    BY <1>1, <1>2, <1>3, <1>4, <1>5 DEF Init, TypeOK

\* No step takes a variable out of its type.
LEMMA StepType == TypeOK /\ [Next]_vars => TypeOK'
  <1> SUFFICES ASSUME TypeOK, [Next]_vars PROVE TypeOK'
    OBVIOUS
  <1> USE RunTypes DEF TypeOK
  <1>1. ASSUME NEW c \in Consoles, Play(c) PROVE TypeOK'
    <2>1. PICK x \in Contents : /\ save' = [save EXCEPT ![c] = x]
                               /\ progress' = [progress EXCEPT ![c] = x]
      BY <1>1 DEF Play
    <2>2. x \in Saves
      BY DEF Saves, Packable
    <2> QED
      BY <1>1, <2>1, <2>2 DEF Play
  <1>2. ASSUME NEW c \in Consoles, BackupNow(c) \/ DeleteBackup(c) PROVE TypeOK'
    <2>1. CASE BackupNow(c)
      BY <2>1 DEF BackupNow, BackupLocal
    <2>2. CASE DeleteBackup(c)
      <3>1. PICK x \in backups[c] :
              /\ backups' = [backups EXCEPT ![c] = @ \ {x}]
              /\ progress' = [progress EXCEPT ![c] = IF @ = x /\ save[c] # x THEN NoSave ELSE @]
        BY <2>2 DEF DeleteBackup
      <3> QED
        BY <2>2, <3>1 DEF DeleteBackup
    <2> QED
      BY <1>2, <2>1, <2>2
  <1>3. ASSUME NEW c \in Consoles, RestoreBackup(c) PROVE TypeOK'
    <2>1. PICK x \in backups[c] :
            run' = [run EXCEPT ![c] = [IdleRun EXCEPT !.pc = "restore", !.staged = x]]
      BY <1>3 DEF RestoreBackup
    <2>2. x \in Saves
      BY DEF Saves
    <2>3. [IdleRun EXCEPT !.pc = "restore", !.staged = x] \in RunStates
      BY <2>2 DEF RunStates, PCs
    <2> QED
      BY <1>3, <2>1, <2>3 DEF RestoreBackup
  <1>4. ASSUME NEW c \in Consoles, Scan(c) PROVE TypeOK'
    <2>1. ASSUME NEW found \in BOOLEAN PROVE ScanLocal(c, found) \in LocalType
      BY DEF ScanLocal, LocalType, BaseType, Saves
    <2>2. Opts \subseteq OptsType
      BY OptsAssumption
    <2>3. ASSUME NEW o \in Opts, NEW found \in BOOLEAN
          PROVE  [IdleRun EXCEPT !.pc = "scanned", !.opts = o, !.local = ScanLocal(c, found)]
                   \in RunStates
      BY <2>1, <2>2 DEF RunStates, PCs
    <2>4. run' \in [Consoles -> RunStates]
      BY <1>4, <2>3 DEF Scan
    <2>5. faults' \in Nat
      BY <1>4 DEF Scan, OpenSave
    <2> QED
      BY <1>4, <2>4, <2>5 DEF Scan
  <1>5. ASSUME NEW c \in Consoles, GetLatest(c) PROVE TypeOK'
    <2>1. Latest \in RemoteType
      BY LatestType
    <2>2. run[c] \in RunStates /\ run[c].local \in LocalType
      BY DEF RunStates
    <2>3. run' \in [Consoles -> RunStates]
      <3>1. CASE Decide(run[c].local, Latest) = "NONE" /\ NothingToMove(c, Latest)
        <4>1. [version |-> Latest.latest_version, sha256 |-> run[c].local.sha256] \in BaseType
          BY <2>1, <2>2 DEF BaseType, RemoteType, LocalType
        <4> QED
          BY <3>1, <4>1 DEF NothingToMove, EndRun
      <3>2. CASE /\ Decide(run[c].local, Latest) # "NONE"
                 /\ run' = [run EXCEPT ![c].remote = Latest,
                              ![c].pc = CASE Decide(run[c].local, Latest) = "UPLOAD"   -> "upload"
                                          [] Decide(run[c].local, Latest) = "DOWNLOAD" -> "download"
                                          [] Decide(run[c].local, Latest) = "CONFLICT" -> "resolve"]
        <4>1. Decide(run[c].local, Latest) \in {"UPLOAD", "DOWNLOAD", "CONFLICT"}
          BY <3>2, <2>1, <2>2 DEF Decide, LocalType, RemoteType
        <4> QED
          BY <3>2, <4>1, <2>1 DEF RunStates, PCs
      <3> QED
        BY <1>5, <3>1, <3>2 DEF GetLatest
    <2> QED
      BY <1>5, <2>3 DEF GetLatest
  <1>6. ASSUME NEW c \in Consoles, Decline(c) PROVE TypeOK'
    BY <1>6 DEF Decline, EndRun
  <1>7. ASSUME NEW c \in Consoles, Resolve(c) PROVE TypeOK'
    <2>1. CASE EndRun(c)
      BY <1>7, <2>1 DEF Resolve, EndRun
    <2>2. CASE \E label \in {"upload", "download"} :
                 run' = [run EXCEPT ![c].chosen = TRUE, ![c].pc = label]
      BY <1>7, <2>2 DEF Resolve, RunStates, PCs
    <2> QED
      BY <1>7, <2>1, <2>2 DEF Resolve
  <1>8. ASSUME NEW c \in Consoles, Send(c) PROVE TypeOK'
    <2>1. CASE save[c] \in Packable /\ inflight' = inflight \cup {Request(c)} /\ Goto(c, "sent")
      <3>1. Request(c) \in Requests
        BY <2>1 DEF Request, Requests, RunStates, RemoteType, LocalType
      <3> QED
        BY <1>8, <2>1, <3>1, MoveType DEF Send, PCs
    <2>2. CASE EndRun(c) /\ UNCHANGED inflight
      BY <1>8, <2>2, MoveType DEF Send
    <2> QED
      BY <1>8, <2>1, <2>2 DEF Send
  <1>9. ASSUME NEW u \in inflight, Put(u) PROVE TypeOK'
    <2>1. u \in Requests /\ u.from \in Consoles
      BY DEF Requests
    <2>2. Issued(u) \in BaseType
      BY <2>1 DEF Issued, BaseType, Requests, Saves
    <2>3. [from |-> u.from, sha256 |-> u.sha256, basis |-> u.basis, chosen |-> u.chosen]
            \in Versions
      BY <2>1 DEF Requests, Versions
    <2>4. versions' \in Seq(Versions)
      BY <1>9, <2>3 DEF Put, AddVersion
    <2>5. run' \in [Consoles -> RunStates]
      BY <1>9, <2>1, <2>2, MoveType DEF Put, PCs
    <2> QED
      BY <1>9, <2>4, <2>5 DEF Put
  <1>10. ASSUME NEW c \in Consoles, Refused(c) PROVE TypeOK'
    <2>1. Latest \in RemoteType
      BY LatestType
    <2>2. CASE EndRun(c)
      BY <1>10, <2>2, MoveType DEF Refused
    <2>3. CASE run' = [run EXCEPT ![c].remote = Latest, ![c].pc = "resolve"]
      BY <1>10, <2>1, <2>3 DEF Refused, RunStates, PCs
    <2> QED
      BY <1>10, <2>2, <2>3 DEF Refused
  <1>11. ASSUME NEW c \in Consoles, Download(c) PROVE TypeOK'
    <2> DEFINE remote == run[c].remote
               base   == [version |-> remote.latest_version, sha256 |-> remote.sha256]
    <2>1. remote \in RemoteType /\ base \in BaseType
      BY DEF RunStates, RemoteType, BaseType
    <2>2. CASE Downloadable(remote) /\ run' = [run EXCEPT ![c].pc = "restore",
                  ![c].staged = versions[remote.latest_version].sha256, ![c].base = base]
      <3>1. versions[remote.latest_version].sha256 \in Saves
        <4>1. Downloadable(remote)
          BY <2>2
        <4> QED
          BY <2>1, <4>1 DEF Downloadable, RemoteType
      <3>2. ASSUME NEW x \in Saves, NEW b \in BaseType,
                   run' = [run EXCEPT ![c].pc = "restore", ![c].staged = x, ![c].base = b]
            PROVE  run' \in [Consoles -> RunStates]
        BY <3>2 DEF RunStates, PCs
      <3>3. run' \in [Consoles -> RunStates]
        BY <2>1, <2>2, <3>1, <3>2
      <3> QED
        BY <1>11, <3>3 DEF Download
    <2>3. CASE EndRun(c)
      BY <1>11, <2>3, MoveType DEF Download
    <2> QED
      BY <1>11, <2>2, <2>3 DEF Download
  <1>12. ASSUME NEW c \in Consoles, BackupFirst(c) PROVE TypeOK'
    <2>1. run' \in [Consoles -> RunStates]
      BY <1>12, MoveType DEF BackupFirst, PCs
    <2>2. faults' \in Nat
      BY <1>12 DEF BackupFirst, OpenSave
    <2>3. backups' \in [Consoles -> SUBSET Packable] /\ overlooked' \in [Consoles -> SUBSET Saves]
      <3>1. CASE BackupLocal(c) /\ UNCHANGED overlooked
        BY <3>1 DEF BackupLocal
      <3>2. CASE overlooked' = [overlooked EXCEPT ![c] = @ \cup ({save[c]} \ {NoSave})]
                 /\ UNCHANGED backups
        BY <3>2
      <3>3. CASE UNCHANGED <<backups, overlooked>>
        BY <3>3
      <3> QED
        BY <1>12, <3>1, <3>2, <3>3 DEF BackupFirst
    <2> QED
      BY <1>12, <2>1, <2>2, <2>3 DEF BackupFirst
  <1>13. ASSUME NEW c \in Consoles,
                Commit(c) \/ RemoveAll(c) \/ WriteSome(c) \/ WriteRest(c)
         PROVE  TypeOK'
    <2>1. run[c].staged \in Saves /\ run[c].base \in BaseType
      BY DEF RunStates
    <2>2. {Empty, NoSave, Torn} \subseteq Saves
      BY DEF Saves, Packable
    <2>3. save' \in [Consoles -> Saves]
      BY <1>13, <2>1, <2>2 DEF Commit, RemoveAll, WriteSome, WriteRest
    <2>4. run' \in [Consoles -> RunStates]
      BY <1>13, <2>1, MoveType
         DEF Commit, RemoveAll, WriteSome, WriteRest, Written, PCs
    <2> QED
      BY <1>13, <2>3, <2>4 DEF Commit, RemoveAll, WriteSome, WriteRest
  <1>14. ASSUME NEW c \in Consoles, SwapState(c) \/ FinishSwap(c) PROVE TypeOK'
    <2>1. run[c].base \in BaseType /\ NeverSynced \in BaseType
      BY DEF RunStates, BaseType, NeverSynced, VersionNone, Saves
    <2>2. record' \in [Consoles -> BaseType]
      BY <1>14, <2>1 DEF SwapState, FinishSwap
    <2>3. run' \in [Consoles -> RunStates]
      BY <1>14, MoveType DEF SwapState, FinishSwap, PCs
    <2> QED
      BY <1>14, <2>2, <2>3 DEF SwapState, FinishSwap
  <1>15. ASSUME NEW c \in Consoles, Abort(c) PROVE TypeOK'
    <2>1. \A u \in inflight : [u EXCEPT !.live = FALSE] \in Requests
      BY DEF Requests
    <2> QED
      BY <1>15, <2>1, BoundAssumption DEF Abort, EndRun
  <1>16. ASSUME Rollback PROVE TypeOK'
    <2>1. ASSUME NEW n \in 1..(Len(versions) - 1)
          PROVE  SubSeq(versions, 1, n) \in Seq(Versions)
      OBVIOUS
    <2> QED
      BY <1>16, <2>1, BoundAssumption DEF Rollback
  <1>17. CASE UNCHANGED vars
    BY <1>17 DEF vars
  <1> QED
    BY <1>1, <1>2, <1>3, <1>4, <1>5, <1>6, <1>7, <1>8, <1>9, <1>10, <1>11, <1>12, <1>13,
       <1>14, <1>15, <1>16, <1>17
       DEF Next, SyncStep, ServerStep

\* Every reachable state is well typed: no handler puts a record, a request or a run
\* outside what the code can represent.
THEOREM TypeCorrect == Spec => []TypeOK
  BY InitType, StepType, PTL DEF Spec


-----------------------------------------------------------------------------
(***************************************************************************)
(* No sync loses play.  ProgressKept is not inductive by itself: between   *)
(* the backup and the last byte of a restore the save is not there, so     *)
(* what was played must already be among the backups when a run has passed *)
(* its backup, unless the backup could not open the save and took it for   *)
(* none.                                                                   *)
(***************************************************************************)
PastBackup == {"write", "cleared", "writing"}

RestoreBacked ==
    \A c \in Consoles :
        run[c].pc \in PastBackup => progress[c] \in backups[c] \cup overlooked[c] \cup {NoSave}

ProgressInv == TypeOK /\ ProgressKept /\ RestoreBacked

\* Before the first game there is nothing to lose.
LEMMA InitProgress == Init => ProgressInv
  BY InitType DEF Init, ProgressInv, ProgressKept, RestoreBacked, PastBackup, IdleRun

\* A step that touches neither saves, backups nor what is remembered of them, and after which the run is
\* where no restore writes, keeps both conjuncts.
LEMMA QuietStep ==
    ASSUME TypeOK, ProgressKept, RestoreBacked, NEW c \in Consoles,
           UNCHANGED <<save, backups, progress, overlooked>>,
           \A d \in Consoles \ {c} : run'[d] = run[d],
           run'[c].pc \notin PastBackup
    PROVE  ProgressKept' /\ RestoreBacked'
  BY DEF ProgressKept, RestoreBacked

\* Every step that overwrites a save follows the backup of what it overwrites.
LEMMA StepProgress == ProgressInv /\ [Next]_vars => ProgressInv'
  <1> SUFFICES ASSUME ProgressInv, [Next]_vars PROVE ProgressInv'
    OBVIOUS
  <1> USE DEF ProgressInv
  <1>0. TypeOK'
    BY StepType
  <1>a. IdleRun.pc = "idle" /\ \A base \in BaseType : RunWithBase(base).pc = "record"
    BY DEF IdleRun, RunWithBase
  <1>b. run \in [Consoles -> RunStates] /\ \A c \in Consoles : run[c] \in RunStates
    BY DEF TypeOK
  <1>1. ASSUME NEW c \in Consoles, Play(c) PROVE ProgressKept' /\ RestoreBacked'
    BY <1>1 DEF Play, TypeOK, ProgressKept, RestoreBacked, PastBackup
  <1>2. ASSUME NEW c \in Consoles, BackupNow(c) PROVE ProgressKept' /\ RestoreBacked'
    BY <1>2 DEF BackupNow, BackupLocal, TypeOK, ProgressKept, RestoreBacked
  <1>d. ASSUME NEW c \in Consoles, DeleteBackup(c) PROVE ProgressKept' /\ RestoreBacked'
    <2>1. PICK x \in backups[c] :
            /\ backups' = [backups EXCEPT ![c] = @ \ {x}]
            /\ progress' = [progress EXCEPT ![c] = IF @ = x /\ save[c] # x THEN NoSave ELSE @]
      BY <1>d DEF DeleteBackup
    <2>2. /\ run[c].pc = "idle" /\ UNCHANGED <<save, run, overlooked>>
          /\ \A d \in Consoles \ {c} : backups'[d] = backups[d] /\ progress'[d] = progress[d]
      BY <1>d, <2>1 DEF DeleteBackup, TypeOK
    <2>3. \/ progress'[c] = NoSave
          \/ /\ progress'[c] = progress[c] /\ backups'[c] = backups[c] \ {x}
             /\ progress[c] = x => save[c] = x
      BY <2>1 DEF TypeOK
    <2> QED
      BY <2>2, <2>3 DEF ProgressKept, RestoreBacked, PastBackup
  <1>3. ASSUME NEW c \in Consoles, RestoreBackup(c) \/ Scan(c) PROVE ProgressKept' /\ RestoreBacked'
    <2>1. PICK r : run' = [run EXCEPT ![c] = r] /\ r.pc \in {"restore", "scanned"}
      <3>1. \A x : [IdleRun EXCEPT !.pc = "restore", !.staged = x].pc = "restore"
        BY DEF IdleRun
      <3>2. \A o, l : [IdleRun EXCEPT !.pc = "scanned", !.opts = o, !.local = l].pc = "scanned"
        BY DEF IdleRun
      <3>3. CASE RestoreBackup(c)
        BY <3>1, <3>3 DEF RestoreBackup
      <3>4. CASE Scan(c)
        <4>1. PICK o \in Opts, found \in BOOLEAN :
                run' = [run EXCEPT ![c] = [IdleRun EXCEPT !.pc = "scanned", !.opts = o,
                                                          !.local = ScanLocal(c, found)]]
          BY <3>4 DEF Scan
        <4> QED
          BY <3>2, <4>1
      <3> QED
        BY <1>3, <3>3, <3>4
    <2>2. run'[c].pc \in {"restore", "scanned"} /\ \A d \in Consoles \ {c} : run'[d] = run[d]
      BY <2>1, <1>b
    <2> QED
      BY <1>3, <2>2, QuietStep DEF RestoreBackup, Scan, PastBackup
  <1>4. ASSUME NEW c \in Consoles, GetLatest(c) PROVE ProgressKept' /\ RestoreBacked'
    <2>1. \A d \in Consoles \ {c} : run'[d] = run[d]
      BY <1>4, <1>b DEF GetLatest, NothingToMove, EndRun
    <2>2. run'[c].pc \notin PastBackup
      <3>1. CASE NothingToMove(c, Latest)
        <4>1. \A base : RunWithBase(base).pc = "record"
          BY DEF RunWithBase, IdleRun
        <4>2. PICK r : run' = [run EXCEPT ![c] = r] /\ r.pc \in {"idle", "record"}
          BY <1>a, <3>1, <4>1 DEF NothingToMove, EndRun
        <4> QED
          BY <1>b, <4>2 DEF PastBackup
      <3>2. CASE run' = [run EXCEPT ![c].remote = Latest,
                           ![c].pc = CASE Decide(run[c].local, Latest) = "UPLOAD"   -> "upload"
                                       [] Decide(run[c].local, Latest) = "DOWNLOAD" -> "download"
                                       [] Decide(run[c].local, Latest) = "CONFLICT" -> "resolve"]
                 /\ Decide(run[c].local, Latest) # "NONE"
        <4>1. Decide(run[c].local, Latest) \in {"UPLOAD", "DOWNLOAD", "CONFLICT"}
          BY <3>2, <1>b, LatestType DEF Decide, RunStates, LocalType, RemoteType
        <4> QED
          BY <3>2, <4>1, <1>b DEF RunStates, PastBackup
      <3> QED
        BY <1>4, <3>1, <3>2 DEF GetLatest
    <2> QED
      BY <1>4, <2>1, <2>2, QuietStep DEF GetLatest
  <1>5. ASSUME NEW c \in Consoles,
               \/ Decline(c) \/ Resolve(c) \/ Send(c) \/ Refused(c)
               \/ Download(c) \/ SwapState(c) \/ FinishSwap(c) \/ Abort(c)
        PROVE  ProgressKept' /\ RestoreBacked'
    <2>1. \A d \in Consoles \ {c} : run'[d] = run[d]
      BY <1>5, <1>b DEF Decline, Resolve, Send, Refused, Download, SwapState, FinishSwap,
                        Abort, EndRun, Goto
    <2>2. UNCHANGED <<save, backups, progress, overlooked>>
      BY <1>5 DEF Decline, Resolve, Send, Refused, Download, SwapState, FinishSwap, Abort
    <2>3. run'[c].pc \notin PastBackup
      <3>1. EndRun(c) => run'[c].pc = "idle"
        BY <1>a, <1>b DEF EndRun
      <3>2. \A label \in PCs : Goto(c, label) => run'[c].pc = label
        BY <1>b DEF Goto, RunStates
      <3>3. CASE Decline(c) \/ Send(c) \/ SwapState(c) \/ FinishSwap(c) \/ Abort(c)
        BY <3>1, <3>2, <3>3 DEF Decline, Send, SwapState, FinishSwap, Abort, PastBackup, PCs
      <3>4. CASE Resolve(c) \/ Refused(c) \/ Download(c)
        BY <3>1, <3>4, <1>b DEF Resolve, Refused, Download, PastBackup, RunStates
      <3> QED
        BY <1>5, <3>3, <3>4
    <2> QED
      BY <2>1, <2>2, <2>3, QuietStep
  <1>6. ASSUME NEW u \in inflight, Put(u) PROVE ProgressKept' /\ RestoreBacked'
    <2>1. u.from \in Consoles
      BY DEF TypeOK, Requests
    <2>2. CASE u.live
      <3>1. \A d \in Consoles \ {u.from} : run'[d] = run[d]
        BY <1>6, <2>1, <2>2, <1>b DEF Put, Goto
      <3>2. run'[u.from].pc \in {"record", "refused"}
        <4>1. CASE run' = [run EXCEPT ![u.from] = RunWithBase(Issued(u))]
          <5>1. RunWithBase(Issued(u)).pc = "record"
            BY DEF RunWithBase, IdleRun
          <5> QED
            BY <2>1, <4>1, <5>1, <1>b
        <4>2. CASE Goto(u.from, "refused")
          BY <2>1, <4>2, <1>b DEF Goto, RunStates
        <4> QED
          BY <1>6, <2>2, <4>1, <4>2 DEF Put
      <3> QED
        BY <1>6, <2>1, <3>1, <3>2, QuietStep DEF Put, PastBackup
    <2>3. CASE ~u.live
      BY <1>6, <2>3 DEF Put, ProgressKept, RestoreBacked
    <2> QED
      BY <2>2, <2>3
  <1>7. ASSUME NEW c \in Consoles, BackupFirst(c) PROVE ProgressKept' /\ RestoreBacked'
    <2>1. \A d \in Consoles \ {c} : run'[d] = run[d]
      BY <1>7, <1>b DEF BackupFirst, EndRun, Goto
    <2>2. CASE \/ BackupLocal(c) /\ UNCHANGED overlooked
               \/ /\ overlooked' = [overlooked EXCEPT ![c] = @ \cup ({save[c]} \ {NoSave})]
                  /\ UNCHANGED backups
      <3>1. \A d \in Consoles :
              backups[d] \subseteq backups'[d] /\ overlooked[d] \subseteq overlooked'[d]
        BY <2>2 DEF BackupLocal, TypeOK
      <3>2. progress[c] \in backups'[c] \cup overlooked'[c] \cup {NoSave}
        BY <2>2, DistinctSaves DEF BackupLocal, TypeOK, ProgressKept
      <3> QED
        BY <1>7, <2>1, <3>1, <3>2 DEF BackupFirst, ProgressKept, RestoreBacked
    <2>3. CASE EndRun(c) /\ UNCHANGED <<backups, overlooked>>
      <3>1. run'[c].pc = "idle"
        BY <2>3, <1>a, <1>b DEF EndRun
      <3> QED
        BY <1>7, <2>1, <2>3, <3>1, QuietStep DEF BackupFirst, PastBackup
    <2> QED
      BY <1>7, <2>2, <2>3 DEF BackupFirst
  <1>8. ASSUME NEW c \in Consoles,
               Commit(c) \/ RemoveAll(c) \/ WriteSome(c) \/ WriteRest(c)
        PROVE  ProgressKept' /\ RestoreBacked'
    <2>1. \A d \in Consoles \ {c} : run'[d] = run[d] /\ save'[d] = save[d]
      BY <1>8, <1>b DEF Commit, RemoveAll, WriteSome, WriteRest, Written, EndRun, Goto, TypeOK
    <2>2. progress[c] \in backups[c] \cup overlooked[c] \cup {NoSave}
      BY <1>8 DEF Commit, RemoveAll, WriteSome, WriteRest, RestoreBacked, PastBackup
    <2>3. UNCHANGED <<backups, progress, overlooked>>
      BY <1>8 DEF Commit, RemoveAll, WriteSome, WriteRest
    <2> QED
      BY <2>1, <2>2, <2>3 DEF ProgressKept, RestoreBacked
  <1>9. CASE Rollback \/ UNCHANGED vars
    <2>1. UNCHANGED <<save, backups, run, progress, overlooked>>
      BY <1>9 DEF Rollback, vars
    <2> QED
      BY <1>0, <2>1 DEF ProgressKept, RestoreBacked, PastBackup
  <1> QED
    BY <1>0, <1>1, <1>2, <1>d, <1>3, <1>4, <1>5, <1>6, <1>7, <1>8, <1>9
       DEF Next, SyncStep, ServerStep

\* What the game on a console wrote last survives every sync, restore, refusal, crash and
\* server rollback, in that console's save or in its local backups (rule 1, sync.c's
\* restore_package), on journalled and on plain storage alike - unless a restore met it in
\* a save that could not be opened and that the backend reported as none.
THEOREM ProgressIsKept == Spec => []ProgressKept
  <1>1. ProgressInv => ProgressKept
    BY DEF ProgressInv
  <1> QED
    BY <1>1, InitProgress, StepProgress, PTL DEF Spec

-----------------------------------------------------------------------------
(***************************************************************************)
(* What a recorded base is worth.  The properties speak of the state file, *)
(* of what is about to be written and of the server's history; between the *)
(* scan and the state file a run carries in memory what makes them true.   *)
(***************************************************************************)

\* The version a base names is one the server has, with the digest it names.
Names(base) ==
    base.version # VersionNone =>
        /\ base.version \in 1..Len(versions)
        /\ versions[base.version].sha256 = base.sha256

\* An upload with this parent, on this base digest, would bury nothing but its base.
BuildsOn(parent, basis) ==
    /\ parent \in 0..Len(versions)
    /\ parent = 0 => basis = NoSave
    /\ parent # 0 => basis = versions[parent].sha256

\* A state file is absent, or of a version.
RecordOK(c) ==
    /\ record[c].version = VersionNone => record[c].sha256 = NoSave
    /\ rollbacks = 0 => Names(record[c])

Restoring == {"restore", "write", "cleared", "writing"}
Recording == {"record", "swap"}

\* What a scan says of console c: the save, or that none was found.
Scanned(c, l) ==
    \E found \in BOOLEAN :
        /\ l = ScanLocal(c, found)
        /\ found => save[c] # NoSave
        /\ ~found => save[c] = NoSave \/ ~TellsAbsent(c)

\* A run in state r on console c knows what it goes by: what it scanned is still so, what
\* it will record is what the console holds, or will hold once the staged package is
\* written; a decided upload builds on what was synced; and a deferring run that is about
\* to restore found a save that is a version, if it found one.
RunOK(c, r) ==
    /\ r.pc = "scanned" => Scanned(c, r.local)
    /\ r.pc \in Recording => r.base.version # VersionNone /\ r.base.sha256 = save[c]
    /\ r.pc \in Restoring =>
         r.base = NeverSynced \/ (r.base.version # VersionNone /\ r.base.sha256 = r.staged)
    /\ rollbacks = 0 =>
         /\ Names(r.base)
         /\ r.pc = "upload" /\ ~r.chosen =>
              BuildsOn(r.remote.latest_version, r.local.base_sha256)
         /\ r.pc \in {"download", "restore", "write"} /\ r.opts.conflict = "DEFER" =>
              \/ save[c] = NoSave \/ ServerHolds(save[c])
              \/ ~TellsAbsent(c) /\ ~r.local.has_save

\* An upload that is waited for carries what its console holds; one that was decided
\* builds on its base.
RequestOK(u) ==
    /\ u.live => run[u.from].pc = "sent" /\ u.sha256 = save[u.from]
    /\ rollbacks = 0 /\ ~u.chosen => BuildsOn(u.parent_version, u.basis)

\* A console waits for one answer at most.
OneAnswer ==
    \A u \in inflight, v \in inflight : u.live /\ v.live /\ u.from = v.from => u = v

BaseInv ==
    /\ TypeOK
    /\ \A c \in Consoles : RecordOK(c) /\ RunOK(c, run[c])
    /\ \A u \in inflight : RequestOK(u)
    /\ OneAnswer
    /\ SilentUploadBuildsOnBase

\* A history that only grew still has what it had.
LEMMA LongerHistory ==
    ASSUME TypeOK, TypeOK', Len(versions') >= Len(versions),
           \A i \in 1..Len(versions) : versions'[i] = versions[i]
    PROVE  /\ \A b : Names(b) => Names(b)'
           /\ \A p, s : BuildsOn(p, s) => BuildsOn(p, s)'
           /\ \A x : ServerHolds(x) => ServerHolds(x)'
  <1>1. /\ Len(versions) \in Nat /\ Len(versions') \in Nat
        /\ \A i \in 1..Len(versions) : i \in 1..Len(versions')
    BY DEF TypeOK
  <1>2. \A b : Names(b) => Names(b)'
    BY <1>1 DEF Names
  <1>3. \A p, s : BuildsOn(p, s) => BuildsOn(p, s)'
    BY <1>1 DEF BuildsOn
  <1>4. \A x : ServerHolds(x) => ServerHolds(x)'
    BY <1>1 DEF ServerHolds
  <1> QED
    BY <1>2, <1>3, <1>4

\* A step of console c that drops no version: what is to be shown is c's.
LEMMA Moves ==
    ASSUME BaseInv, TypeOK', NEW c \in Consoles,
           \A d \in Consoles \ {c} :
             run'[d] = run[d] /\ save'[d] = save[d] /\ record'[d] = record[d],
           rollbacks' = rollbacks, Len(versions') >= Len(versions),
           \A i \in 1..Len(versions) : versions'[i] = versions[i],
           RecordOK(c)', RunOK(c, run[c])',
           \A u \in inflight' : (u \in inflight /\ (u.live => u.from # c)) \/ RequestOK(u)',
           OneAnswer', SilentUploadBuildsOnBase'
    PROVE  BaseInv'
  <1> USE DEF BaseInv
  <1>1. /\ \A b : Names(b) => Names(b)'
        /\ \A p, s : BuildsOn(p, s) => BuildsOn(p, s)'
        /\ \A x : ServerHolds(x) => ServerHolds(x)'
    BY LongerHistory
  <1>2. ASSUME NEW d \in Consoles PROVE RecordOK(d)' /\ RunOK(d, run[d])'
    <2>1. CASE d = c
      BY <2>1
    <2>2. CASE d # c
      <3>1. PICK r : r = run[d]
        OBVIOUS
      <3>2. run'[d] = r /\ save'[d] = save[d] /\ record'[d] = record[d]
        BY <2>2, <3>1
      <3>3. RecordOK(d)'
        <4>1. RecordOK(d)
          OBVIOUS
        <4> QED
          BY <1>1, <3>2, <4>1 DEF RecordOK
      <3>4. RunOK(d, r)'
        <4>1. RunOK(d, r)
          BY <3>1
        <4>2. \A l : Scanned(d, l)' <=> Scanned(d, l)
          BY <3>2 DEF Scanned, ScanLocal
        <4> QED
          BY <1>1, <3>2, <4>1, <4>2 DEF RunOK
      <3> QED
        BY <3>2, <3>3, <3>4
    <2> QED
      BY <2>1, <2>2
  <1>3. ASSUME NEW u \in inflight' PROVE RequestOK(u)'
    <2>1. CASE u \in inflight /\ (u.live => u.from # c)
      <3>1. RequestOK(u) /\ u \in Requests /\ u.from \in Consoles
        BY <2>1 DEF TypeOK, Requests
      <3>2. u.live => run'[u.from] = run[u.from] /\ save'[u.from] = save[u.from]
        BY <2>1, <3>1
      <3> QED
        BY <1>1, <3>1, <3>2 DEF RequestOK
    <2> QED
      BY <2>1
  <1> QED
    BY <1>2, <1>3

\* Only a console at "sent" is waited for.
LEMMA NoneWaits ==
    ASSUME BaseInv, NEW c \in Consoles, run[c].pc # "sent"
    PROVE  \A u \in inflight : u.live => u.from # c
  BY DEF BaseInv, RequestOK

\* What a decision says of the two sides, whatever else they hold.
LEMMA Decisions ==
    ASSUME NEW l \in LocalType, NEW m \in RemoteType
    PROVE  /\ Decide(l, m) = "NONE" /\ l.has_save /\ m.exists => l.sha256 = m.sha256
           /\ Decide(l, m) = "UPLOAD" =>
                ~m.exists \/ (l.base_version = m.latest_version /\ LocalDirty(l))
           /\ Decide(l, m) = "DOWNLOAD" =>
                ~l.has_save \/ (l.base_version # VersionNone /\ l.sha256 = l.base_sha256)
  <1> l.base_version \in Nat /\ m.latest_version \in Nat
    BY DEF LocalType, RemoteType
  <1>1. CASE ~l.has_save
    BY <1>1 DEF Decide
  <1>2. CASE l.has_save /\ ~m.exists
    BY <1>2 DEF Decide
  <1>3. CASE l.has_save /\ m.exists /\ l.sha256 = m.sha256
    BY <1>3 DEF Decide
  <1>4. CASE l.has_save /\ m.exists /\ l.sha256 # m.sha256
    <2>1. CASE l.base_version = m.latest_version
      BY <1>4, <2>1 DEF Decide
    <2>2. CASE l.base_version < m.latest_version
      BY <1>4, <2>2 DEF Decide, LocalDirty
    <2>3. CASE l.base_version > m.latest_version
      BY <1>4, <2>3 DEF Decide
    <2> QED
      BY <2>1, <2>2, <2>3
  <1> QED
    BY <1>1, <1>2, <1>3, <1>4

\* A step that only moves the run of c on, to one that knows what it goes by.
LEMMA GoesOn ==
    ASSUME BaseInv, TypeOK', NEW c \in Consoles, NEW r, RunOK(c, r),
           run'[c] = r, \A d \in Consoles \ {c} : run'[d] = run[d],
           UNCHANGED <<save, record, versions, rollbacks>>,
           inflight' \subseteq inflight, \A u \in inflight' : u.live => u.from # c
    PROVE  BaseInv'
  <1> USE DEF BaseInv
  <1>2. /\ Len(versions') >= Len(versions)
        /\ \A i \in 1..Len(versions) : versions'[i] = versions[i]
    BY DEF TypeOK
  <1>3. RecordOK(c)' /\ RunOK(c, r)'
    BY DEF RecordOK, RunOK, Scanned, ScanLocal, Names, BuildsOn, ServerHolds
  <1>4. RunOK(c, run[c])'
    <2>1. PICK q : q = r
      OBVIOUS
    <2> QED
      BY <1>3
  <1>5. OneAnswer' /\ SilentUploadBuildsOnBase'
    BY DEF OneAnswer, SilentUploadBuildsOnBase
  <1> QED
    BY <1>2, <1>3, <1>4, <1>5, Moves

\* A run that is over, and one that has its base to record.
LEMMA Ends ==
    ASSUME NEW c
    PROVE  /\ RunOK(c, IdleRun)
           /\ \A b : b.version # VersionNone /\ b.sha256 = save[c] /\ (rollbacks = 0 => Names(b))
                       => RunOK(c, RunWithBase(b))
  <1>1. /\ IdleRun.pc = "idle" /\ IdleRun.base = NeverSynced
        /\ \A b : RunWithBase(b).pc = "record" /\ RunWithBase(b).base = b
    BY DEF IdleRun, RunWithBase
  <1>2. Names(NeverSynced)
    BY DEF Names, NeverSynced
  <1> QED
    BY <1>1, <1>2 DEF RunOK, Recording, Restoring

\* A run that begins: what it goes by is what is there.
LEMMA Begins ==
    ASSUME BaseInv, TypeOK', NEW c \in Consoles, RestoreBackup(c) \/ Scan(c)
    PROVE  BaseInv'
  <1>1. run[c].pc = "idle" /\ UNCHANGED <<save, record, versions, inflight, rollbacks>>
    BY DEF RestoreBackup, Scan
  <1>2. PICK r : /\ run' = [run EXCEPT ![c] = r] /\ r.base = NeverSynced
                 /\ \/ r.pc = "scanned" /\ Scanned(c, r.local)
                    \/ r.pc = "restore" /\ r.opts.conflict = "ASK"
    <2>1. ASSUME NEW x, run' = [run EXCEPT ![c] = [IdleRun EXCEPT !.pc = "restore", !.staged = x]]
          PROVE  \E r : /\ run' = [run EXCEPT ![c] = r] /\ r.base = NeverSynced
                        /\ r.pc = "restore" /\ r.opts.conflict = "ASK"
      <3>1. PICK r : r = [IdleRun EXCEPT !.pc = "restore", !.staged = x]
        OBVIOUS
      <3>2. r.base = NeverSynced /\ r.pc = "restore" /\ r.opts.conflict = "ASK"
        BY <3>1 DEF IdleRun, AskEverything
      <3> QED
        BY <2>1, <3>1, <3>2
    <2>2. ASSUME NEW o, NEW l, Scanned(c, l),
                 run' = [run EXCEPT ![c] = [IdleRun EXCEPT !.pc = "scanned", !.opts = o,
                                                          !.local = l]]
          PROVE  \E r : /\ run' = [run EXCEPT ![c] = r] /\ r.base = NeverSynced
                        /\ r.pc = "scanned" /\ Scanned(c, r.local)
      <3>1. PICK r : r = [IdleRun EXCEPT !.pc = "scanned", !.opts = o, !.local = l]
        OBVIOUS
      <3>2. r.base = NeverSynced /\ r.pc = "scanned" /\ r.local = l
        BY <3>1 DEF IdleRun
      <3> QED
        BY <2>2, <3>1, <3>2
    <2>3. ASSUME NEW found \in BOOLEAN, OpenSave(c, found) PROVE Scanned(c, ScanLocal(c, found))
      BY <2>3 DEF OpenSave, Scanned
    <2>4. CASE RestoreBackup(c)
      BY <2>1, <2>4 DEF RestoreBackup
    <2>5. CASE Scan(c)
      BY <2>2, <2>3, <2>5 DEF Scan
    <2> QED
      BY <2>4, <2>5
  <1>3. RunOK(c, r)
    BY <1>2 DEF RunOK, Recording, Restoring, Names, NeverSynced
  <1>4. run'[c] = r /\ \A d \in Consoles \ {c} : run'[d] = run[d]
    BY <1>2 DEF BaseInv, TypeOK
  <1> QED
    BY <1>1, <1>3, <1>4, NoneWaits, GoesOn

\* A decided upload builds on what was synced; a silent download replaces a version.
LEMMA GetsLatest ==
    ASSUME BaseInv, TypeOK', NEW c \in Consoles, GetLatest(c)
    PROVE  BaseInv'
  <1> USE DEF BaseInv
  <1>1. PICK l : l = run[c].local
    OBVIOUS
  <1>2. PICK m : m = Latest
    OBVIOUS
  <1>3. /\ run[c] \in RunStates /\ l \in LocalType /\ m \in RemoteType
        /\ record[c] \in BaseType /\ Len(versions) \in Nat
    BY <1>1, <1>2, LatestType DEF TypeOK, RunStates
  <1>4. /\ run[c].pc = "scanned" /\ UNCHANGED <<save, record, versions, inflight, rollbacks>>
        /\ Scanned(c, l)
    BY <1>1 DEF GetLatest, RunOK
  <1>5. /\ l.has_save => save[c] # NoSave /\ l.sha256 = save[c]
        /\ ~l.has_save => save[c] = NoSave \/ ~TellsAbsent(c)
        /\ l.base_version = record[c].version /\ l.base_sha256 = record[c].sha256
    BY <1>4 DEF Scanned, ScanLocal
  <1>6. /\ m.exists <=> versions # <<>>
        /\ m.exists => /\ m.latest_version = Len(versions) /\ Len(versions) # 0
                       /\ m.sha256 = versions[Len(versions)].sha256
        /\ ~m.exists => m.latest_version = 0 /\ Len(versions) = 0
    <2>1. CASE versions = <<>>
      BY <1>2, <2>1 DEF Latest, NoRemote, VersionNone
    <2>2. CASE versions # <<>>
      <3>1. Len(versions) # 0
        BY <2>2 DEF TypeOK
      <3> QED
        BY <1>2, <2>2, <3>1 DEF Latest
    <2> QED
      BY <2>1, <2>2
  <1>7. \A u \in inflight' : u.live => u.from # c
    BY <1>4, NoneWaits
  <1>8. RecordOK(c) /\ RunOK(c, run[c])
    OBVIOUS
  <1>9. CASE Decide(l, m) = "NONE" /\ NothingToMove(c, m)
    <2>1. CASE EndRun(c)
      <3>1. run'[c] = IdleRun /\ \A d \in Consoles \ {c} : run'[d] = run[d]
        BY <2>1 DEF EndRun, TypeOK
      <3> QED
        BY <1>4, <1>7, <3>1, Ends, GoesOn
    <2>2. CASE /\ l.has_save /\ m.exists
               /\ run' = [run EXCEPT ![c] = RunWithBase([version |-> m.latest_version,
                                                         sha256  |-> l.sha256])]
      <3>1. PICK b : b = [version |-> m.latest_version, sha256 |-> l.sha256]
        OBVIOUS
      <3>2. l.sha256 = m.sha256
        BY <1>3, <1>9, <2>2, Decisions
      <3>3. b.version = m.latest_version /\ b.sha256 = l.sha256
        BY <3>1
      <3>4. b.version # VersionNone /\ b.sha256 = save[c] /\ Names(b)
        BY <1>3, <1>5, <1>6, <2>2, <3>2, <3>3 DEF Names, VersionNone
      <3>5. RunOK(c, RunWithBase(b))
        BY <3>4, Ends
      <3>6. run'[c] = RunWithBase(b) /\ \A d \in Consoles \ {c} : run'[d] = run[d]
        BY <2>2, <3>1 DEF TypeOK
      <3> QED
        BY <1>4, <1>7, <3>5, <3>6, GoesOn
    <2> QED
      BY <1>1, <1>9, <2>1, <2>2 DEF NothingToMove
  <1>10. CASE /\ Decide(l, m) # "NONE"
              /\ run' = [run EXCEPT ![c].remote = m,
                           ![c].pc = CASE Decide(l, m) = "UPLOAD"   -> "upload"
                                       [] Decide(l, m) = "DOWNLOAD" -> "download"
                                       [] Decide(l, m) = "CONFLICT" -> "resolve"]
    <2>1. Decide(l, m) \in {"UPLOAD", "DOWNLOAD", "CONFLICT"}
      BY <1>3, <1>10 DEF Decide, LocalType, RemoteType
    <2>2. PICK label : label = CASE Decide(l, m) = "UPLOAD"   -> "upload"
                                 [] Decide(l, m) = "DOWNLOAD" -> "download"
                                 [] Decide(l, m) = "CONFLICT" -> "resolve"
      OBVIOUS
    <2>3. /\ label \in {"upload", "download", "resolve"}
          /\ label = "upload" => Decide(l, m) = "UPLOAD"
          /\ label = "download" => Decide(l, m) = "DOWNLOAD"
      BY <2>1, <2>2
    <2>4. PICK r : r = [run[c] EXCEPT !.remote = m, !.pc = label]
      OBVIOUS
    <2>5. run'[c] = r /\ \A d \in Consoles \ {c} : run'[d] = run[d]
      BY <1>10, <2>2, <2>4 DEF TypeOK
    <2>6. /\ r.pc = label /\ r.remote = m /\ r.local = l /\ r.base = run[c].base
          /\ r.opts = run[c].opts /\ r.chosen = run[c].chosen
      BY <1>1, <1>3, <2>4 DEF RunStates
    <2>7. rollbacks = 0 /\ label = "upload" => BuildsOn(m.latest_version, l.base_sha256)
      <3> SUFFICES ASSUME rollbacks = 0, label = "upload"
                   PROVE  BuildsOn(m.latest_version, l.base_sha256)
        OBVIOUS
      <3>1. ~m.exists \/ (l.base_version = m.latest_version /\ LocalDirty(l))
        BY <1>3, <2>3, Decisions
      <3>2. /\ record[c].version = 0 => record[c].sha256 = NoSave
            /\ record[c].version # 0 => /\ record[c].version \in 1..Len(versions)
                                        /\ versions[record[c].version].sha256 = record[c].sha256
        BY <1>8 DEF RecordOK, Names, VersionNone
      <3> QED
        BY <1>3, <1>5, <1>6, <3>1, <3>2 DEF BuildsOn
    <2>8. rollbacks = 0 /\ label = "download" =>
            \/ save[c] = NoSave \/ ServerHolds(save[c])
            \/ ~TellsAbsent(c) /\ ~l.has_save
      <3> SUFFICES ASSUME rollbacks = 0, label = "download", l.has_save
                   PROVE  ServerHolds(save[c])
        BY <1>5
      <3>1. ~l.has_save \/ (l.base_version # VersionNone /\ l.sha256 = l.base_sha256)
        BY <1>3, <2>3, Decisions
      <3> QED
        BY <1>5, <1>8, <3>1 DEF RecordOK, Names, ServerHolds
    <2>9. RunOK(c, r)
      BY <1>8, <2>3, <2>6, <2>7, <2>8 DEF RunOK, Recording, Restoring
    <2> QED
      BY <1>4, <1>7, <2>5, <2>9, GoesOn
  <1> QED
    BY <1>1, <1>2, <1>9, <1>10 DEF GetLatest

\* A run that is given up leaves nothing behind.
LEMMA Stops ==
    ASSUME BaseInv, TypeOK', NEW c \in Consoles, run[c].pc # "sent", EndRun(c),
           UNCHANGED <<save, record, versions, inflight, rollbacks>>
    PROVE  BaseInv'
  <1>1. run'[c] = IdleRun /\ \A d \in Consoles \ {c} : run'[d] = run[d]
    BY DEF EndRun, BaseInv, TypeOK
  <1> QED
    BY <1>1, Ends, NoneWaits, GoesOn

\* An answer is given to a conflict, or the question is put again: what is then uploaded
\* was chosen, and a deferring run goes no further.
LEMMA Answers ==
    ASSUME BaseInv, TypeOK', NEW c \in Consoles, Resolve(c) \/ Refused(c)
    PROVE  BaseInv'
  <1>1. /\ run[c].pc \in {"resolve", "refused"} /\ run[c] \in RunStates /\ RunOK(c, run[c])
        /\ UNCHANGED <<save, record, versions, inflight, rollbacks>>
    BY DEF Resolve, Refused, BaseInv, TypeOK
  <1>2. CASE EndRun(c)
    BY <1>1, <1>2, Stops
  <1>3. CASE ~EndRun(c)
    <2>1. PICK r : r = run'[c]
      OBVIOUS
    <2>2. /\ r.pc \in {"resolve", "upload", "download"} /\ r.base = run[c].base
          /\ r.pc = "upload" => r.chosen
          /\ r.pc = "download" => r.opts.conflict # "DEFER"
          /\ \A d \in Consoles \ {c} : run'[d] = run[d]
      <3>1. CASE Refused(c)
        <4>1. run' = [run EXCEPT ![c].remote = Latest, ![c].pc = "resolve"]
          BY <1>3, <3>1 DEF Refused
        <4> QED
          BY <1>1, <2>1, <4>1 DEF BaseInv, TypeOK, RunStates
      <3>2. CASE Resolve(c)
        <4>1. PICK choice \in Choices(run[c].opts.conflict) :
                /\ choice # "DEFER"
                /\ run' = [run EXCEPT ![c].chosen = TRUE,
                             ![c].pc = IF choice = "KEEP_LOCAL" THEN "upload" ELSE "download"]
          BY <1>3, <3>2 DEF Resolve
        <4>2. run[c].opts.conflict # "DEFER"
          BY <4>1 DEF Choices
        <4> QED
          BY <1>1, <2>1, <4>1, <4>2 DEF BaseInv, TypeOK, RunStates
      <3> QED
        BY <3>1, <3>2
    <2>3. RunOK(c, r)
      BY <1>1, <2>2 DEF RunOK, Recording, Restoring
    <2> QED
      BY <1>1, <2>1, <2>2, <2>3, NoneWaits, GoesOn
  <1> QED
    BY <1>2, <1>3

\* What is downloaded is the version that will be recorded.
LEMMA Downloads ==
    ASSUME BaseInv, TypeOK', NEW c \in Consoles, Download(c)
    PROVE  BaseInv'
  <1>1. /\ run[c].pc = "download" /\ run[c] \in RunStates /\ RunOK(c, run[c])
        /\ UNCHANGED <<save, record, versions, inflight, rollbacks>>
    BY DEF Download, BaseInv, TypeOK
  <1>2. CASE EndRun(c)
    BY <1>1, <1>2, Stops
  <1>3. CASE ~EndRun(c)
    <2>1. PICK r : r = run'[c]
      OBVIOUS
    <2>2. PICK m : m = run[c].remote
      OBVIOUS
    <2>3. PICK b : b = [version |-> m.latest_version, sha256 |-> m.sha256]
      OBVIOUS
    <2>4. /\ Downloadable(m)
          /\ run' = [run EXCEPT ![c].pc = "restore", ![c].base = b,
                                ![c].staged = versions[m.latest_version].sha256]
      BY <1>3, <2>2, <2>3 DEF Download, BaseInv, TypeOK
    <2>5. /\ r.pc = "restore" /\ r.base = b /\ r.staged = m.sha256 /\ r.opts = run[c].opts
          /\ r.local = run[c].local
          /\ \A d \in Consoles \ {c} : run'[d] = run[d]
      BY <1>1, <2>1, <2>4 DEF BaseInv, TypeOK, RunStates, Downloadable
    <2>6. b.version # VersionNone /\ b.sha256 = r.staged /\ Names(b)
      BY <2>3, <2>4, <2>5 DEF Downloadable, Names, VersionNone
    <2>7. RunOK(c, r)
      BY <1>1, <2>5, <2>6 DEF RunOK, Recording, Restoring
    <2> QED
      BY <1>1, <2>1, <2>5, <2>7, NoneWaits, GoesOn
  <1> QED
    BY <1>2, <1>3

\* A backup changes nothing a base depends on.
LEMMA BacksUp ==
    ASSUME BaseInv, TypeOK', NEW c \in Consoles,
           BackupFirst(c) \/ BackupNow(c) \/ DeleteBackup(c)
    PROVE  BaseInv'
  <1>1. /\ run[c].pc \in {"idle", "restore"} /\ run[c] \in RunStates /\ RunOK(c, run[c])
        /\ UNCHANGED <<save, record, versions, inflight, rollbacks>>
    BY DEF BackupFirst, BackupNow, DeleteBackup, BaseInv, TypeOK
  <1>2. CASE EndRun(c)
    BY <1>1, <1>2, Stops
  <1>3. CASE ~EndRun(c)
    <2>1. PICK r : r = run'[c]
      OBVIOUS
    <2>2. /\ r.base = run[c].base /\ r.staged = run[c].staged /\ r.opts = run[c].opts
          /\ r.local = run[c].local
          /\ \/ r.pc = "idle"
             \/ r.pc = "write" /\ run[c].pc = "restore"
          /\ \A d \in Consoles \ {c} : run'[d] = run[d]
      <3>1. CASE BackupFirst(c)
        <4>1. Goto(c, "write") /\ run[c].pc = "restore"
          BY <1>3, <3>1 DEF BackupFirst
        <4> QED
          BY <1>1, <2>1, <4>1 DEF Goto, BaseInv, TypeOK, RunStates
      <3>2. CASE BackupNow(c) \/ DeleteBackup(c)
        <4>1. UNCHANGED run /\ run[c].pc = "idle"
          BY <3>2 DEF BackupNow, DeleteBackup
        <4> QED
          BY <2>1, <4>1
      <3> QED
        BY <3>1, <3>2
    <2>3. RunOK(c, r)
      BY <1>1, <2>2 DEF RunOK, Recording, Restoring
    <2> QED
      BY <1>1, <2>1, <2>2, <2>3, NoneWaits, GoesOn
  <1> QED
    BY <1>2, <1>3

\* An upload goes out with what the console holds, on the base it decided on.
LEMMA Sends ==
    ASSUME BaseInv, TypeOK', NEW c \in Consoles, Send(c)
    PROVE  BaseInv'
  <1> USE DEF BaseInv
  <1>1. /\ run[c].pc = "upload" /\ run[c] \in RunStates /\ RunOK(c, run[c]) /\ RecordOK(c)
        /\ UNCHANGED <<save, record, versions, rollbacks>>
    BY DEF Send, TypeOK
  <1>2. CASE EndRun(c) /\ UNCHANGED inflight
    BY <1>1, <1>2, Stops
  <1>3. CASE inflight' = inflight \cup {Request(c)} /\ Goto(c, "sent")
    <2>1. PICK u : u = Request(c)
      OBVIOUS
    <2>2. /\ u.from = c /\ u.sha256 = save[c] /\ u.chosen = run[c].chosen
          /\ u.parent_version = run[c].remote.latest_version
          /\ u.basis = run[c].local.base_sha256
      BY <2>1 DEF Request
    <2>3. PICK r : r = run'[c]
      OBVIOUS
    <2>4. /\ r.pc = "sent" /\ r.base = run[c].base
          /\ \A d \in Consoles \ {c} : run'[d] = run[d]
      BY <1>1, <1>3, <2>3 DEF Goto, TypeOK, RunStates
    <2>5. RunOK(c, run[c])'
      <3>1. RunOK(c, r)'
        BY <1>1, <2>4 DEF RunOK, Recording, Restoring, Names
      <3> QED
        BY <2>3, <3>1
    <2>6. RecordOK(c)'
      BY <1>1 DEF RecordOK, Names
    <2>7. RequestOK(u)'
      BY <1>1, <2>2, <2>3, <2>4 DEF RequestOK, RunOK, BuildsOn
    <2>8. \A v \in inflight : v.live => v.from # c
      BY <1>1, NoneWaits
    <2>9. \A v \in inflight' : (v \in inflight /\ (v.live => v.from # c)) \/ RequestOK(v)'
      <3> TAKE v \in inflight'
      <3>1. v \in inflight \/ v = u
        BY <1>3, <2>1
      <3> QED
        BY <2>7, <2>8, <3>1
    <2>10. OneAnswer'
      BY <1>3, <2>1, <2>2, <2>8 DEF OneAnswer
    <2>11. SilentUploadBuildsOnBase'
      BY <1>1 DEF SilentUploadBuildsOnBase
    <2>12. /\ Len(versions') >= Len(versions)
           /\ \A i \in 1..Len(versions) : versions'[i] = versions[i]
      BY <1>1 DEF TypeOK
    <2> QED
      BY <1>1, <2>4, <2>5, <2>6, <2>9, <2>10, <2>11, <2>12, Moves
  <1> QED
    BY <1>1, <1>2, <1>3 DEF Send

\* A cut run takes its answer with it; its upload may still arrive, unheard.
LEMMA Aborts ==
    ASSUME BaseInv, TypeOK', NEW c \in Consoles, Abort(c)
    PROVE  BaseInv'
  <1> USE DEF BaseInv
  <1>1. /\ UNCHANGED <<save, record, versions, rollbacks>> /\ RecordOK(c)
        /\ run'[c] = IdleRun /\ \A d \in Consoles \ {c} : run'[d] = run[d]
    BY DEF Abort, EndRun, TypeOK
  <1>2. PICK W : W = {u \in inflight : u.from = c /\ u.live}
    OBVIOUS
  <1>3. \A v \in inflight' : \/ v \in inflight \ W
                             \/ \E u \in W : v = [u EXCEPT !.live = FALSE]
    BY <1>2 DEF Abort
  <1>4. \A v \in inflight' : \/ v \in inflight /\ (v.live => v.from # c)
                             \/ ~v.live /\ RequestOK(v)'
    <2> TAKE v \in inflight'
    <2>1. CASE v \in inflight \ W
      BY <1>2, <2>1
    <2>2. CASE \E u \in W : v = [u EXCEPT !.live = FALSE]
      <3>1. PICK u \in W : v = [u EXCEPT !.live = FALSE]
        BY <2>2
      <3>2. u \in inflight /\ u \in Requests /\ RequestOK(u)
        BY <1>2 DEF TypeOK
      <3>3. /\ ~v.live /\ v.chosen = u.chosen /\ v.parent_version = u.parent_version
            /\ v.basis = u.basis
        BY <3>1, <3>2 DEF Requests
      <3> QED
        BY <1>1, <3>2, <3>3 DEF RequestOK, BuildsOn
    <2> QED
      BY <1>3, <2>1, <2>2
  <1>5. OneAnswer'
    BY <1>4 DEF OneAnswer
  <1>6. RunOK(c, run[c])'
    <2>1. RunOK(c, IdleRun)'
      BY <1>1, Ends DEF RunOK, Scanned, ScanLocal, Names, BuildsOn, ServerHolds
    <2> QED
      BY <1>1, <2>1
  <1>7. RecordOK(c)' /\ SilentUploadBuildsOnBase'
    BY <1>1 DEF RecordOK, Names, SilentUploadBuildsOnBase
  <1>8. /\ Len(versions') >= Len(versions)
        /\ \A i \in 1..Len(versions) : versions'[i] = versions[i]
    BY <1>1 DEF TypeOK
  <1> QED
    BY <1>1, <1>4, <1>5, <1>6, <1>7, <1>8, Moves

\* A version that is taken follows what its upload was built on, and a console that waits
\* learns the number its bytes got.
LEMMA Accepted ==
    ASSUME BaseInv, TypeOK', NEW u \in inflight, Put(u), Accepts(u), AddVersion(u),
           IF u.live THEN run' = [run EXCEPT ![u.from] = RunWithBase(Issued(u))]
                     ELSE UNCHANGED run
    PROVE  BaseInv'
  <1> USE DEF BaseInv
  <1>1. PICK c \in Consoles : c = u.from
    BY DEF TypeOK, Requests
  <1>2. /\ UNCHANGED <<save, record, rollbacks>> /\ inflight' = inflight \ {u}
        /\ u \in Requests /\ RequestOK(u) /\ RecordOK(c) /\ RunOK(c, run[c])
        /\ Len(versions) \in Nat /\ u.parent_version = Len(versions)
    BY <1>1 DEF Put, Accepts, TypeOK
  <1>3. /\ Len(versions') = Len(versions) + 1
        /\ \A i \in 1..Len(versions) : versions'[i] = versions[i]
        /\ versions'[Len(versions) + 1].sha256 = u.sha256
        /\ versions'[Len(versions) + 1].basis = u.basis
        /\ versions'[Len(versions) + 1].chosen = u.chosen
    BY <1>2 DEF AddVersion, TypeOK
  <1>4. Len(versions') >= Len(versions)
    BY <1>2, <1>3
  <1>5. /\ \A b : Names(b) => Names(b)'
        /\ \A p, s : BuildsOn(p, s) => BuildsOn(p, s)'
        /\ \A x : ServerHolds(x) => ServerHolds(x)'
    BY <1>3, <1>4, LongerHistory
  <1>6. RecordOK(c)'
    BY <1>2, <1>5 DEF RecordOK
  <1>7. RunOK(c, run[c])'
    <2>1. CASE u.live
      <3>1. PICK b : b = Issued(u)
        OBVIOUS
      <3>2. b.version = Len(versions) + 1 /\ b.sha256 = u.sha256
        BY <3>1 DEF Issued
      <3>3. b.version # VersionNone /\ b.sha256 = save'[c] /\ Names(b)'
        BY <1>1, <1>2, <1>3, <2>1, <3>2 DEF Names, RequestOK, VersionNone
      <3>4. run'[c] = RunWithBase(b)
        BY <1>1, <2>1, <3>1 DEF TypeOK
      <3>5. RunOK(c, RunWithBase(b))'
        <4>1. RunWithBase(b).pc = "record" /\ RunWithBase(b).base = b
          BY DEF RunWithBase, IdleRun
        <4> QED
          BY <3>3, <4>1 DEF RunOK, Recording, Restoring
      <3> QED
        BY <3>4, <3>5
    <2>2. CASE ~u.live
      <3>1. PICK r : r = run[c]
        OBVIOUS
      <3>2. RunOK(c, r)'
        BY <1>2, <1>5, <3>1 DEF RunOK, Scanned, ScanLocal
      <3> QED
        BY <2>2, <3>1, <3>2
    <2> QED
      BY <2>1, <2>2
  <1>8. \A d \in Consoles \ {c} :
           run'[d] = run[d] /\ save'[d] = save[d] /\ record'[d] = record[d]
    BY <1>1, <1>2 DEF TypeOK
  <1>9. \A v \in inflight' : (v \in inflight /\ (v.live => v.from # c)) \/ RequestOK(v)'
    <2> SUFFICES ASSUME NEW v \in inflight', v.live, v.from = c PROVE RequestOK(v)'
      BY <1>2
    <2>1. v \in inflight /\ v # u /\ v \in Requests /\ RequestOK(v)
      BY <1>2 DEF TypeOK
    <2>2. ~u.live
      BY <1>1, <2>1 DEF OneAnswer
    <2> QED
      BY <1>2, <1>5, <2>1, <2>2 DEF RequestOK
  <1>10. OneAnswer'
    BY <1>2 DEF OneAnswer
  <1>11. SilentUploadBuildsOnBase'
    <2> SUFFICES ASSUME NEW i \in 1..Len(versions'), rollbacks = 0, ~versions'[i].chosen
                 PROVE  versions'[i].basis = IF i = 1 THEN NoSave ELSE versions'[i - 1].sha256
      BY <1>2 DEF SilentUploadBuildsOnBase
    <2>1. CASE i = Len(versions) + 1
      <3>1. BuildsOn(Len(versions), u.basis)
        BY <1>2, <1>3, <2>1 DEF RequestOK
      <3>2. i # 1 => i - 1 \in 1..Len(versions) /\ versions'[i - 1] = versions[i - 1]
        BY <1>2, <1>3, <2>1
      <3> QED
        BY <1>2, <1>3, <2>1, <3>1, <3>2 DEF BuildsOn
    <2>2. CASE i \in 1..Len(versions)
      <3>1. versions[i].basis = IF i = 1 THEN NoSave ELSE versions[i - 1].sha256
        BY <1>3, <2>2 DEF SilentUploadBuildsOnBase
      <3>2. i # 1 => i - 1 \in 1..Len(versions)
        BY <1>2, <2>2
      <3> QED
        BY <1>3, <2>2, <3>1, <3>2
    <2> QED
      BY <1>2, <1>3, <2>1, <2>2
  <1> QED
    BY <1>2, <1>3, <1>4, <1>6, <1>7, <1>8, <1>9, <1>10, <1>11, Moves

\* A refusal tells the console nothing it goes by.
LEMMA Rejected ==
    ASSUME BaseInv, TypeOK', NEW u \in inflight, Put(u), UNCHANGED versions,
           IF u.live THEN Goto(u.from, "refused") ELSE UNCHANGED run
    PROVE  BaseInv'
  <1> USE DEF BaseInv
  <1>1. PICK c \in Consoles : c = u.from
    BY DEF TypeOK, Requests
  <1>2. /\ UNCHANGED <<save, record, versions, rollbacks>> /\ inflight' = inflight \ {u}
        /\ run[c] \in RunStates /\ RunOK(c, run[c])
    BY <1>1 DEF Put, TypeOK
  <1>3. CASE u.live
    <2>1. PICK r : r = run'[c]
      OBVIOUS
    <2>2. /\ r.pc = "refused" /\ r.base = run[c].base
          /\ \A d \in Consoles \ {c} : run'[d] = run[d]
      BY <1>1, <1>2, <1>3, <2>1 DEF Goto, TypeOK, RunStates
    <2>3. RunOK(c, r)
      BY <1>2, <2>2 DEF RunOK, Recording, Restoring
    <2>4. \A v \in inflight' : v.live => v.from # c
      BY <1>1, <1>2, <1>3 DEF OneAnswer
    <2> QED
      BY <1>2, <2>1, <2>2, <2>3, <2>4, GoesOn
  <1>4. CASE ~u.live
    <2>1. UNCHANGED run
      BY <1>4
    <2>2. \A d \in Consoles : RecordOK(d)' /\ RunOK(d, run[d])'
      BY <1>2, <2>1 DEF RecordOK, RunOK, Scanned, ScanLocal, Names, BuildsOn, ServerHolds
    <2>3. \A v \in inflight' : RequestOK(v)'
      BY <1>2, <2>1 DEF RequestOK, BuildsOn
    <2> QED
      BY <1>2, <2>2, <2>3 DEF OneAnswer, SilentUploadBuildsOnBase
  <1> QED
    BY <1>3, <1>4

\* A save changes between runs, or as the last byte of a restore lands; where a run goes
\* on it has what it will record.
LEMMA Writes ==
    ASSUME BaseInv, TypeOK', NEW c \in Consoles,
           Play(c) \/ Commit(c) \/ RemoveAll(c) \/ WriteSome(c) \/ WriteRest(c)
    PROVE  BaseInv'
  <1> USE DEF BaseInv
  <1>1. /\ run[c].pc \in {"idle", "write", "cleared", "writing"}
        /\ run[c] \in RunStates /\ RunOK(c, run[c]) /\ RecordOK(c)
        /\ UNCHANGED <<record, versions, inflight, rollbacks>>
    BY DEF Play, Commit, RemoveAll, WriteSome, WriteRest, TypeOK
  <1>2. \A d \in Consoles \ {c} :
           run'[d] = run[d] /\ save'[d] = save[d] /\ record'[d] = record[d]
    BY DEF Play, Commit, RemoveAll, WriteSome, WriteRest, Written, EndRun, Goto, TypeOK
  <1>3. RunOK(c, run[c])'
    <2>1. CASE Play(c)
      <3>1. run' = run /\ run[c].pc = "idle"
        BY <2>1 DEF Play
      <3>2. PICK r : r = run[c]
        OBVIOUS
      <3>3. RunOK(c, r)'
        BY <1>1, <3>1, <3>2 DEF RunOK, Recording, Restoring, Names
      <3> QED
        BY <3>1, <3>2, <3>3
    <2>2. CASE RemoveAll(c) \/ WriteSome(c)
      <3>1. PICK r : r = run'[c]
        OBVIOUS
      <3>2. /\ r.pc \in {"cleared", "writing"} /\ run[c].pc \in Restoring
            /\ r.base = run[c].base /\ r.staged = run[c].staged
        BY <1>1, <2>2, <3>1 DEF RemoveAll, WriteSome, Goto, TypeOK, RunStates, Restoring
      <3>3. RunOK(c, r)'
        BY <1>1, <3>2 DEF RunOK, Recording, Restoring, Names
      <3> QED
        BY <3>1, <3>3
    <2>3. CASE Commit(c) \/ WriteRest(c)
      <3>1. run[c].pc \in Restoring /\ save'[c] = run[c].staged /\ Written(c)
        BY <2>3 DEF Commit, WriteRest, Restoring, TypeOK
      <3>2. CASE run[c].base = NeverSynced
        <4>1. run'[c] = IdleRun
          BY <3>1, <3>2 DEF Written, EndRun, TypeOK
        <4>2. RunOK(c, IdleRun)'
          BY DEF RunOK, IdleRun, Recording, Restoring, Names, NeverSynced
        <4> QED
          BY <4>1, <4>2
      <3>3. CASE run[c].base # NeverSynced
        <4>1. PICK b : b = run[c].base
          OBVIOUS
        <4>2. b.version # VersionNone /\ b.sha256 = run[c].staged /\ (rollbacks = 0 => Names(b))
          BY <1>1, <3>1, <3>3, <4>1 DEF RunOK
        <4>3. run'[c] = RunWithBase(b)
          BY <3>1, <3>3, <4>1 DEF Written, TypeOK
        <4>4. RunWithBase(b).pc = "record" /\ RunWithBase(b).base = b
          BY DEF RunWithBase, IdleRun
        <4>5. RunOK(c, RunWithBase(b))'
          BY <1>1, <3>1, <4>2, <4>4 DEF RunOK, Recording, Restoring, Names
        <4> QED
          BY <4>3, <4>5
      <3> QED
        BY <3>2, <3>3
    <2> QED
      BY <2>1, <2>2, <2>3
  <1>4. RecordOK(c)' /\ SilentUploadBuildsOnBase' /\ OneAnswer'
    BY <1>1 DEF RecordOK, Names, SilentUploadBuildsOnBase, OneAnswer
  <1>5. /\ Len(versions') >= Len(versions)
        /\ \A i \in 1..Len(versions) : versions'[i] = versions[i]
    BY <1>1 DEF TypeOK
  <1>6. \A u \in inflight' : (u \in inflight /\ (u.live => u.from # c)) \/ RequestOK(u)'
    BY <1>1, NoneWaits
  <1> QED
    BY <1>1, <1>2, <1>3, <1>4, <1>5, <1>6, Moves

\* The state file takes the base of the run, or is gone for a moment.
LEMMA Records ==
    ASSUME BaseInv, TypeOK', NEW c \in Consoles, SwapState(c) \/ FinishSwap(c)
    PROVE  BaseInv'
  <1> USE DEF BaseInv
  <1>1. /\ run[c].pc \in Recording /\ run[c] \in RunStates /\ RunOK(c, run[c])
        /\ UNCHANGED <<save, versions, inflight, rollbacks>>
    BY DEF SwapState, FinishSwap, Recording, TypeOK
  <1>2. \A d \in Consoles \ {c} :
           run'[d] = run[d] /\ save'[d] = save[d] /\ record'[d] = record[d]
    BY DEF SwapState, FinishSwap, EndRun, Goto, TypeOK
  <1>3. PICK b : b = run[c].base
    OBVIOUS
  <1>4. b.version # VersionNone /\ b.sha256 = save[c] /\ (rollbacks = 0 => Names(b))
    BY <1>1, <1>3 DEF RunOK
  <1>5. record'[c] \in {b, NeverSynced}
    BY <1>3 DEF SwapState, FinishSwap, TypeOK
  <1>6. RecordOK(c)'
    BY <1>1, <1>4, <1>5 DEF RecordOK, Names, NeverSynced
  <1>7. PICK r : r = run'[c]
    OBVIOUS
  <1>8. r = IdleRun \/ (r.pc = "swap" /\ r.base = b)
    BY <1>1, <1>3, <1>7 DEF SwapState, FinishSwap, EndRun, Goto, TypeOK, RunStates
  <1>9. RunOK(c, run[c])'
    <2>1. RunOK(c, r)'
      <3>1. IdleRun.pc = "idle" /\ IdleRun.base = NeverSynced
        BY DEF IdleRun
      <3> QED
        BY <1>1, <1>4, <1>8, <3>1 DEF RunOK, Recording, Restoring, Names, NeverSynced
    <2> QED
      BY <1>7, <2>1
  <1>10. SilentUploadBuildsOnBase' /\ OneAnswer'
    BY <1>1 DEF SilentUploadBuildsOnBase, OneAnswer
  <1>11. /\ Len(versions') >= Len(versions)
         /\ \A i \in 1..Len(versions) : versions'[i] = versions[i]
    BY <1>1 DEF TypeOK
  <1>12. \A u \in inflight' : (u \in inflight /\ (u.live => u.from # c)) \/ RequestOK(u)'
    BY <1>1, NoneWaits DEF Recording
  <1> QED
    BY <1>1, <1>2, <1>6, <1>9, <1>10, <1>11, <1>12, Moves

\* After a restore of the server nothing is promised of its numbers, and all the rest is
\* as it was.
LEMMA RollsBack ==
    ASSUME BaseInv, TypeOK', Rollback
    PROVE  BaseInv'
  <1> USE DEF BaseInv
  <1>1. UNCHANGED <<save, record, run, inflight>> /\ rollbacks' # 0
    BY DEF Rollback, TypeOK
  <1>2. \A c \in Consoles : RecordOK(c)' /\ RunOK(c, run[c])'
    BY <1>1 DEF RecordOK, RunOK, Scanned, ScanLocal
  <1>3. \A u \in inflight' : RequestOK(u)'
    BY <1>1 DEF RequestOK
  <1> QED
    BY <1>1, <1>2, <1>3 DEF OneAnswer, SilentUploadBuildsOnBase

\* Nobody has synced and nothing is under way.
LEMMA InitBase == Init => BaseInv
  <1> SUFFICES ASSUME Init PROVE BaseInv
    OBVIOUS
  <1>1. TypeOK
    BY InitType
  <1>2. IdleRun.pc = "idle" /\ IdleRun.base = NeverSynced
    BY DEF IdleRun
  <1>3. \A c \in Consoles : RecordOK(c) /\ RunOK(c, run[c])
    BY <1>2 DEF Init, RecordOK, RunOK, Recording, Restoring, Names, NeverSynced
  <1> QED
    BY <1>1, <1>3 DEF Init, BaseInv, OneAnswer, SilentUploadBuildsOnBase

\* No step, of a console, of the server or of what fails, makes a base lie.
LEMMA StepBase == BaseInv /\ [Next]_vars => BaseInv'
  <1> SUFFICES ASSUME BaseInv, [Next]_vars PROVE BaseInv'
    OBVIOUS
  <1>0. TypeOK'
    BY StepType DEF BaseInv
  <1>1. ASSUME NEW c \in Consoles, RestoreBackup(c) \/ Scan(c) PROVE BaseInv'
    BY <1>0, <1>1, Begins
  <1>2. ASSUME NEW c \in Consoles, GetLatest(c) PROVE BaseInv'
    BY <1>0, <1>2, GetsLatest
  <1>3. ASSUME NEW c \in Consoles, Decline(c) PROVE BaseInv'
    BY <1>0, <1>3, Stops DEF Decline
  <1>4. ASSUME NEW c \in Consoles, Resolve(c) \/ Refused(c) PROVE BaseInv'
    BY <1>0, <1>4, Answers
  <1>5. ASSUME NEW c \in Consoles, Send(c) PROVE BaseInv'
    BY <1>0, <1>5, Sends
  <1>6. ASSUME NEW c \in Consoles, Download(c) PROVE BaseInv'
    BY <1>0, <1>6, Downloads
  <1>7. ASSUME NEW c \in Consoles, BackupFirst(c) \/ BackupNow(c) \/ DeleteBackup(c)
        PROVE  BaseInv'
    BY <1>0, <1>7, BacksUp
  <1>8. ASSUME NEW c \in Consoles,
               Play(c) \/ Commit(c) \/ RemoveAll(c) \/ WriteSome(c) \/ WriteRest(c)
        PROVE  BaseInv'
    BY <1>0, <1>8, Writes
  <1>9. ASSUME NEW c \in Consoles, SwapState(c) \/ FinishSwap(c) PROVE BaseInv'
    BY <1>0, <1>9, Records
  <1>10. ASSUME NEW c \in Consoles, Abort(c) PROVE BaseInv'
    BY <1>0, <1>10, Aborts
  <1>11. ASSUME NEW u \in inflight, Put(u) PROVE BaseInv'
    <2>1. CASE /\ Accepts(u) /\ AddVersion(u)
               /\ IF u.live THEN run' = [run EXCEPT ![u.from] = RunWithBase(Issued(u))]
                            ELSE UNCHANGED run
      BY <1>0, <1>11, <2>1, Accepted
    <2>2. CASE /\ UNCHANGED versions
               /\ IF u.live THEN Goto(u.from, "refused") ELSE UNCHANGED run
      BY <1>0, <1>11, <2>2, Rejected
    <2> QED
      BY <1>11, <2>1, <2>2 DEF Put
  <1>12. CASE Rollback
    BY <1>0, <1>12, RollsBack
  <1>13. CASE UNCHANGED vars
    <2>1. UNCHANGED <<save, record, run, versions, inflight, rollbacks>>
      BY <1>13 DEF vars
    <2>2. \A c \in Consoles : RecordOK(c)' /\ RunOK(c, run[c])'
      BY <2>1 DEF BaseInv, RecordOK, RunOK, Scanned, ScanLocal, Names, BuildsOn, ServerHolds
    <2>3. \A u \in inflight' : RequestOK(u)'
      BY <2>1 DEF BaseInv, RequestOK, BuildsOn
    <2> QED
      BY <1>0, <2>1, <2>2, <2>3 DEF BaseInv, OneAnswer, SilentUploadBuildsOnBase
  <1> QED
    BY <1>1, <1>2, <1>3, <1>4, <1>5, <1>6, <1>7, <1>8, <1>9, <1>10, <1>11, <1>12, <1>13
       DEF Next, SyncStep, ServerStep

LEMMA BaseIsInvariant == Spec => []BaseInv
  BY InitBase, StepBase, PTL DEF Spec

\* Nothing else writes the state file, and a run that does has what it writes.
LEMMA StepRecords ==
    ASSUME BaseInv, Next
    PROVE  \A c \in Consoles :
             (record'[c] # record[c] /\ record'[c].version # VersionNone)
                => record'[c].sha256 = save'[c]
  <1> SUFFICES ASSUME NEW c \in Consoles, record'[c] # record[c],
                      record'[c].version # VersionNone
               PROVE  record'[c].sha256 = save'[c]
    OBVIOUS
  <1>1. PICK d \in Consoles : SwapState(d) \/ FinishSwap(d)
    BY DEF Next, SyncStep, ServerStep, Play, BackupNow, DeleteBackup, RestoreBackup, Scan, GetLatest, Decline,
           Resolve, Send, Refused, Download, BackupFirst, Commit, RemoveAll, WriteSome, WriteRest,
           Abort, Put, Rollback
  <1>2. /\ run[d].pc \in Recording /\ RunOK(d, run[d]) /\ UNCHANGED save
        /\ \E b \in {run[d].base, NeverSynced} : record' = [record EXCEPT ![d] = b]
    BY <1>1 DEF SwapState, FinishSwap, Recording, BaseInv
  <1>3. c = d /\ record'[c] = run[d].base
    BY <1>2 DEF BaseInv, TypeOK, NeverSynced
  <1> QED
    BY <1>2, <1>3 DEF RunOK

\* What a console's state file says is true when it is written, of the save, and ever
\* after, of the server's history, however runs are cut short between the answer, the
\* temporary file and the rename (sync.c, daemoon_sync_state_save).
THEOREM BasesAreTrue == Spec => BaseHolds
  <1>1. BaseInv => BaseRecordTrue
    BY DEF BaseInv, RecordOK, Names, BaseRecordTrue, TypeOK
  <1>2. BaseInv /\ [Next]_vars =>
          [\A c \in Consoles :
             (record'[c] # record[c] /\ record'[c].version # VersionNone)
                => record'[c].sha256 = save'[c]]_vars
    BY StepRecords
  <1> QED
    BY <1>1, <1>2, BaseIsInvariant, PTL DEF Spec, BaseHolds, RecordedBaseIsOnConsole

\* No upload that daemoon_sync_decide alone sent buries a version its console had not
\* synced, whatever other consoles uploaded while it was on its way.
THEOREM SilentUploadsBuild == Spec => []SilentUploadBuildsOnBase
  <1>1. BaseInv => SilentUploadBuildsOnBase
    BY DEF BaseInv
  <1> QED
    BY <1>1, BaseIsInvariant, PTL

\* The autosync at boot, which asks nobody, overwrites no save but a copy of a version, as
\* long as its scan saw the save, which for an archive of a 3DS it does.
THEOREM DeferredRestoresAreSafe == Spec => []DeferredRestoreIsSafe
  <1>1. BaseInv => DeferredRestoreIsSafe
    BY DEF BaseInv, RunOK, DeferredRestoreIsSafe
  <1> QED
    BY <1>1, BaseIsInvariant, PTL

\* Saves that are plain files, and state files that are swapped in two steps, keep all of
\* this: nothing in the arguments looks at how a save is stored.
THEOREM PlainFilesAreSafe == Spec => SafeOnPlainFiles
  BY ProgressIsKept, BasesAreTrue, SilentUploadsBuild, PTL DEF SafeOnPlainFiles, BaseHolds

-----------------------------------------------------------------------------
(***************************************************************************)
(* The refinement of SyncPromise.  Where every archive is journalled,      *)
(* nothing is ever torn: what a console holds, keeps, sends or has staged  *)
(* is something a game wrote.                                              *)
(***************************************************************************)
AllJournalled == \A c \in Consoles : Journalled(c)

\* What console c stages is kept there or a version, and what it is about to write over
\* is kept there, or no save, or was taken for none.
StagedWell(c, r) ==
    /\ r.pc \notin {"cleared", "writing"}
    /\ r.pc \in {"restore", "write"} =>
         /\ r.staged \in Contents
         /\ r.staged \in backups[c] \/ ServerHolds(r.staged)
    /\ r.pc = "write" => save[c] \in backups[c] \cup overlooked[c] \cup {NoSave}

PromiseInv ==
    /\ TypeOK
    /\ rollbacks = 0
    /\ \A c \in Consoles :
         /\ save[c] \in Contents \cup {NoSave, Empty}
         /\ backups[c] \subseteq Contents
         /\ StagedWell(c, run[c])
    /\ \A u \in inflight : u.sha256 \in Contents
    /\ \A i \in 1..Len(versions) : versions[i].sha256 \in Contents

\* With nothing torn, what can be packed is what a game wrote.
LEMMA NotTorn == ASSUME NEW x \in Contents \cup {NoSave, Empty} PROVE x \in Packable => x \in Contents
  BY DistinctSaves DEF Packable

\* A step of console c: what is to be shown is c's, and what is new on the wire and in the
\* history.
LEMMA StaysWhole ==
    ASSUME PromiseInv, TypeOK', NEW c \in Consoles, rollbacks' = rollbacks,
           \A d \in Consoles \ {c} :
             /\ run'[d] = run[d] /\ save'[d] = save[d]
             /\ backups'[d] = backups[d] /\ overlooked'[d] = overlooked[d],
           Len(versions') >= Len(versions),
           \A i \in 1..Len(versions) : versions'[i] = versions[i],
           save'[c] \in Contents \cup {NoSave, Empty}, backups'[c] \subseteq Contents,
           StagedWell(c, run[c])',
           \A u \in inflight' : u \in inflight \/ u.sha256 \in Contents,
           \A i \in 1..Len(versions') : i \in 1..Len(versions) \/ versions'[i].sha256 \in Contents
    PROVE  PromiseInv'
  <1> USE DEF PromiseInv
  <1>1. ASSUME NEW d \in Consoles
        PROVE  /\ save'[d] \in Contents \cup {NoSave, Empty} /\ backups'[d] \subseteq Contents
               /\ StagedWell(d, run[d])'
    <2>1. CASE d = c
      BY <2>1
    <2>2. CASE d # c
      <3>1. PICK r : r = run[d]
        OBVIOUS
      <3>2. /\ run'[d] = r /\ save'[d] = save[d] /\ StagedWell(d, r)
            /\ backups'[d] = backups[d] /\ overlooked'[d] = overlooked[d]
        BY <2>2, <3>1
      <3>3. \A x : ServerHolds(x) => ServerHolds(x)'
        BY LongerHistory
      <3>4. StagedWell(d, r)'
        BY <3>2, <3>3 DEF StagedWell
      <3> QED
        BY <3>2, <3>4
    <2> QED
      BY <2>1, <2>2
  <1>2. \A i \in 1..Len(versions') : versions'[i].sha256 \in Contents
    OBVIOUS
  <1> QED
    BY <1>1, <1>2

\* A step after which console c restores nothing, and which takes no save from anywhere.
LEMMA StagesNothing ==
    ASSUME PromiseInv, TypeOK', NEW c \in Consoles, rollbacks' = rollbacks,
           UNCHANGED <<save, backups, overlooked, versions>>,
           \A d \in Consoles \ {c} : run'[d] = run[d], run'[c].pc \notin Restoring,
           \A u \in inflight' : u \in inflight \/ u.sha256 \in Contents
    PROVE  PromiseInv'
  <1>1. StagedWell(c, run[c])'
    BY DEF StagedWell, Restoring
  <1>2. /\ Len(versions') >= Len(versions)
        /\ \A i \in 1..Len(versions) : versions'[i] = versions[i]
    BY DEF PromiseInv, TypeOK
  <1> QED
    BY <1>1, <1>2, StaysWhole DEF PromiseInv

\* What a run is about to write was kept here or is a version, and what it writes over is
\* kept.
LEMMA StepPromise == AllJournalled /\ MaxRollbacks = 0 /\ PromiseInv /\ [Next]_vars => PromiseInv'
  <1> SUFFICES ASSUME AllJournalled, MaxRollbacks = 0, PromiseInv, [Next]_vars PROVE PromiseInv'
    OBVIOUS
  <1> USE DEF PromiseInv
  <1>0. TypeOK'
    BY StepType
  <1>g. /\ Len(versions) >= Len(versions)
        /\ \A c \in Consoles : /\ run[c] \in RunStates /\ StagedWell(c, run[c])
                               /\ run[c].staged \in Saves
    BY DEF TypeOK, RunStates
  <1>e. /\ \A c \in Consoles : EndRun(c) => /\ run'[c].pc \notin Restoring
                                            /\ \A d \in Consoles \ {c} : run'[d] = run[d]
        /\ \A c \in Consoles : \A b : run' = [run EXCEPT ![c] = RunWithBase(b)] =>
             run'[c].pc \notin Restoring /\ \A d \in Consoles \ {c} : run'[d] = run[d]
        /\ \A c \in Consoles : \A label \in PCs \ Restoring : Goto(c, label) =>
             run'[c].pc \notin Restoring /\ \A d \in Consoles \ {c} : run'[d] = run[d]
    <2>1. IdleRun.pc = "idle" /\ \A b : RunWithBase(b).pc = "record"
      BY DEF IdleRun, RunWithBase
    <2> QED
      BY <1>g, <2>1 DEF EndRun, Goto, TypeOK, RunStates, Restoring
  <1>1. ASSUME NEW c \in Consoles, Play(c) PROVE PromiseInv'
    <2>1. /\ run[c].pc = "idle" /\ UNCHANGED <<run, backups, versions, inflight, rollbacks>>
          /\ save'[c] \in Contents
          /\ \A d \in Consoles \ {c} : save'[d] = save[d] /\ overlooked'[d] = overlooked[d]
      BY <1>1 DEF Play, TypeOK
    <2>2. StagedWell(c, run[c])'
      BY <2>1 DEF StagedWell
    <2> QED
      BY <1>0, <1>g, <2>1, <2>2, StaysWhole
  <1>2. ASSUME NEW c \in Consoles, BackupNow(c) PROVE PromiseInv'
    <2>1. /\ run[c].pc = "idle" /\ UNCHANGED <<run, save, overlooked, versions, inflight, rollbacks>>
          /\ backups'[c] = backups[c] \cup {save[c]} /\ save[c] \in Packable
          /\ \A d \in Consoles \ {c} : backups'[d] = backups[d]
      BY <1>2 DEF BackupNow, BackupLocal, TypeOK
    <2>2. StagedWell(c, run[c])'
      BY <2>1 DEF StagedWell
    <2>3. backups'[c] \subseteq Contents
      BY <2>1, NotTorn
    <2> QED
      BY <1>0, <1>g, <2>1, <2>2, <2>3, StaysWhole
  <1>d. ASSUME NEW c \in Consoles, DeleteBackup(c) PROVE PromiseInv'
    <2>1. /\ run[c].pc = "idle"
          /\ UNCHANGED <<run, save, overlooked, versions, inflight, rollbacks>>
          /\ backups'[c] \subseteq backups[c]
          /\ \A d \in Consoles \ {c} : backups'[d] = backups[d]
      BY <1>d DEF DeleteBackup, TypeOK
    <2>2. StagedWell(c, run[c])'
      BY <2>1 DEF StagedWell
    <2> QED
      BY <1>0, <1>g, <2>1, <2>2, StaysWhole
  <1>3. ASSUME NEW c \in Consoles, RestoreBackup(c) PROVE PromiseInv'
    <2>1. PICK x \in backups[c] :
            run' = [run EXCEPT ![c] = [IdleRun EXCEPT !.pc = "restore", !.staged = x]]
      BY <1>3 DEF RestoreBackup
    <2>2. UNCHANGED <<save, backups, overlooked, versions, inflight, rollbacks>> /\ x \in Contents
      BY <1>3, <2>1 DEF RestoreBackup
    <2>3. PICK r : r = [IdleRun EXCEPT !.pc = "restore", !.staged = x]
      OBVIOUS
    <2>4. /\ run'[c] = r /\ r.pc = "restore" /\ r.staged = x
          /\ \A d \in Consoles \ {c} : run'[d] = run[d]
      BY <2>1, <2>3 DEF TypeOK, IdleRun
    <2>5. StagedWell(c, r)'
      BY <2>1, <2>2, <2>4 DEF StagedWell
    <2>6. StagedWell(c, run[c])'
      BY <2>4, <2>5
    <2> QED
      BY <1>0, <1>g, <2>2, <2>4, <2>6, StaysWhole
  <1>4. ASSUME NEW c \in Consoles, Scan(c) PROVE PromiseInv'
    <2>1. /\ run'[c].pc = "scanned" /\ \A d \in Consoles \ {c} : run'[d] = run[d]
          /\ UNCHANGED <<save, backups, overlooked, versions, inflight, rollbacks>>
      BY <1>4 DEF Scan, TypeOK, IdleRun
    <2> QED
      BY <1>0, <2>1, StagesNothing DEF Restoring
  <1>5. ASSUME NEW c \in Consoles, GetLatest(c) PROVE PromiseInv'
    <2>1. UNCHANGED <<save, backups, overlooked, versions, inflight, rollbacks>>
      BY <1>5 DEF GetLatest
    <2>2. run'[c].pc \notin Restoring /\ \A d \in Consoles \ {c} : run'[d] = run[d]
      <3>1. CASE NothingToMove(c, Latest)
        BY <1>e, <3>1 DEF NothingToMove
      <3>2. CASE /\ Decide(run[c].local, Latest) # "NONE"
                 /\ run' = [run EXCEPT ![c].remote = Latest,
                              ![c].pc = CASE Decide(run[c].local, Latest) = "UPLOAD"   -> "upload"
                                          [] Decide(run[c].local, Latest) = "DOWNLOAD" -> "download"
                                          [] Decide(run[c].local, Latest) = "CONFLICT" -> "resolve"]
        <4>1. Decide(run[c].local, Latest) \in {"UPLOAD", "DOWNLOAD", "CONFLICT"}
          BY <1>g, <3>2, LatestType DEF Decide, LocalType, RemoteType, RunStates
        <4> QED
          BY <1>g, <3>2, <4>1 DEF TypeOK, RunStates, Restoring
      <3> QED
        BY <1>5, <3>1, <3>2 DEF GetLatest
    <2> QED
      BY <1>0, <2>1, <2>2, StagesNothing
  <1>6. ASSUME NEW c \in Consoles,
               Decline(c) \/ Resolve(c) \/ Refused(c) \/ SwapState(c) \/ FinishSwap(c) \/ Abort(c)
        PROVE  PromiseInv'
    <2>1. UNCHANGED <<save, backups, overlooked, versions, rollbacks>>
      BY <1>6 DEF Decline, Resolve, Refused, SwapState, FinishSwap, Abort
    <2>2. run'[c].pc \notin Restoring /\ \A d \in Consoles \ {c} : run'[d] = run[d]
      <3>1. CASE Decline(c) \/ SwapState(c) \/ FinishSwap(c) \/ Abort(c)
        BY <1>e, <3>1 DEF Decline, SwapState, FinishSwap, Abort, PCs, Restoring
      <3>2. CASE Resolve(c) \/ Refused(c)
        BY <1>e, <1>g, <3>2 DEF Resolve, Refused, TypeOK, RunStates, Restoring
      <3> QED
        BY <1>6, <3>1, <3>2
    <2>3. \A u \in inflight' : u \in inflight \/ u.sha256 \in Contents
      <3>1. CASE Abort(c)
        <4> TAKE u \in inflight'
        <4>1. CASE \E v \in inflight : u = [v EXCEPT !.live = FALSE]
          <5>1. PICK v \in inflight : u = [v EXCEPT !.live = FALSE]
            BY <4>1
          <5>2. v \in Requests /\ v.sha256 \in Contents
            BY DEF TypeOK
          <5> QED
            BY <5>1, <5>2 DEF Requests
        <4> QED
          BY <3>1, <4>1 DEF Abort
      <3> QED
        BY <1>6, <3>1 DEF Decline, Resolve, Refused, SwapState, FinishSwap
    <2> QED
      BY <1>0, <2>1, <2>2, <2>3, StagesNothing
  <1>7. ASSUME NEW c \in Consoles, Send(c) PROVE PromiseInv'
    <2>1. UNCHANGED <<save, backups, overlooked, versions, rollbacks>>
      BY <1>7 DEF Send
    <2>2. run'[c].pc \notin Restoring /\ \A d \in Consoles \ {c} : run'[d] = run[d]
      BY <1>e, <1>7 DEF Send, PCs, Restoring
    <2>3. \A u \in inflight' : u \in inflight \/ u.sha256 \in Contents
      <3>1. \A u \in inflight' :
              u \in inflight \/ (save[c] \in Packable /\ u.sha256 = save[c])
        BY <1>7 DEF Send, Request
      <3> QED
        BY <3>1, NotTorn
    <2> QED
      BY <1>0, <2>1, <2>2, <2>3, StagesNothing
  <1>8. ASSUME NEW u \in inflight, Put(u) PROVE PromiseInv'
    <2>1. PICK c \in Consoles : c = u.from
      BY DEF TypeOK, Requests
    <2>2. UNCHANGED <<save, backups, overlooked, rollbacks>> /\ inflight' = inflight \ {u}
      BY <1>8 DEF Put
    <2>3. \/ run' = run
          \/ run'[c].pc \notin Restoring /\ \A d \in Consoles \ {c} : run'[d] = run[d]
      BY <1>e, <1>8, <2>1 DEF Put, PCs, Restoring
    <2>4. \A d \in Consoles \ {c} : run'[d] = run[d]
      BY <2>3
    <2>5. /\ Len(versions') >= Len(versions)
          /\ \A i \in 1..Len(versions) : versions'[i] = versions[i]
          /\ \A i \in 1..Len(versions') : i \in 1..Len(versions) \/ versions'[i].sha256 \in Contents
      <3>1. CASE AddVersion(u)
        BY <3>1 DEF AddVersion, TypeOK
      <3>2. CASE UNCHANGED versions
        BY <3>2 DEF TypeOK
      <3> QED
        BY <1>8, <3>1, <3>2 DEF Put
    <2>6. StagedWell(c, run[c])'
      <3>1. CASE run' = run
        <4>1. PICK r : r = run[c]
          OBVIOUS
        <4>2. \A x : ServerHolds(x) => ServerHolds(x)'
          BY <1>0, <2>5, LongerHistory
        <4>3. StagedWell(c, r)'
          BY <1>g, <2>2, <4>1, <4>2 DEF StagedWell
        <4> QED
          BY <3>1, <4>1, <4>3
      <3>2. CASE run'[c].pc \notin Restoring
        BY <3>2 DEF StagedWell, Restoring
      <3> QED
        BY <2>3, <3>1, <3>2
    <2> QED
      BY <1>0, <2>2, <2>4, <2>5, <2>6, StaysWhole
  <1>9. ASSUME NEW c \in Consoles, Download(c) PROVE PromiseInv'
    <2>1. UNCHANGED <<save, backups, overlooked, versions, inflight, rollbacks>>
      BY <1>9 DEF Download
    <2>2. CASE EndRun(c)
      BY <1>0, <1>e, <2>1, <2>2, StagesNothing
    <2>3. CASE ~EndRun(c)
      <3>1. PICK r : r = run'[c]
        OBVIOUS
      <3>2. PICK n : n = run[c].remote.latest_version
        OBVIOUS
      <3>3. /\ n \in 1..Len(versions) /\ r.pc = "restore" /\ r.staged = versions[n].sha256
            /\ \A d \in Consoles \ {c} : run'[d] = run[d]
        BY <1>9, <1>g, <2>3, <3>1, <3>2 DEF Download, Downloadable, TypeOK, RunStates
      <3>4. StagedWell(c, r)'
        BY <2>1, <3>3 DEF StagedWell, ServerHolds
      <3>5. StagedWell(c, run[c])'
        BY <3>1, <3>4
      <3> QED
        BY <1>0, <1>g, <2>1, <3>3, <3>5, StaysWhole
    <2> QED
      BY <2>2, <2>3
  <1>10. ASSUME NEW c \in Consoles, BackupFirst(c) PROVE PromiseInv'
    <2>1. run[c].pc = "restore" /\ UNCHANGED <<save, versions, inflight, rollbacks>>
      BY <1>10 DEF BackupFirst
    <2>2. CASE EndRun(c) /\ UNCHANGED <<backups, overlooked>>
      BY <1>0, <1>e, <2>1, <2>2, StagesNothing
    <2>3. CASE /\ Goto(c, "write")
               /\ \/ BackupLocal(c) /\ UNCHANGED overlooked
                  \/ /\ overlooked' = [overlooked EXCEPT ![c] = @ \cup ({save[c]} \ {NoSave})]
                     /\ UNCHANGED backups
      <3>1. PICK r : r = run'[c]
        OBVIOUS
      <3>2. /\ r.pc = "write" /\ r.staged = run[c].staged
            /\ \A d \in Consoles \ {c} : run'[d] = run[d]
        BY <1>g, <2>3, <3>1 DEF Goto, TypeOK, RunStates
      <3>a. /\ \A d \in Consoles \ {c} :
                  backups'[d] = backups[d] /\ overlooked'[d] = overlooked[d]
            /\ backups[c] \subseteq backups'[c]
            /\ backups'[c] \subseteq backups[c] \cup ({save[c]} \cap Packable)
            /\ save[c] \in backups'[c] \cup overlooked'[c] \cup {NoSave}
        BY <2>3 DEF BackupLocal, TypeOK
      <3>3. StagedWell(c, r)'
        BY <1>g, <2>1, <3>2, <3>a DEF StagedWell, ServerHolds
      <3>4. StagedWell(c, run[c])'
        BY <3>1, <3>3
      <3>5. backups'[c] \subseteq Contents
        BY <3>a, NotTorn
      <3> QED
        BY <1>0, <1>g, <2>1, <3>2, <3>a, <3>4, <3>5, StaysWhole
    <2> QED
      BY <1>10, <2>2, <2>3 DEF BackupFirst
  <1>11. ASSUME NEW c \in Consoles, Commit(c) PROVE PromiseInv'
    <2>1. /\ run[c].pc = "write" /\ UNCHANGED <<backups, overlooked, versions, inflight, rollbacks>>
          /\ save'[c] = run[c].staged /\ \A d \in Consoles \ {c} : save'[d] = save[d]
      BY <1>11 DEF Commit, TypeOK
    <2>2. run'[c].pc \notin Restoring /\ \A d \in Consoles \ {c} : run'[d] = run[d]
      BY <1>e, <1>11 DEF Commit, Written
    <2>3. StagedWell(c, run[c])'
      BY <2>2 DEF StagedWell, Restoring
    <2>4. run[c].staged \in Contents
      BY <1>g, <2>1 DEF StagedWell
    <2> QED
      BY <1>0, <1>g, <2>1, <2>2, <2>3, <2>4, StaysWhole
  <1>12. ASSUME NEW c \in Consoles PROVE ~RemoveAll(c) /\ ~WriteSome(c) /\ ~WriteRest(c)
    BY <1>g DEF AllJournalled, RemoveAll, WriteSome, WriteRest, StagedWell
  <1>13. ~Rollback
    BY DEF Rollback, TypeOK
  <1>14. CASE UNCHANGED vars
    <2>1. UNCHANGED <<save, backups, overlooked, run, versions, inflight, rollbacks>>
      BY <1>14 DEF vars
    <2>2. \A c \in Consoles : StagedWell(c, run[c])'
      BY <1>g, <2>1 DEF StagedWell, ServerHolds
    <2> QED
      BY <1>0, <2>1, <2>2
  <1> QED
    BY <1>1, <1>2, <1>d, <1>3, <1>4, <1>5, <1>6, <1>7, <1>8, <1>9, <1>10, <1>11, <1>12, <1>13, <1>14
       DEF Next, SyncStep, ServerStep

\* Before anybody synced there are no versions, no backups and no restores.
LEMMA InitPromised == MaxRollbacks = 0 /\ Init => PromiseInv
  <1> SUFFICES ASSUME Init PROVE PromiseInv
    OBVIOUS
  <1>1. TypeOK
    BY InitType
  <1>2. IdleRun.pc = "idle"
    BY DEF IdleRun
  <1>3. \A c \in Consoles : /\ save[c] \in Contents \cup {NoSave, Empty} /\ backups[c] = {}
                            /\ StagedWell(c, run[c])
    BY <1>2 DEF Init, StagedWell
  <1> QED
    BY <1>1, <1>3 DEF Init, PromiseInv

\* The versions as SyncPromise sees them grow by what was added.
LEMMA LogGrows ==
    ASSUME TypeOK, NEW u \in Requests, AddVersion(u)
    PROVE  [i \in 1..Len(versions') |-> versions'[i].sha256]
             = Append([i \in 1..Len(versions) |-> versions[i].sha256], u.sha256)
  <1>1. PICK s : s = [i \in 1..Len(versions) |-> versions[i].sha256]
    OBVIOUS
  <1>2. PICK t : t = [i \in 1..Len(versions') |-> versions'[i].sha256]
    OBVIOUS
  <1>3. /\ Len(versions) \in Nat /\ Len(versions') = Len(versions) + 1
        /\ \A i \in 1..Len(versions) : versions'[i] = versions[i]
        /\ versions'[Len(versions) + 1].sha256 = u.sha256
    BY DEF AddVersion, TypeOK, Requests, Versions
  <1>4. s \in Seq(Packable) /\ Len(s) = Len(versions)
    <2>1. \A i \in 1..Len(versions) : versions[i] \in Versions
      BY DEF TypeOK
    <2>2. \A i \in 1..Len(versions) : versions[i].sha256 \in Packable
      BY <2>1 DEF Versions
    <2> QED
      BY <1>1, <1>3, <2>2
  <1>5. t \in Seq(Packable) /\ Len(t) = Len(versions) + 1
    <2>1. \A i \in 1..(Len(versions) + 1) : versions'[i].sha256 \in Packable
      <3>1. u.sha256 \in Packable
        BY DEF Requests
      <3>2. \A i \in 1..Len(versions) : versions[i] \in Versions
        BY DEF TypeOK
      <3>3. \A i \in 1..Len(versions) : versions[i].sha256 \in Packable
        BY <3>2 DEF Versions
      <3> QED
        BY <1>3, <3>1, <3>3
    <2>2. t = [i \in 1..(Len(versions) + 1) |-> versions'[i].sha256]
      BY <1>2, <1>3
    <2> QED
      BY <1>3, <2>1, <2>2
  <1>6. \A i \in 1..(Len(versions) + 1) :
          t[i] = IF i = Len(versions) + 1 THEN u.sha256 ELSE s[i]
    BY <1>1, <1>2, <1>3
  <1>7. t = Append(s, u.sha256)
    BY <1>3, <1>4, <1>5, <1>6 DEF Requests
  <1> QED
    BY <1>1, <1>2, <1>7

\* Every step does what SyncPromise allows, or nothing it can see.
LEMMA StepKeepsPromise ==
    ASSUME AllJournalled, MaxRollbacks = 0, PromiseInv, [Next]_vars
    PROVE  [Promise!Next]_(Promise!vars)
  <1> DEFINE O == {u.sha256 : u \in inflight}
             L == [i \in 1..Len(versions) |-> versions[i].sha256]
  <1> USE DEF PromiseInv
  <1>0. /\ \A c \in Consoles :
             \/ Promise!Play(c) \/ Promise!Keep(c) \/ Promise!Discard(c)
             \/ Promise!Miss(c) \/ Promise!Offer(c) \/ Promise!Replace(c)
             => Promise!Next
        /\ Promise!Withdraw \/ Promise!Accept => Promise!Next
    BY DEF Promise!Next
  <1>1. ASSUME UNCHANGED <<save, backups, overlooked, versions, inflight>>
        PROVE  UNCHANGED Promise!vars
    <2>1. O' = O /\ L' = L
      BY <1>1
    <2> QED
      BY <1>1, <2>1 DEF Promise!vars
  <1>2. ASSUME NEW c \in Consoles, Play(c) PROVE Promise!Next
    <2>1. O' = O /\ L' = L
      BY <1>2 DEF Play
    <2>2. Promise!Play(c)
      BY <1>2, <2>1 DEF Play, Promise!Play
    <2> QED
      BY <1>0, <2>2
  <1>3. ASSUME NEW c \in Consoles, BackupLocal(c),
               UNCHANGED <<save, overlooked, versions, inflight>>
        PROVE  Promise!Next
    <2>1. O' = O /\ L' = L
      BY <1>3
    <2>2. save[c] \in Contents
      BY <1>3, NotTorn DEF BackupLocal
    <2>3. Promise!Keep(c)
      BY <1>3, <2>1, <2>2 DEF BackupLocal, Promise!Keep
    <2> QED
      BY <1>0, <2>3
  <1>4. ASSUME NEW c \in Consoles, Send(c), inflight' # inflight PROVE Promise!Next
    <2>1. /\ save[c] \in Packable /\ inflight' = inflight \cup {Request(c)}
          /\ UNCHANGED <<save, backups, overlooked, versions>>
      BY <1>4 DEF Send
    <2>2. save[c] \in Contents /\ Request(c).sha256 = save[c]
      BY <2>1, NotTorn DEF Request
    <2>3. O' = O \cup {save[c]} /\ L' = L
      BY <2>1, <2>2
    <2>4. Promise!Offer(c)
      BY <2>1, <2>2, <2>3 DEF Promise!Offer
    <2> QED
      BY <1>0, <2>4
  <1>5. ASSUME NEW u \in inflight, Put(u) PROVE Promise!Next
    <2>1. /\ u \in Requests /\ UNCHANGED <<save, backups, overlooked>>
          /\ inflight' = inflight \ {u}
      BY <1>5 DEF Put, TypeOK
    <2>2. O' \subseteq O /\ u.sha256 \in O
      BY <2>1
    <2>3. CASE AddVersion(u)
      <3>1. L' = Append(L, u.sha256)
        BY <2>1, <2>3, LogGrows
      <3>2. Promise!Accept
        BY <2>1, <2>2, <3>1 DEF Promise!Accept
      <3> QED
        BY <1>0, <3>2
    <2>4. CASE UNCHANGED versions
      <3>1. L' = L
        BY <2>4
      <3>2. Promise!Withdraw
        BY <2>1, <2>2, <3>1 DEF Promise!Withdraw
      <3> QED
        BY <1>0, <3>2
    <2> QED
      BY <1>5, <2>3, <2>4 DEF Put
  <1>6. ASSUME NEW c \in Consoles, Abort(c) PROVE Promise!Next
    <2>1. UNCHANGED <<save, backups, overlooked, versions>>
      BY <1>6 DEF Abort
    <2>2. \A v \in inflight' : v.sha256 \in O
      <3> TAKE v \in inflight'
      <3>1. CASE \E u \in inflight : v = [u EXCEPT !.live = FALSE]
        <4>1. PICK u \in inflight : v = [u EXCEPT !.live = FALSE]
          BY <3>1
        <4>2. u \in Requests /\ u.sha256 \in O
          BY DEF TypeOK
        <4> QED
          BY <4>1, <4>2 DEF Requests
      <3> QED
        BY <1>6, <3>1 DEF Abort
    <2>3. O' \subseteq O /\ L' = L
      BY <2>1, <2>2
    <2>4. Promise!Withdraw
      BY <2>1, <2>3 DEF Promise!Withdraw
    <2> QED
      BY <1>0, <2>4
  <1>7. ASSUME NEW c \in Consoles, Commit(c) PROVE Promise!Next
    <2>1. /\ run[c].pc = "write" /\ UNCHANGED <<backups, overlooked, versions, inflight>>
          /\ save' = [save EXCEPT ![c] = run[c].staged]
      BY <1>7 DEF Commit
    <2>2. O' = O /\ L' = L
      BY <2>1
    <2>3. /\ save[c] \in backups[c] \cup overlooked[c] \cup {NoSave}
          /\ run[c].staged \in Contents
          /\ run[c].staged \in backups[c] \/ ServerHolds(run[c].staged)
      BY <2>1 DEF StagedWell
    <2>4. ServerHolds(run[c].staged) => Promise!LogHolds(run[c].staged)
      <3>1. Len(L) = Len(versions) /\ \A i \in 1..Len(versions) : L[i] = versions[i].sha256
        BY DEF TypeOK
      <3> QED
        BY <3>1 DEF ServerHolds, Promise!LogHolds
    <2>5. Promise!Replace(c)
      BY <2>1, <2>2, <2>3, <2>4 DEF Promise!Replace
    <2> QED
      BY <1>0, <2>5
  <1>8. ASSUME NEW c \in Consoles, BackupFirst(c),
               ~UNCHANGED <<save, backups, overlooked, versions, inflight>>
        PROVE  Promise!Next
    <2>1. UNCHANGED <<save, versions, inflight>>
      BY <1>8 DEF BackupFirst
    <2>2. CASE BackupLocal(c) /\ UNCHANGED overlooked
      BY <1>3, <2>1, <2>2
    <2>3. CASE /\ OpenSave(c, FALSE) /\ UNCHANGED backups
               /\ overlooked' = [overlooked EXCEPT ![c] = @ \cup ({save[c]} \ {NoSave})]
      <3>1. save[c] # NoSave
        <4>1. CASE save[c] = NoSave
          <5>1. overlooked' = [overlooked EXCEPT ![c] = overlooked[c]]
            BY <2>3, <4>1
          <5>2. overlooked' = overlooked
            BY <5>1 DEF TypeOK
          <5> QED
            BY <1>8, <2>1, <2>3, <5>2
        <4> QED
          BY <4>1
      <3>2. c \in {d \in Consoles : ~TellsAbsent(d)}
        BY <2>3, <3>1 DEF OpenSave
      <3>3. overlooked' = [overlooked EXCEPT ![c] = @ \cup {save[c]}]
        BY <2>3, <3>1
      <3>4. O' = O /\ L' = L
        BY <2>1
      <3>5. Promise!Miss(c)
        BY <2>1, <2>3, <3>1, <3>2, <3>3, <3>4 DEF Promise!Miss
      <3> QED
        BY <1>0, <3>5
    <2>4. CASE UNCHANGED <<backups, overlooked>>
      BY <1>8, <2>1, <2>4
    <2> QED
      BY <1>8, <2>2, <2>3, <2>4 DEF BackupFirst
  <1>d. ASSUME NEW c \in Consoles, DeleteBackup(c) PROVE Promise!Next
    <2>1. O' = O /\ L' = L
      BY <1>d DEF DeleteBackup
    <2>2. Promise!Discard(c)
      BY <1>d, <2>1 DEF DeleteBackup, Promise!Discard
    <2> QED
      BY <1>0, <2>2
  <1>9. ASSUME NEW c \in Consoles, BackupNow(c) PROVE Promise!Next
    BY <1>3, <1>9 DEF BackupNow
  <1>10. ASSUME NEW c \in Consoles PROVE ~RemoveAll(c) /\ ~WriteSome(c) /\ ~WriteRest(c)
    BY DEF AllJournalled, RemoveAll, WriteSome, WriteRest, StagedWell
  <1>11. ASSUME NEW c \in Consoles,
                \/ RestoreBackup(c) \/ Scan(c) \/ GetLatest(c) \/ Decline(c) \/ Resolve(c)
                \/ Refused(c) \/ Download(c) \/ SwapState(c) \/ FinishSwap(c)
                \/ Send(c) /\ inflight' = inflight
         PROVE  UNCHANGED <<save, backups, overlooked, versions, inflight>>
    BY <1>11 DEF RestoreBackup, Scan, GetLatest, Decline, Resolve, Refused, Download, SwapState,
                 FinishSwap, Send
  <1>12. ~Rollback
    BY DEF Rollback, TypeOK
  <1>13. CASE UNCHANGED vars
    BY <1>1, <1>13 DEF vars
  <1> QED
    BY <1>1, <1>2, <1>4, <1>5, <1>6, <1>7, <1>8, <1>d, <1>9, <1>10, <1>11, <1>12, <1>13
       DEF Next, SyncStep, ServerStep

\* Where archives are journalled and the server is not restored from a backup, sync keeps
\* the README's rules: nothing is overwritten that is not kept, but for a save that a
\* Switch could not open and took for none; what is put in its place is a version or a
\* kept save, whole; and the log only grows, by what a console held.
THEOREM SyncKeepsPromise == AllJournalled /\ MaxRollbacks = 0 => (Spec => KeepsPromise)
  <1> SUFFICES ASSUME AllJournalled, MaxRollbacks = 0 PROVE Spec => KeepsPromise
    OBVIOUS
  <1>1. Init => PromiseInv
    BY InitPromised
  <1>2. PromiseInv /\ [Next]_vars => PromiseInv'
    BY StepPromise
  <1>3. Init => Promise!Init
    BY DEF Init, Promise!Init
  <1>4. PromiseInv /\ [Next]_vars => [Promise!Next]_(Promise!vars)
    BY StepKeepsPromise
  <1> QED
    BY <1>1, <1>2, <1>3, <1>4, PTL DEF Spec, KeepsPromise, Promise!Spec

=============================================================================
