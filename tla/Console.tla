------------------------------ MODULE Console -------------------------------
(***************************************************************************)
(* A launch of the 3DS application (platform/3ds/source/main.c), from      *)
(* power-on to exit: the update check, the welcome, the sync on the way to *)
(* HOME (autosync.c), the grid with its two libraries, and the run over    *)
(* everything (batch.c).                                                   *)
(*                                                                         *)
(* One environment serves both libraries: env.save points to one library's *)
(* backend at a time and every screen that reads or works a library moves  *)
(* it.  The console may be told to close at any moment, which every loop   *)
(* sees as aptMainLoop() = false, or lose its power.                       *)
(*                                                                         *)
(* What core does to one title is DaemoonSync's; here it is the questions  *)
(* it puts up, the counters it moves and the result it gives.              *)
(***************************************************************************)
EXTENDS Naturals, Sequences, FiniteSets

CONSTANTS
    None,          \* no question on the screen, no report on the card
    MaxTries,      \* AUTOSYNC_NET_TRIES
    Sizes          \* bound: how many titles each library may list

Library == {"3ds", "nds"}
Other(l) == IF l = "3ds" THEN "nds" ELSE "3ds"

ASSUME ConsoleBounds == MaxTries \in Nat \ {0} /\ Sizes \in [Library -> SUBSET Nat]

VARIABLES
    pc,            \* where main is
    closing,       \* aptMainLoop() has begun to answer false
    config,        \* config.txt: autosync, can_sync (a server and a token), welcomed
    boot,          \* what the boot saw: held (B), unattended (a marker file), due
    backend,       \* whose backend env.save is
    shown,         \* g_source_nds
    chosen,        \* history: the library the person last turned to
    lib,           \* g_lib: loaded, and the titles listed
    run,           \* the run or the single action that is on
    tally,         \* autosync's report, g_batch, or the stats of a single sync
    ask,           \* the screen that waits for a person, None when there is none
    worked,        \* history: the titles this run has worked, in order
    report         \* autosync.txt

vars == <<pc, closing, config, boot, backend, shown, chosen, lib, run, tally, ask, worked,
          report>>

Ops      == {"backup", "restore", "sync"}
Policies == {"ask", "local", "server", "defer"}
Grants   == {"backup", "upload", "restore", "conflict"}
Findings == {"none", "upload", "download", "conflict", "raced"}
Deeds    == {"backed_up", "skipped", "uploaded", "downloaded", "unchanged", "unrecorded",
             "deferred", "declined", "cancelled", "failed"}

PCs == {"off", "update", "install", "installed", "not_installed", "welcome",
        "connect", "pairing", "welcomed", "autosync", "network", "count", "loop", "title",
        "side", "upload", "download", "consent", "restore", "restored", "noticed", "backup",
        "declined", "cancelled", "deferred", "pick", "picked", "delete", "write", "written",
        "linger", "listing", "listed", "grid", "ops", "policy", "confirm", "agreed",
        "put_back", "tallied", "back", "exit"}

\* A screen that waits for a person: what a yes grants, and where main goes on.  Its "no"
\* is also what a console that is closing answers.
Question(what, grants, yes, no) == [what |-> what, grants |-> grants, yes |-> yes, no |-> no]
Message(then) == Question("message", {}, then, then)

Screens == [what: {"message", "update", "intro", "connect", "conflict", "upload", "restore",
                   "backup", "pick", "delete", "op", "policy", "batch"},
            grants: SUBSET Grants, yes: PCs, no: PCs]

\* What autosync.txt can say.
Texts == [network: BOOLEAN, titles: Nat, uploaded: Nat, downloaded: Nat, unchanged: Nat,
          deferred: Nat, failed: Nat]

ASSUME NoneIsNothing == None \notin Screens \cup Texts \cup [fresh: BOOLEAN, text: Texts \cup {None}]

Empty  == [l \in Library |-> [loaded |-> FALSE, count |-> 0]]
Zeroed == [network |-> FALSE, titles |-> 0, uploaded |-> 0, downloaded |-> 0, unchanged |-> 0,
           deferred |-> 0, sync_failed |-> 0, ok |-> 0, skipped |-> 0, failed |-> 0]

\* base: what the person granted for the whole run; grants: for the title in hand.
Idle == [kind |-> "none", op |-> "sync", policy |-> "ask", confirmed |-> FALSE,
         counts |-> [l \in Library |-> 0], lib |-> "3ds", i |-> 1, at |-> "none",
         base |-> {}, grants |-> {}, was |-> "3ds", stopped |-> FALSE, tries |-> 0,
         refused |-> FALSE]

TypeOK ==
    /\ pc \in PCs /\ closing \in BOOLEAN
    /\ config \in [autosync: BOOLEAN, can_sync: BOOLEAN, welcomed: BOOLEAN]
    /\ boot \in [held: BOOLEAN, unattended: BOOLEAN, due: BOOLEAN]
    /\ {backend, shown, chosen} \subseteq Library
    /\ lib \in [Library -> [loaded: BOOLEAN, count: Nat]]
    /\ run \in [kind: {"none", "one", "autosync", "batch"}, op: Ops, policy: Policies,
                confirmed: BOOLEAN, counts: [Library -> Nat], lib: Library, i: Nat \ {0},
                at: Findings, base: SUBSET Grants, grants: SUBSET Grants, was: Library,
                stopped: BOOLEAN, tries: 0 .. MaxTries, refused: BOOLEAN]
    /\ tally \in [network: BOOLEAN, titles: Nat, uploaded: Nat, downloaded: Nat,
                  unchanged: Nat, deferred: Nat, sync_failed: Nat, ok: Nat, skipped: Nat,
                  failed: Nat]
    /\ ask = None \/ ask \in Screens
    /\ report = None \/ report \in [fresh: BOOLEAN, text: Texts \cup {None}]
    /\ worked \in Seq([lib: Library, i: Nat, by: Library, deed: Deeds, owed: SUBSET Grants])

-----------------------------------------------------------------------------
\* Boot.

\* daemoon_3ds_autosync_due: four different kinds of no.
Due(held, unattended) == config.autosync /\ config.can_sync /\ ~held /\ ~unattended

Init ==
    /\ pc = "off" /\ closing = FALSE
    /\ config \in [autosync: BOOLEAN, can_sync: BOOLEAN, welcomed: BOOLEAN]
    /\ boot = [held |-> FALSE, unattended |-> FALSE, due |-> FALSE]
    /\ backend = "3ds" /\ shown = "3ds" /\ chosen = "3ds" /\ lib = Empty
    /\ run = Idle /\ tally = Zeroed /\ ask = None /\ worked = <<>> /\ report = None

\* main up to its first decision.  What an earlier launch wrote to autosync.txt is there,
\* and says nothing of this one.
Launch(held, unattended) ==
    /\ pc = "off"
    /\ boot' = [held |-> held, unattended |-> unattended, due |-> Due(held, unattended)]
    /\ pc' = IF unattended \/ held THEN "welcome" ELSE "update"
    /\ closing' = FALSE /\ ask' = None
    /\ report' = IF report = None THEN None ELSE [fresh |-> FALSE, text |-> None]
    /\ UNCHANGED <<config, backend, shown, chosen, lib, run, tally, worked>>

\* HOME, the power menu: aptMainLoop() is false from here on.
Close ==
    /\ pc # "off" /\ ~closing
    /\ closing' = TRUE
    /\ UNCHANGED <<pc, config, boot, backend, shown, chosen, lib, run, tally, ask, worked,
                   report>>

\* What was in memory is gone.
Forgotten ==
    /\ pc' = "off" /\ ask' = None
    /\ boot' = [held |-> FALSE, unattended |-> FALSE, due |-> FALSE]
    /\ backend' = "3ds" /\ shown' = "3ds" /\ chosen' = "3ds" /\ lib' = Empty
    /\ run' = Idle /\ tally' = Zeroed /\ worked' = <<>>

PowerLost ==
    /\ pc # "off" /\ Forgotten
    /\ UNCHANGED <<closing, config, report>>

\* main runs on: no screen is waiting for anybody.
At(here) == pc = here /\ ask = None

Goto(there)   == pc' = there /\ ask' = None
Put(question) == ask' = question /\ pc' = pc

\* What an action leaves alone.
LibrariesKept == UNCHANGED <<backend, shown, chosen, lib>>
RunKept       == UNCHANGED <<run, tally, worked>>
BootKept      == UNCHANGED <<closing, boot>>
CardKept      == UNCHANGED <<config, report>>

-----------------------------------------------------------------------------
\* The screens that wait: message(), modal(), pick(), the pages of the welcome.

BackOutIsYes(a) == a.yes

BackOutRetries(a) == IF a.what = "connect" THEN "connect" ELSE a.no

\* The loop ended because the application is being closed: not an answer.
BackOut(a) == a.no

Answer(yes) ==
    /\ ask # None /\ ~closing
    /\ pc' = (IF yes THEN ask.yes ELSE ask.no) /\ ask' = None
    /\ run' = IF yes THEN [run EXCEPT !.grants = @ \cup ask.grants] ELSE run
    /\ LibrariesKept /\ BootKept /\ CardKept /\ UNCHANGED <<tally, worked>>

BackedOut ==
    /\ ask # None /\ closing
    /\ pc' = BackOut(ask) /\ ask' = None
    /\ LibrariesKept /\ RunKept /\ BootKept /\ CardKept

-----------------------------------------------------------------------------
\* Before the library.

\* daemoon_3ds_update_available: a check that fails is silent.
UpdateCheck ==
    /\ At("update")
    /\ \/ Goto("welcome")
       \/ Put(Question("update", {}, "install", "welcome"))
    /\ LibrariesKept /\ RunKept /\ BootKept /\ CardKept

\* daemoon_3ds_update_install: given up when the console is closing, and then cancelled.
UpdateInstall ==
    /\ At("install")
    /\ \/ Goto("not_installed")
       \/ ~closing /\ Goto("installed")
    /\ LibrariesKept /\ RunKept /\ BootKept /\ CardKept

\* action_auto_update: either way it is said, and only a new version ends the launch.
UpdateOver ==
    /\ \/ At("installed") /\ Put(Message("exit"))
       \/ At("not_installed") /\ Put(Message("welcome"))
    /\ LibrariesKept /\ RunKept /\ BootKept /\ CardKept

\* Once per card, and not in the way of a launch nobody watches.
WelcomeDue == ~boot.unattended /\ ~boot.due /\ ~config.welcomed

Welcome ==
    /\ At("welcome")
    /\ IF WelcomeDue THEN Put(Question("intro", {}, "connect", "welcomed"))
                     ELSE Goto("autosync")
    /\ LibrariesKept /\ RunKept /\ BootKept /\ CardKept

\* welcome_choose: Not now, and closing, are the way out.
WelcomeChoose ==
    /\ At("connect")
    /\ Put(Question("connect", {}, "pairing", "welcomed"))
    /\ LibrariesKept /\ RunKept /\ BootKept /\ CardKept

WelcomePair(paired) ==
    /\ At("pairing")
    /\ Goto(IF paired THEN "welcomed" ELSE "connect")
    /\ config' = [config EXCEPT !.can_sync = @ \/ paired]
    /\ LibrariesKept /\ RunKept /\ BootKept /\ UNCHANGED report

\* Recorded whatever the outcome.  What a save that fails leaves behind is Pairing's.
Welcomed ==
    /\ At("welcomed")
    /\ config' = [config EXCEPT !.welcomed = TRUE]
    /\ Put(Message("autosync"))
    /\ LibrariesKept /\ RunKept /\ BootKept /\ UNCHANGED report

-----------------------------------------------------------------------------
\* The libraries.

\* What reading a library can give: its titles, or none when it cannot be read.
Listings(l) == [loaded: {TRUE}, count: Sizes[l]] \cup {Empty[l]}

\* show_library: read only if it has never been, or its last reading failed.
ShowLibrary(l) ==
    /\ shown' = l /\ backend' = l
    /\ IF lib[l].loaded THEN lib' = lib
       ELSE \E listing \in Listings(l) : lib' = [lib EXCEPT ![l] = listing]

\* load_library frees the old list before it reads the new one.
ReloadLibrary(l) ==
    /\ shown' = shown /\ backend' = l
    /\ \E listing \in Listings(l) : lib' = [lib EXCEPT ![l] = listing]

-----------------------------------------------------------------------------
\* The sync on the way to HOME.

\* daemoon_3ds_autosync_opts: leave every conflict, and ask about nothing.
AutosyncOpts ==
    [Idle EXCEPT !.kind = "autosync", !.policy = "defer", !.confirmed = TRUE,
                 !.base = {"upload", "restore"}]

\* grace_period: B held, or closing, and the launch goes on as if it had not been due.
Autosync ==
    /\ At("autosync")
    /\ \/ Goto("listing") /\ run' = run
       \/ /\ boot.due /\ ~closing
          /\ Goto("network") /\ run' = AutosyncOpts
    /\ LibrariesKept /\ BootKept /\ CardKept /\ UNCHANGED <<tally, worked>>

\* autosync_wait_for_network.  Given up: the network cannot be opened, the server knows
\* this console no more, or the console is closing; otherwise it is there, or not yet.
NetworkProbe ==
    /\ At("network")
    /\ \/ Goto("write") /\ UNCHANGED <<run, tally>>
       \/ /\ ~closing /\ Goto("count")
          /\ tally' = [tally EXCEPT !.network = TRUE] /\ run' = run
       \/ /\ ~closing /\ run' = [run EXCEPT !.tries = @ + 1]
          /\ Goto(IF run.tries + 1 < MaxTries THEN "network" ELSE "write")
          /\ tally' = tally
    /\ LibrariesKept /\ BootKept /\ CardKept /\ UNCHANGED worked

CountForAutosync ==
    /\ At("count") /\ run.kind = "autosync"
    /\ ShowLibrary(run.lib)
    /\ run' = [run EXCEPT !.counts[run.lib] = lib'[run.lib].count, !.i = 1]
    /\ Goto("loop")
    /\ BootKept /\ CardKept /\ UNCHANGED <<chosen, tally, worked>>

\* What autosync.txt says of a run; the failures of core's and of the loop's, added up.
ReportText ==
    [network |-> tally.network, titles |-> tally.titles, uploaded |-> tally.uploaded,
     downloaded |-> tally.downloaded, unchanged |-> tally.unchanged,
     deferred |-> tally.deferred, failed |-> tally.sync_failed + tally.failed]

\* Opening the file empties it.
OpenReport ==
    /\ At("write")
    /\ \/ /\ report' = [fresh |-> TRUE, text |-> None]
          /\ Goto("written") /\ run' = run
       \/ /\ Goto("linger") /\ run' = [run EXCEPT !.refused = TRUE]
          /\ report' = report
    /\ LibrariesKept /\ BootKept /\ UNCHANGED <<config, tally, worked>>

WriteReport ==
    /\ At("written") /\ Goto("linger")
    /\ \/ report' = [report EXCEPT !.text = ReportText] /\ run' = run
       \/ report' = report /\ run' = [run EXCEPT !.refused = TRUE]
    /\ LibrariesKept /\ BootKept /\ UNCHANGED <<config, tally, worked>>

\* Counted down on the screen: nobody has to be there.
Linger ==
    /\ At("linger") /\ Goto("exit")
    /\ LibrariesKept /\ RunKept /\ BootKept /\ CardKept

-----------------------------------------------------------------------------
\* Both runs: the next title, the next library, the end.

Here == run.lib

NoneLeftButOne(r) == r.i >= r.counts[r.lib]

NoneLeft(r) == r.i > r.counts[r.lib]

\* The buttons and the closing are looked at before each title.  autosync leaves the
\* library it is in and goes on to the other; a batch is over.
NextTitle ==
    /\ At("loop") /\ ~NoneLeft(run) /\ ~closing
    /\ Goto("title")
    /\ backend' = Here
    /\ run' = [run EXCEPT !.at = "none", !.grants = run.base]
    /\ BootKept /\ CardKept /\ UNCHANGED <<shown, chosen, lib, tally, worked>>

StopBatch ==
    /\ At("loop") /\ run.kind = "batch" /\ ~NoneLeft(run)   \* B, or closing
    /\ run' = [run EXCEPT !.stopped = TRUE]
    /\ Put(Message("put_back"))
    /\ LibrariesKept /\ BootKept /\ CardKept /\ UNCHANGED <<tally, worked>>

NextLibrary ==
    /\ At("loop")
    /\ NoneLeft(run) \/ (run.kind = "autosync" /\ closing)
    /\ IF Here = "3ds"
       THEN /\ run' = [run EXCEPT !.lib = "nds", !.i = 1]
            /\ Goto(IF run.kind = "autosync" THEN "count" ELSE "loop")
       ELSE run' = run /\ Goto(IF run.kind = "autosync" THEN "write" ELSE "put_back")
    /\ LibrariesKept /\ BootKept /\ CardKept /\ UNCHANGED <<tally, worked>>

-----------------------------------------------------------------------------
\* One title: what core asks, counts and answers (daemoon_sync_title_with), and what the
\* loop that called it counts.

\* The counter of core's that a deed moves.
Counter(deed) ==
    CASE deed \in {"unrecorded", "declined"} -> "unchanged"
      [] deed = "backed_up"  -> "ok"
      [] OTHER               -> deed

Failure(deed) == deed \in {"failed", "unrecorded"}

\* counted: core's own counter of failures moves too, which it does not on every path.
Moved(t, deed, counted) ==
    LET c == IF deed \in {"failed", "cancelled"} THEN t
             ELSE [t EXCEPT ![Counter(deed)] = @ + 1]
    IN [c EXCEPT !.titles = @ + 1, !.sync_failed = IF counted THEN @ + 1 ELSE @]

CountOnlySuccess(t, deed, counted) == Moved(t, deed, counted)

\* And the loop counts each title that did not come out well.
Count(t, deed, counted) ==
    LET moved == Moved(t, deed, counted)
    IN IF Failure(deed) THEN [moved EXCEPT !.failed = @ + 1] ELSE moved

\* What a person must have granted for a deed.
Needs(deed, at) ==
    LET side == IF at \in {"conflict", "raced"} THEN {"conflict"} ELSE {}
    IN CASE deed = "uploaded"   -> IF side = {} THEN {"upload"} ELSE side
         [] deed = "downloaded" -> {"restore"} \cup side
         [] deed = "backed_up"  -> {"backup"}
         [] OTHER               -> {}

\* A run goes on to the next title; a single action says how it went.
Over(deed, counted) ==
    /\ worked' = Append(worked, [lib |-> run.lib, i |-> run.i, by |-> backend,
                                 deed |-> deed, owed |-> Needs(deed, run.at) \ run.grants])
    /\ tally' = Count(tally, deed, counted)
    /\ run' = [run EXCEPT !.i = @ + 1, !.at = "none", !.grants = {}]
    /\ IF run.kind = "one" THEN Put(Message("back")) ELSE Goto("loop")
    /\ LibrariesKept /\ BootKept /\ CardKept

\* A question goes up, or its answer is known already, while the title is in hand.
Ask(question) == Put(question) /\ run' = run
Pass(there)   == Goto(there) /\ run' = run

\* resolve_conflict: the policy answers, or the person does.
Resolve(at) ==
    /\ run' = [run EXCEPT !.at = at]
    /\ CASE run.policy = "ask"    -> Put(Question("conflict", {"conflict"}, "side", "deferred"))
         [] run.policy = "local"  -> Goto("upload")
         [] run.policy = "server" -> Goto("download")
         [] run.policy = "defer"  -> Goto("deferred")

InTitle == LibrariesKept /\ BootKept /\ CardKept /\ UNCHANGED <<tally, worked>>

\* The guard, the scan or the first question to the server fails, or the two sides are
\* compared and something is to be done.
SyncTitle ==
    /\ At("title") /\ run.op = "sync"
    /\ \/ Over("failed", FALSE)
       \/ Over("unchanged", FALSE)
       \/ Over("unrecorded", FALSE)
       \/ /\ run' = [run EXCEPT !.at = "upload"] /\ InTitle
          /\ IF run.confirmed THEN Goto("upload")
             ELSE Put(Question("upload", {"upload"}, "upload", "declined"))
       \/ run' = [run EXCEPT !.at = "download"] /\ Goto("download") /\ InTitle
       \/ Resolve("conflict") /\ InTitle

\* Keep the console's, or the server's; the third answer is to leave both.
ChooseSide ==
    /\ At("side")
    /\ \E side \in {"upload", "download", "deferred"} : Pass(side)
    /\ InTitle

\* Core's counter of failures moves on these ways to a title, and on no other.
Counted == run.at \in {"upload", "download", "conflict"}

Declined  == At("declined") /\ Over("declined", FALSE)
Cancelled == At("cancelled") /\ Over("cancelled", FALSE)
Deferred  == At("deferred") /\ Over("deferred", FALSE)

\* Something went wrong that core says on a screen of its own before it gives up.
Noticed == At("noticed") /\ Over("failed", Counted)

\* Another console's upload between the check and this one is a conflict after all.
Upload ==
    /\ At("upload")
    /\ \/ Over("uploaded", FALSE)
       \/ Over("failed", Counted)
       \/ run.at = "upload" /\ Over("failed", FALSE)
       \/ run.at = "upload" /\ Resolve("raced") /\ InTitle

\* do_download up to the restore.
Download ==
    /\ At("download")
    /\ \/ Over("failed", Counted)
       \/ Ask(Message("noticed")) /\ InTitle
       \/ Pass("consent") /\ InTitle
       \/ Ask(Message("consent")) /\ InTitle      \* a secure value: said first

Consent ==
    /\ At("consent")
    /\ IF run.confirmed THEN Pass("restore")
       ELSE Ask(Question("restore", {"restore"}, "restore", "cancelled"))
    /\ InTitle

\* restore_package once it may: a secure value that cannot be put back is said, and the
\* restore stands.
Restore ==
    /\ At("restore")
    /\ \/ Over("failed", Counted)
       \/ Ask(Message("noticed")) /\ InTitle
       \/ Ask(Message("restored")) /\ InTitle
       \/ Pass("restored") /\ InTitle

Restored == At("restored") /\ Over("downloaded", FALSE)

\* batch_backup_one: no archive to read is not a failure.
Backup ==
    /\ At("title") \/ At("backup")
    /\ run.op = "backup"
    /\ \E deed \in {"backed_up", "skipped", "failed"} : Over(deed, FALSE)

-----------------------------------------------------------------------------
\* The library on the screen.

Listing ==
    /\ At("listing") /\ ShowLibrary("3ds")
    /\ IF lib'["3ds"].loaded THEN Goto("listed") ELSE Put(Message("listed"))
    /\ BootKept /\ CardKept /\ RunKept /\ UNCHANGED chosen

\* A marker file: run_autotest or run_autopair, which are not these screens', and out.
\* What the boot saw is not looked at again.
Listed ==
    /\ At("listed")
    /\ Goto(IF boot.unattended THEN "exit" ELSE "grid")
    /\ boot' = [held |-> FALSE, unattended |-> FALSE, due |-> FALSE]
    /\ LibrariesKept /\ RunKept /\ CardKept /\ UNCHANGED closing

LeaveGrid ==
    /\ At("grid") /\ Goto("exit")      \* START, or closing
    /\ LibrariesKept /\ RunKept /\ BootKept /\ CardKept

AtGrid == At("grid") /\ ~closing

\* L, R.
Turn ==
    /\ AtGrid /\ pc' = pc /\ ask' = ask
    /\ ShowLibrary(Other(shown)) /\ chosen' = Other(chosen)
    /\ BootKept /\ CardKept /\ RunKept

\* What the settings can do to a launch; the rest of that screen is Pairing's.
Settings ==
    /\ AtGrid /\ pc' = pc /\ ask' = ask
    /\ \E autosync, can_sync \in BOOLEAN :
          config' = [autosync |-> autosync, can_sync |-> can_sync, welcomed |-> config.welcomed]
    /\ LibrariesKept /\ RunKept /\ BootKept /\ UNCHANGED report

\* The title under the cursor, worked with every question asked.
Selected(op) ==
    /\ AtGrid
    /\ \E i \in 1 .. lib[shown].count :
          run' = [Idle EXCEPT !.kind = "one", !.op = op, !.lib = shown, !.i = i]
    /\ LibrariesKept /\ BootKept /\ CardKept /\ UNCHANGED <<tally, worked>>

BackUpSelected  == Selected("backup") /\ Put(Question("backup", {"backup"}, "backup", "back"))
RestoreSelected == Selected("restore") /\ Goto("pick")
SyncSelected    == Selected("sync") /\ IF config.can_sync THEN Goto("title")
                                       ELSE Put(Message("back"))

\* daemoon_3ds_pick_backup: none to show, or one to restore, or one to delete.
PickBackup ==
    /\ At("pick")
    /\ Ask(Message("back")) \/ Ask(Question("pick", {}, "picked", "back"))
    /\ InTitle

Picked ==
    /\ At("picked")
    /\ \/ Pass("consent") \/ Ask(Message("consent"))
       \/ Ask(Question("delete", {}, "delete", "pick"))
    /\ InTitle

DeleteBackup ==
    /\ At("delete")
    /\ Ask(Message("pick")) \/ Pass("pick")
    /\ InTitle

\* Back at the grid, with nothing of the action left.
Back ==
    /\ At("back") /\ Goto("grid")
    /\ run' = Idle /\ tally' = Zeroed /\ worked' = <<>>
    /\ LibrariesKept /\ BootKept /\ CardKept

\* free_library, twice, and everything closed.
Exit ==
    /\ At("exit") /\ Forgotten
    /\ CardKept /\ UNCHANGED closing

-----------------------------------------------------------------------------
\* The run over everything, batch.c and action_batch.

OpenBatch ==
    /\ AtGrid /\ Goto("count")
    /\ run' = [Idle EXCEPT !.kind = "batch", !.was = shown]
    /\ LibrariesKept /\ BootKept /\ CardKept /\ UNCHANGED <<tally, worked>>

\* Both libraries, before anything is offered.
CountForBatch ==
    /\ At("count") /\ run.kind = "batch"
    /\ ShowLibrary(Here)
    /\ LET counts == [run.counts EXCEPT ![Here] = lib'[Here].count]
       IN /\ run' = [run EXCEPT !.counts = counts, !.lib = "nds"]
          /\ CASE Here = "3ds" -> Goto("count")
               [] Here = "nds" /\ counts["3ds"] + counts["nds"] = 0 -> Put(Message("put_back"))
               [] OTHER -> Goto("ops")
    /\ BootKept /\ CardKept /\ UNCHANGED <<chosen, tally, worked>>

PickOp ==
    /\ At("ops")
    /\ \E op \in {"backup", "sync"} :
          /\ run' = [run EXCEPT !.op = op]
          /\ Put(Question("op", {}, IF op = "sync" THEN "policy" ELSE "confirm", "put_back"))
    /\ InTitle

\* Ask comes first; deferring is not on the list.
PickPolicy ==
    /\ At("policy")
    /\ IF config.can_sync
       THEN \E policy \in {"ask", "local", "server"} :
               /\ run' = [run EXCEPT !.policy = policy]
               /\ Put(Question("policy", {}, "confirm", "put_back"))
       ELSE Ask(Message("put_back"))
    /\ InTitle

\* What the one question of the run asks for, in the words it uses.
Asked ==
    IF run.op = "backup" THEN {"backup"}
    ELSE {"upload", "restore"} \cup (IF run.policy = "ask" THEN {} ELSE {"conflict"})

ConfirmBatch ==
    /\ At("confirm")
    /\ Ask(Question("batch", Asked, "agreed", "put_back"))
    /\ InTitle

StartBatch ==
    /\ At("agreed") /\ Goto("loop")
    /\ run' = [run EXCEPT !.base = run.grants, !.confirmed = TRUE, !.lib = "3ds", !.i = 1]
    /\ LibrariesKept /\ BootKept /\ CardKept /\ UNCHANGED <<tally, worked>>

WasNow(r) == shown

\* Which library the run puts back when it is over.
Was(r) == r.was

PutBack ==
    /\ At("put_back") /\ ShowLibrary(Was(run))
    /\ IF run.confirmed THEN Put(Message("tallied")) ELSE Goto("back")
    /\ BootKept /\ CardKept /\ RunKept /\ UNCHANGED chosen

\* Only a download wrote to a save archive, and only then is the list read again.
Tallied ==
    /\ At("tallied") /\ Goto("back")
    /\ IF tally.downloaded > 0 THEN ReloadLibrary(shown)
       ELSE UNCHANGED <<backend, shown, lib>>
    /\ BootKept /\ CardKept /\ RunKept /\ UNCHANGED chosen

-----------------------------------------------------------------------------
\* What the program does by itself, and what the person does.
Program ==
    \/ BackedOut \/ UpdateCheck \/ UpdateInstall \/ UpdateOver
    \/ Welcome \/ WelcomeChoose \/ (\E paired \in BOOLEAN : WelcomePair(paired)) \/ Welcomed
    \/ Autosync \/ NetworkProbe \/ CountForAutosync \/ OpenReport \/ WriteReport \/ Linger
    \/ NextTitle \/ StopBatch \/ NextLibrary
    \/ SyncTitle \/ ChooseSide \/ Upload \/ Download \/ Consent \/ Restore \/ Restored
    \/ Declined \/ Cancelled \/ Deferred \/ Noticed \/ Backup
    \/ Listing \/ Listed \/ (closing /\ LeaveGrid) \/ PickBackup \/ Picked \/ DeleteBackup
    \/ CountForBatch \/ PickOp \/ PickPolicy \/ ConfirmBatch \/ StartBatch \/ PutBack \/ Tallied
    \/ Back \/ Exit

Person ==
    \/ \E held, unattended \in BOOLEAN : Launch(held, unattended)
    \/ \E yes \in BOOLEAN : Answer(yes)
    \/ Close \/ PowerLost \/ LeaveGrid
    \/ Turn \/ Settings \/ BackUpSelected \/ RestoreSelected \/ SyncSelected \/ OpenBatch

Next == Program \/ Person

\* The processor runs whatever is not waiting for somebody.
Spec == Init /\ [][Next]_vars /\ WF_vars(Program)

-----------------------------------------------------------------------------
(* Properties. *)

Works(deeds) == Cardinality({k \in DOMAIN worked : worked[k].deed \in deeds})

\* A title is worked through its own library's backend, whatever was counted, shown or
\* reloaded before; and the grid stands on the library the person turned to, with that
\* library's backend under it (select_backend; main.c:267-269, batch.c and autosync.c).
OwnLibrary ==
    /\ \A k \in DOMAIN worked : worked[k].by = worked[k].lib
    /\ At("grid") => shown = chosen /\ backend = chosen

\* No title is worked twice in a run, and a run nobody stopped has worked each one that was
\* counted for its question (batch.c:121-123: "the number of things that will actually
\* happen").
EachTitleOnce ==
    LET of(k) == <<worked[k].lib, worked[k].i>>
    IN /\ \A j, k \in DOMAIN worked : of(j) = of(k) => j = k
       /\ (At("put_back") /\ run.confirmed /\ ~run.stopped)
             \/ (At("write") /\ tally.network /\ ~closing) =>
          {of(k) : k \in DOMAIN worked} =
             UNION {{l} \X (1 .. run.counts[l]) : l \in Library}

\* When the countdown to HOME is on the screen and the card did not refuse it, autosync.txt
\* is this launch's and says what happened to each title; a title that failed is never a
\* run without failures (autosync.c:175-177, autosync_steps.c:66-71).
ReportTells ==
    pc = "linger" /\ ~run.refused =>
       /\ report # None /\ report.fresh /\ report.text # None
       /\ LET text == report.text
          IN /\ text.network = tally.network
             /\ text.titles = Len(worked)
             /\ text.uploaded = Works({"uploaded"})
             /\ text.downloaded = Works({"downloaded"})
             /\ text.deferred = Works({"deferred"})
             /\ text.unchanged = Works({"unchanged", "unrecorded"})
             /\ (text.failed = 0) = (Works({"failed", "unrecorded"}) = 0)

\* Whatever changed a save on either side was granted by the person: on the title's own
\* question, on the question of the batch, or by turning autosync on; a side of a conflict
\* is picked only by the person, and a console that is closing grants nothing
\* (ui_backend.c:98-102, autosync_steps.c:20-27, batch.c:168-175).
Consented ==
    /\ \A k \in DOMAIN worked : worked[k].owed = {}
    /\ run.kind = "autosync" /\ ask # None => ask.what = "message"

\* A console told to close is off in the end, whatever screen it was on; and a launch that
\* went on to sync on the way to HOME is over, or stands at a message
\* (autosync.c:16-18: "a line in that file and not a hang").
LaunchEnds ==
    /\ closing ~> (pc = "off")
    /\ (pc = "network") ~> (pc = "off" \/ ask # None)

-----------------------------------------------------------------------------
(* What TLC refutes, of what the comments say. *)

\* autosync.txt's failed= is the number of titles that failed (daemoon_3ds.h:255-256): a
\* failure that core counts is counted by the loop as well.
ReportAddsUp ==
    pc = "linger" /\ ~run.refused =>
       report.text.failed = Works({"failed", "unrecorded"})

\* main.c:2291-2294, an unattended launch stops at no screen waiting for A: a library that
\* cannot be read is said in one.
UnattendedWaitsForNobody == boot.unattended => ask = None

\* main.c:2302-2304, a console that boots into a sync must not stop at an explanation
\* waiting for A: the update's question comes first, and core's own notices later.
BootSyncWaitsForNobody == boot.due /\ pc \in {"update", "download", "restore"} => ask = None
=============================================================================
