--------------------------- MODULE ConsoleProofs ----------------------------
(***************************************************************************)
(* Theorems of Console for libraries of any sizes and any number of tries  *)
(* for the network: whose backend a title is worked through, how often,    *)
(* what autosync.txt says of it, and that somebody agreed to it.           *)
(***************************************************************************)
EXTENDS Console, FiniteSetTheorems, TLAPS

-----------------------------------------------------------------------------
(***************************************************************************)
(* The invariant.                                                          *)
(***************************************************************************)

Runs == [kind: {"none", "one", "autosync", "batch"}, op: Ops, policy: Policies,
         confirmed: BOOLEAN, counts: [Library -> Nat], lib: Library, i: Nat \ {0},
         at: Findings, base: SUBSET Grants, grants: SUBSET Grants, was: Library,
         stopped: BOOLEAN, tries: 0 .. MaxTries, refused: BOOLEAN]

Counters == [network: BOOLEAN, titles: Nat, uploaded: Nat, downloaded: Nat, unchanged: Nat,
             deferred: Nat, sync_failed: Nat, ok: Nat, skipped: Nat, failed: Nat]

Title(k) == <<worked[k].lib, worked[k].i>>
Done     == {Title(k) : k \in DOMAIN worked}

\* The grid stands on the library the person turned to.
Home == shown = chosen /\ backend = chosen

\* Nothing is on and nothing is left of what was.
Nothing(r) == r = Idle /\ worked = <<>> /\ tally = Zeroed

\* What has been worked is all of the libraries before this one and this one up to the
\* title in hand; only a closing autosync leaves a library before its end.
SoFar(r) ==
    IF r.lib = "3ds" THEN Done = {"3ds"} \X (1 .. r.i - 1)
    ELSE \E m \in 0 .. r.counts["3ds"] :
           /\ Done = ({"3ds"} \X (1 .. m)) \cup ({"nds"} \X (1 .. r.i - 1))
           /\ ~(closing /\ r.kind = "autosync") => m = r.counts["3ds"]

AllDone(r) == Done = ({"3ds"} \X (1 .. r.counts["3ds"])) \cup ({"nds"} \X (1 .. r.counts["nds"]))

\* What a run was granted at its start covers what its policy will do without asking.
Covers(r, grants) ==
    /\ r.op = "backup" => "backup" \in grants
    /\ r.op = "sync" => {"upload", "restore"} \subseteq grants
                          /\ (r.policy \in {"local", "server"} => "conflict" \in grants)

Unattended(r) == r.op = "sync" /\ r.policy = "defer" /\ ~r.stopped

\* A run over many titles, once it was agreed to.
OnTheWay(r) ==
    /\ r.kind \in {"autosync", "batch"} /\ r.confirmed /\ r.op # "restore" /\ ~r.stopped
    /\ r.kind = "autosync" => Unattended(r)
    /\ r.kind = "batch" => r.was = chosen
    /\ Covers(r, r.base) /\ SoFar(r)

\* One title is in hand, of a run or alone, with its own library's backend.
InHand(r) ==
    /\ backend = r.lib
    /\ IF r.kind = "one" THEN worked = <<>> /\ ~r.confirmed /\ r.policy = "ask" /\ Home
       ELSE OnTheWay(r) /\ r.i <= r.counts[r.lib] /\ r.base \subseteq r.grants

\* Both sides changed, and a side was picked.
SidePicked(r) == r.at \in {"conflict", "raced"} => "conflict" \in r.grants

\* A batch before its question.
Asking(r) ==
    r.kind = "batch" /\ ~r.confirmed /\ ~r.stopped /\ worked = <<>> /\ r.was = chosen /\ r.i = 1

Before == {"off", "update", "install", "installed", "not_installed", "welcome", "connect",
           "pairing", "welcomed", "autosync", "listing"}

Titled == {"title", "side", "upload", "download", "consent", "restore", "restored", "noticed",
           "backup", "declined", "cancelled", "deferred", "pick", "picked", "delete"}

\* What has to hold of a run where main goes on with it.
Ready(there, r) ==
    /\ there \in Before => Nothing(r) /\ chosen = "3ds"
    /\ there \in {"listed", "grid"} => Nothing(r) /\ Home
    /\ there = "network" => /\ r = [AutosyncOpts EXCEPT !.tries = r.tries] /\ r.tries < MaxTries
                            /\ worked = <<>> /\ tally = Zeroed
    /\ there = "count" => IF r.kind = "batch" THEN Asking(r)
                          ELSE r.kind = "autosync" /\ OnTheWay(r) /\ r.i = 1
    /\ there = "loop" => OnTheWay(r) /\ r.i <= r.counts[r.lib] + 1
    /\ there \in Titled => InHand(r)
    /\ there = "title" => r.at = "none" /\ r.op # "restore" /\ (r.op = "backup" => r.confirmed)
    /\ there \in {"side", "upload", "download", "consent", "restore", "restored"} =>
          r.op # "backup"
    /\ there \in {"pick", "picked", "delete"} => r.op # "backup" /\ r.at = "none" /\ r.kind = "one"
    /\ there = "backup" => r.op = "backup" /\ "backup" \in r.grants
    /\ there = "side" => "conflict" \in r.grants /\ r.at \in {"conflict", "raced"}
    /\ there = "upload" => /\ r.at \in {"upload", "conflict", "raced"} /\ SidePicked(r)
                           /\ r.at = "upload" => "upload" \in r.grants
    /\ there \in {"download", "consent", "restore", "restored"} => SidePicked(r)
    /\ there \in {"restore", "restored"} => "restore" \in r.grants
    /\ there = "declined" => ~r.confirmed
    /\ there \in {"write", "written", "linger"} => r.kind = "autosync"
    /\ there = "write" => (tally.network /\ ~closing => AllDone(r))
    /\ there = "written" => report = [fresh |-> TRUE, text |-> None]
    /\ there = "linger" => r.refused \/ report = [fresh |-> TRUE, text |-> ReportText]
    /\ there \in {"ops", "policy", "confirm", "agreed"} => Asking(r)
    /\ there \in {"policy", "confirm", "agreed"} => r.op # "restore"
    /\ there = "policy" => r.op = "sync"
    /\ there = "agreed" => Covers(r, r.grants)
    /\ there = "put_back" => /\ r.kind = "batch" /\ r.was = chosen
                             /\ r.confirmed /\ ~r.stopped => AllDone(r)
    /\ there \in {"tallied", "back"} => r.kind \in {"one", "batch"} /\ Home

Granting(r, grants) == [r EXCEPT !.grants = r.grants \cup grants]

\* A screen that waits, waits where either answer can be taken.
Stands ==
    IF ask = None THEN Ready(pc, run)
    ELSE /\ Ready(ask.yes, Granting(run, ask.grants)) /\ Ready(ask.no, run)
         /\ pc \notin {"off", "linger"}
         /\ run.kind = "autosync" => ask.what = "message"

\* Each title that was worked was worked once, through its own library's backend and with
\* all that it needed granted.
Rightly ==
    /\ \A k \in DOMAIN worked : /\ worked[k].by = worked[k].lib /\ worked[k].owed = {}
                                /\ run.kind = "autosync" => worked[k].deed # "declined"
    /\ \A j, k \in DOMAIN worked : Title(j) = Title(k) => j = k

\* The counters count the deeds; core counts no failure that the loop does not.
Tallies ==
    /\ tally.titles = Len(worked)
    /\ tally.uploaded = Works({"uploaded"}) /\ tally.downloaded = Works({"downloaded"})
    /\ tally.deferred = Works({"deferred"})
    /\ tally.unchanged = Works({"unchanged", "unrecorded", "declined"})
    /\ tally.failed = Works({"failed", "unrecorded"}) /\ tally.sync_failed <= tally.failed

ConsoleInv == TypeOK /\ Stands /\ Rightly /\ Tallies

-----------------------------------------------------------------------------
(***************************************************************************)
(* A step that works no title.                                             *)
(***************************************************************************)

\* The types of what no run holds.
Frame ==
    /\ closing \in BOOLEAN
    /\ config \in [autosync: BOOLEAN, can_sync: BOOLEAN, welcomed: BOOLEAN]
    /\ boot \in [held: BOOLEAN, unattended: BOOLEAN, due: BOOLEAN]
    /\ {backend, shown, chosen} \subseteq Library
    /\ lib \in [Library -> [loaded: BOOLEAN, count: Nat]]
    /\ report = None \/ report \in [fresh: BOOLEAN, text: Texts \cup {None}]

\* What Ready looks at besides the place and the run.
Looked == <<tally, worked, backend, shown, chosen, report, closing>>

\* The types of what no run holds are among all the types.
LEMMA FrameIs == TypeOK => Frame
  BY DEF TypeOK, Frame

\* A run that was granted more is the same run in everything else.
LEMMA GrantingIs ==
    ASSUME NEW r \in Runs, NEW grants \in SUBSET Grants
    PROVE  /\ Granting(r, grants) \in Runs
           /\ Granting(r, grants).grants = r.grants \cup grants
           /\ \A f \in {"kind", "op", "policy", "confirmed", "counts", "lib", "i", "at", "base",
                        "was", "stopped", "tries", "refused"} : Granting(r, grants)[f] = r[f]
           /\ grants = {} => Granting(r, grants) = r
  BY DEF Granting, Runs

\* Ready looks at nothing else.
LEMMA ReadyKept ==
    ASSUME UNCHANGED Looked, NEW there, NEW r, Ready(there, r)
    PROVE  Ready(there, r)'
  BY DEF Looked, Ready, Nothing, Home, OnTheWay, Unattended, Covers, SoFar, AllDone, Done, Title,
         InHand, SidePicked, Asking, ReportText

\* main goes on at a place that is ready for the run it goes on with.
LEMMA GoesOn ==
    ASSUME ConsoleInv, Frame', UNCHANGED worked,
           tally' = tally \/ tally' = [tally EXCEPT !.network = TRUE],
           NEW there \in PCs, NEW r \in Runs, pc' = there, ask' = None, run' = r,
           Ready(there, r)',
           r.kind = "autosync" => run.kind = "autosync" \/ worked = <<>>
    PROVE  ConsoleInv'
  <1> USE DEF ConsoleInv
  <1>1. tally \in Counters /\ tally' \in Counters
    BY DEF TypeOK, Counters
  <1>2. TypeOK'
    BY <1>1 DEF TypeOK, Frame, Runs, Counters
  <1>3. Stands'
    BY DEF Stands
  <1>4. Rightly'
    BY DEF Rightly, Title
  <1>5. Tallies'
    <2>1. /\ tally'.titles = tally.titles /\ tally'.uploaded = tally.uploaded
          /\ tally'.downloaded = tally.downloaded /\ tally'.unchanged = tally.unchanged
          /\ tally'.deferred = tally.deferred /\ tally'.failed = tally.failed
          /\ tally'.sync_failed = tally.sync_failed
      BY <1>1 DEF Counters
    <2> QED
      BY <2>1 DEF Tallies, Works
  <1> QED
    BY <1>2, <1>3, <1>4, <1>5

\* A screen goes up whose answers lead to places that are ready for them.
LEMMA PutsUp ==
    ASSUME ConsoleInv, Frame', UNCHANGED <<pc, tally, worked>>, pc \notin {"off", "linger"},
           NEW q \in Screens, NEW r \in Runs, ask' = q, run' = r,
           Ready(q.yes, Granting(r, q.grants))', Ready(q.no, r)',
           r.kind = "autosync" => /\ run.kind = "autosync" \/ worked = <<>>
                                  /\ q.what = "message"
    PROVE  ConsoleInv'
  <1> USE DEF ConsoleInv
  <1>1. TypeOK'
    BY DEF TypeOK, Frame, Runs
  <1>2. Stands'
    BY NoneIsNothing DEF Stands
  <1>3. Rightly'
    BY DEF Rightly, Title
  <1>4. Tallies'
    BY DEF Tallies, Works
  <1> QED
    BY <1>1, <1>2, <1>3, <1>4

\* What a step leaves alone that only moves the run.
LEMMA KeptIs ==
    ASSUME ConsoleInv, LibrariesKept, BootKept, CardKept, UNCHANGED <<tally, worked>>
    PROVE  Frame' /\ UNCHANGED Looked
  BY FrameIs DEF ConsoleInv, LibrariesKept, BootKept, CardKept, Frame, Looked

\* A step with a title in hand leaves alone all that Ready looks at.
LEMMA InTitleIs == ConsoleInv /\ InTitle => Frame' /\ UNCHANGED Looked
  BY KeptIs DEF InTitle

\* And where a step leaves alone all that Ready looks at, the run is ready as it is.
LEMMA GoesTo ==
    ASSUME ConsoleInv, Frame', UNCHANGED Looked, NEW there \in PCs, NEW r \in Runs,
           pc' = there, ask' = None, run' = r, Ready(there, r),
           r.kind = "autosync" => run.kind = "autosync" \/ worked = <<>>
    PROVE  ConsoleInv'
  <1>1. Ready(there, r)'
    BY ReadyKept
  <1> QED
    BY <1>1, GoesOn DEF Looked

\* A screen goes up over a run that both its answers are ready for.
LEMMA Questions ==
    ASSUME ConsoleInv, Frame', UNCHANGED Looked, pc' = pc, pc \notin {"off", "linger"},
           NEW q \in Screens, NEW r \in Runs, ask' = q, run' = r,
           Ready(q.yes, Granting(r, q.grants)), Ready(q.no, r),
           r.kind = "autosync" => /\ run.kind = "autosync" \/ worked = <<>>
                                  /\ q.what = "message"
    PROVE  ConsoleInv'
  <1>1. Ready(q.yes, Granting(r, q.grants))' /\ Ready(q.no, r)'
    BY ReadyKept
  <1> QED
    BY <1>1, PutsUp DEF Looked

\* A message has one answer, and grants nothing.
LEMMA MessageIs ==
    ASSUME NEW then \in PCs, NEW r \in Runs
    PROVE  /\ Message(then) \in Screens /\ Message(then).what = "message"
           /\ Message(then).yes = then /\ Message(then).no = then
           /\ Granting(r, Message(then).grants) = r
  BY GrantingIs DEF Message, Question, Screens

\* A message goes up: main goes on at one place, whatever is pressed.
LEMMA Says ==
    ASSUME ConsoleInv, Frame', UNCHANGED Looked, pc' = pc, pc \notin {"off", "linger"},
           NEW then \in PCs, NEW r \in Runs, ask' = Message(then), run' = r, Ready(then, r),
           r.kind = "autosync" => run.kind = "autosync" \/ worked = <<>>
    PROVE  ConsoleInv'
  BY MessageIs, Questions

\* A question that grants nothing is as ready as both its answers.
LEMMA PlainQuestion ==
    ASSUME NEW what \in {"update", "intro", "connect", "pick", "delete", "op", "policy"},
           NEW yes \in PCs, NEW no \in PCs, NEW r \in Runs
    PROVE  LET q == Question(what, {}, yes, no)
           IN q \in Screens /\ q.yes = yes /\ q.no = no /\ Granting(r, q.grants) = r
  BY GrantingIs DEF Question, Screens

\* A question that grants nothing goes up.
LEMMA Offers ==
    ASSUME ConsoleInv, Frame', UNCHANGED Looked, pc' = pc, pc \notin {"off", "linger"},
           NEW what \in {"update", "intro", "connect", "pick", "delete", "op", "policy"},
           NEW yes \in PCs, NEW no \in PCs, NEW r \in Runs,
           ask' = Question(what, {}, yes, no), run' = r,
           Ready(yes, r), Ready(no, r), r.kind # "autosync"
    PROVE  ConsoleInv'
  <1> PICK q : q = Question(what, {}, yes, no)
    OBVIOUS
  <1>1. q \in Screens /\ q.yes = yes /\ q.no = no /\ Granting(r, q.grants) = r
    BY PlainQuestion
  <1> QED
    BY <1>1, Questions

-----------------------------------------------------------------------------
(***************************************************************************)
(* Before the library.                                                     *)
(***************************************************************************)

\* The run that is on is of the runs' type.
LEMMA RunIs == ConsoleInv => run \in Runs
  BY DEF ConsoleInv, TypeOK, Runs

\* No run is on.
LEMMA IdleIs == Idle \in Runs /\ Idle.kind = "none" /\ ~Idle.confirmed
  <1>1. [l \in Library |-> 0] \in [Library -> Nat]
    OBVIOUS
  <1>2. 0 \in 0 .. MaxTries
    BY ConsoleBounds
  <1> QED
    BY <1>1, <1>2 DEF Idle, Runs, Library, Ops, Policies, Findings, Grants

\* A launch begins with nothing on.
LEMMA InitConsole == Init => ConsoleInv
  <1> SUFFICES ASSUME Init PROVE ConsoleInv
    OBVIOUS
  <1> USE DEF Init
  <1>1. TypeOK
    <2>1. run \in Runs
      BY IdleIs
    <2>2. tally \in Counters
      BY DEF Zeroed, Counters
    <2>3. lib \in [Library -> [loaded: BOOLEAN, count: Nat]]
      BY DEF Empty
    <2>4. pc \in PCs /\ {backend, shown, chosen} \subseteq Library
      BY DEF PCs, Library
    <2>5. worked \in Seq([lib: Library, i: Nat, by: Library, deed: Deeds, owed: SUBSET Grants])
      OBVIOUS
    <2>6. boot \in [held: BOOLEAN, unattended: BOOLEAN, due: BOOLEAN]
      OBVIOUS
    <2> HIDE DEF Init
    <2>7. /\ closing \in BOOLEAN /\ ask = None /\ report = None
          /\ config \in [autosync: BOOLEAN, can_sync: BOOLEAN, welcomed: BOOLEAN]
      BY DEF Init
    <2> QED
      BY <2>1, <2>2, <2>3, <2>4, <2>5, <2>6, <2>7 DEF TypeOK, Runs, Counters
  <1>2. Stands
    BY DEF Stands, Ready, Before, Titled, Nothing
  <1>3. Rightly
    BY DEF Rightly
  <1>4. Tallies
    <2>1. \A S : Works(S) = 0
      BY FS_EmptySet DEF Works
    <2> QED
      BY <2>1 DEF Tallies, Zeroed
  <1> QED
    BY <1>1, <1>2, <1>3, <1>4 DEF ConsoleInv

\* Nothing is on, and nothing of it is left, until autosync or the grid starts something.
LEMMA BeforeIs ==
    /\ ConsoleInv /\ ask = None /\ pc \in Before => Nothing(run) /\ chosen = "3ds"
    /\ \A there \in Before : \A r : Nothing(r) /\ chosen = "3ds" => Ready(there, r)
    /\ \A r : Ready("exit", r)
  <1>1. ConsoleInv /\ ask = None /\ pc \in Before => Nothing(run) /\ chosen = "3ds"
    BY DEF ConsoleInv, Stands, Ready
  <1>2. \A there \in Before : \A r : Nothing(r) /\ chosen = "3ds" => Ready(there, r)
    BY DEF Before, Ready, Titled
  <1>3. \A r : Ready("exit", r)
    BY DEF Before, Ready, Titled
  <1> QED
    BY <1>1, <1>2, <1>3

\* Power-on: wherever main begins, nothing is on.
LEMMA Launches ==
    ASSUME ConsoleInv, NEW held \in BOOLEAN, NEW unattended \in BOOLEAN, Launch(held, unattended)
    PROVE  ConsoleInv'
  <1> USE DEF Launch
  <1>1. ask = None
    BY DEF ConsoleInv, Stands
  <1>2. Nothing(run) /\ chosen = "3ds"
    BY <1>1, BeforeIs DEF Before
  <1>3. Due(held, unattended) \in BOOLEAN
    BY DEF Due, ConsoleInv, TypeOK
  <1>4. Frame'
    BY <1>3 DEF ConsoleInv, TypeOK, Frame
  <1>5. /\ \E there \in Before : pc' = there /\ there \in PCs
        /\ \A there \in Before : Ready(there, run)'
    <2>1. (\A there \in Before : Ready(there, run))'
      BY <1>2 DEF Ready, Before, Titled, Nothing
    <2> QED
      BY <2>1 DEF Before, PCs
  <1> QED
    BY <1>4, <1>5, RunIs, GoesOn

\* The console is told to close: what was ready stays ready.
LEMMA Closes == ASSUME ConsoleInv, Close PROVE ConsoleInv'
  <1> USE DEF Close
  <1>1. TypeOK'
    <2>1. Frame'
      BY FrameIs DEF ConsoleInv, Frame
    <2>2. UNCHANGED <<pc, run, tally, ask, worked>>
      OBVIOUS
    <2> HIDE DEF Close
    <2> QED
      BY <2>1, <2>2 DEF ConsoleInv, TypeOK, Frame
  <1>2. \A there, r : Ready(there, r) => Ready(there, r)'
    BY DEF Ready, Nothing, Home, OnTheWay, Unattended, Covers, SoFar, AllDone, Done, Title,
           InHand, SidePicked, Asking, ReportText
  <1>3. Stands'
    BY <1>2 DEF ConsoleInv, Stands
  <1>4. Rightly' /\ Tallies'
    BY DEF ConsoleInv, Rightly, Tallies, Title, Works
  <1> QED
    BY <1>1, <1>3, <1>4 DEF ConsoleInv

\* A step after which nothing is on.
LEMMA Clears ==
    ASSUME Frame', NEW there \in PCs, pc' = there, ask' = None, run' = Idle, tally' = Zeroed,
           worked' = <<>>, Ready(there, Idle)'
    PROVE  ConsoleInv'
  <1>1. TypeOK'
    <2>1. run' \in Runs
      BY IdleIs
    <2>2. tally' \in Counters
      BY DEF Zeroed, Counters
    <2>3. worked' \in Seq([lib: Library, i: Nat, by: Library, deed: Deeds,
                           owed: SUBSET Grants])
      OBVIOUS
    <2> QED
      BY <2>1, <2>2, <2>3 DEF TypeOK, Frame, Runs, Counters
  <1>2. Stands'
    <2>1. PICK r : r = Idle
      OBVIOUS
    <2>2. Ready(there, r)' /\ run' = r
      BY <2>1
    <2> QED
      BY <2>2 DEF Stands
  <1>3. Rightly'
    BY DEF Rightly
  <1>4. Tallies'
    <2>1. (\A S : Works(S) = 0)'
      BY FS_EmptySet DEF Works
    <2> QED
      BY <2>1 DEF Tallies, Zeroed
  <1> QED
    BY <1>1, <1>2, <1>3, <1>4 DEF ConsoleInv

\* What is in memory is gone, and there nothing is on.
LEMMA Forgets ==
    ASSUME ConsoleInv, PowerLost \/ Exit
    PROVE  ConsoleInv'
  <1>1. Forgotten /\ UNCHANGED <<closing, config, report>>
    BY DEF PowerLost, Exit, CardKept
  <1> USE DEF Forgotten
  <1>2. Frame'
    <2>1. lib' \in [Library -> [loaded: BOOLEAN, count: Nat]]
      BY <1>1 DEF Empty
    <2>2. {backend', shown', chosen'} \subseteq Library
      BY <1>1 DEF Library
    <2>3. boot' \in [held: BOOLEAN, unattended: BOOLEAN, due: BOOLEAN]
      BY <1>1
    <2>4. /\ closing' \in BOOLEAN
          /\ report' = None \/ report' \in [fresh: BOOLEAN, text: Texts \cup {None}]
          /\ config' \in [autosync: BOOLEAN, can_sync: BOOLEAN, welcomed: BOOLEAN]
      BY <1>1 DEF ConsoleInv, TypeOK
    <2> QED
      BY <2>1, <2>2, <2>3, <2>4 DEF Frame
  <1>3. Ready("off", Idle)'
    BY <1>1 DEF Ready, Before, Titled, Nothing, Idle
  <1> QED
    BY <1>1, <1>2, <1>3, Clears DEF PCs

\* A person's answer, and the one a console that is closing gives itself.
LEMMA Answers ==
    ASSUME ConsoleInv, BackedOut \/ \E yes \in BOOLEAN : Answer(yes)
    PROVE  ConsoleInv'
  <1>1. Frame' /\ UNCHANGED Looked /\ ask # None
    BY KeptIs DEF BackedOut, Answer, RunKept
  <1>2. /\ ask \in Screens /\ run \in Runs
        /\ Ready(ask.yes, Granting(run, ask.grants)) /\ Ready(ask.no, run)
    BY <1>1, RunIs DEF ConsoleInv, TypeOK, Stands
  <1>3. ask.yes \in PCs /\ ask.no \in PCs /\ ask.grants \in SUBSET Grants
    BY <1>2 DEF Screens
  <1>4. PICK r : r = Granting(run, ask.grants)
    OBVIOUS
  <1>5. r \in Runs /\ r.kind = run.kind
    BY <1>2, <1>3, <1>4, GrantingIs
  <1>6. ask' = None
    BY DEF BackedOut, Answer
  <1>7. (pc' = ask.no /\ run' = run) \/ (pc' = ask.yes /\ run' = r)
    BY <1>4 DEF BackedOut, Answer, BackOut, RunKept, Granting
  <1>8. CASE pc' = ask.no /\ run' = run
    BY <1>1, <1>2, <1>3, <1>6, <1>8, GoesTo
  <1>9. CASE pc' = ask.yes /\ run' = r
    BY <1>1, <1>2, <1>3, <1>4, <1>5, <1>6, <1>9, GoesTo
  <1> QED
    BY <1>7, <1>8, <1>9

\* A step from one place before the library to another, or to a screen between two.
LEMMA GoesBefore ==
    ASSUME ConsoleInv, ask = None, pc \in Before, Frame', UNCHANGED Looked, run' = run,
           NEW there \in Before \cup {"exit"}, pc' = there, ask' = None
    PROVE  ConsoleInv'
  <1>1. there \in PCs
    BY DEF Before, PCs
  <1>2. Ready(there, run)
    BY BeforeIs
  <1> QED
    BY <1>1, <1>2, RunIs, GoesTo

\* A message before the library.
LEMMA SaysBefore ==
    ASSUME ConsoleInv, ask = None, pc \in Before \ {"off"}, Frame', UNCHANGED Looked, run' = run,
           pc' = pc, NEW then \in Before \cup {"exit"}, ask' = Message(then)
    PROVE  ConsoleInv'
  <1>1. then \in PCs /\ pc \notin {"off", "linger"}
    BY DEF Before, PCs
  <1>2. Ready(then, run)
    BY BeforeIs
  <1> QED
    BY <1>1, <1>2, RunIs, Says

\* A question before the library.
LEMMA AsksBefore ==
    ASSUME ConsoleInv, ask = None, pc \in Before \ {"off"}, Frame', UNCHANGED Looked, run' = run,
           pc' = pc, NEW what \in {"update", "intro", "connect"}, NEW yes \in Before,
           NEW no \in Before, ask' = Question(what, {}, yes, no)
    PROVE  ConsoleInv'
  <1>1. yes \in PCs /\ no \in PCs /\ pc \notin {"off", "linger"}
    BY DEF Before, PCs
  <1>2. Ready(yes, run) /\ Ready(no, run) /\ run.kind # "autosync"
    BY BeforeIs, IdleIs DEF Nothing
  <1>3. what \in {"update", "intro", "connect", "pick", "delete", "op", "policy"}
    OBVIOUS
  <1> QED
    BY <1>1, <1>2, <1>3, RunIs, Offers

\* The update: looked for, installed or not, and said.
LEMMA Updates ==
    ASSUME ConsoleInv, UpdateCheck \/ UpdateInstall \/ UpdateOver
    PROVE  ConsoleInv'
  <1>1. Frame' /\ UNCHANGED Looked /\ run' = run
    BY KeptIs DEF UpdateCheck, UpdateInstall, UpdateOver, RunKept
  <1>2. CASE UpdateCheck
    <2>1. ask = None /\ pc \in Before \ {"off"}
      BY <1>2 DEF UpdateCheck, At, Before
    <2>2. CASE pc' = "welcome" /\ ask' = None
      BY <1>1, <2>1, <2>2, GoesBefore DEF Before
    <2>3. CASE pc' = pc /\ ask' = Question("update", {}, "install", "welcome")
      <3>1. "install" \in Before /\ "welcome" \in Before
        BY DEF Before
      <3> QED
        BY <1>1, <2>1, <2>3, <3>1, AsksBefore
    <2> QED
      BY <1>2, <2>2, <2>3 DEF UpdateCheck, Goto, Put
  <1>3. CASE UpdateInstall
    <2>1. ask = None /\ pc \in Before
      BY <1>3 DEF UpdateInstall, At, Before
    <2>2. \E there \in Before : pc' = there /\ ask' = None
      BY <1>3 DEF UpdateInstall, Goto, Before
    <2> QED
      BY <1>1, <2>1, <2>2, GoesBefore
  <1>4. CASE UpdateOver
    <2>1. ask = None /\ pc \in Before \ {"off"}
      BY <1>4 DEF UpdateOver, At, Before
    <2>2. \E then \in Before \cup {"exit"} : ask' = Message(then) /\ pc' = pc
      BY <1>4 DEF UpdateOver, Put, Before
    <2> QED
      BY <1>1, <2>1, <2>2, SaysBefore
  <1> QED
    BY <1>2, <1>3, <1>4

\* The welcome, with the pairing it offers.
LEMMA Welcomes ==
    ASSUME ConsoleInv,
           Welcome \/ WelcomeChoose \/ (\E paired \in BOOLEAN : WelcomePair(paired)) \/ Welcomed
    PROVE  ConsoleInv'
  <1>1. run' = run /\ UNCHANGED Looked
    BY DEF Welcome, WelcomeChoose, WelcomePair, Welcomed, RunKept, LibrariesKept, BootKept,
           CardKept, Looked
  <1>2. config' \in [autosync: BOOLEAN, can_sync: BOOLEAN, welcomed: BOOLEAN]
    BY DEF Welcome, WelcomeChoose, WelcomePair, Welcomed, CardKept, ConsoleInv, TypeOK
  <1>3. UNCHANGED <<boot, lib, closing, backend, shown, chosen, report>>
    BY DEF Welcome, WelcomeChoose, WelcomePair, Welcomed, LibrariesKept, BootKept, CardKept
  <1>4. Frame'
    BY <1>2, <1>3, FrameIs DEF ConsoleInv, Frame
  <1>5. ask = None /\ pc \in Before \ {"off"}
    BY DEF Welcome, WelcomeChoose, WelcomePair, Welcomed, At, Before
  <1>6. {"connect", "pairing", "welcomed", "autosync"} \subseteq Before
    BY DEF Before
  <1>7. CASE Welcome
    <2>1. CASE pc' = "autosync" /\ ask' = None
      BY <1>1, <1>4, <1>5, <1>6, <2>1, GoesBefore
    <2>2. CASE pc' = pc /\ ask' = Question("intro", {}, "connect", "welcomed")
      BY <1>1, <1>4, <1>5, <1>6, <2>2, AsksBefore
    <2> QED
      BY <1>7, <2>1, <2>2 DEF Welcome, Goto, Put
  <1>8. CASE WelcomeChoose
    <2>1. pc' = pc /\ ask' = Question("connect", {}, "pairing", "welcomed")
      BY <1>8 DEF WelcomeChoose, Put
    <2> QED
      BY <1>1, <1>4, <1>5, <1>6, <2>1, AsksBefore
  <1>9. CASE \E paired \in BOOLEAN : WelcomePair(paired)
    <2>1. ask' = None /\ pc' \in {"welcomed", "connect"}
      BY <1>9 DEF WelcomePair, Goto
    <2>2. PICK there : there = pc'
      OBVIOUS
    <2> QED
      BY <1>1, <1>4, <1>5, <1>6, <2>1, <2>2, GoesBefore
  <1>10. CASE Welcomed
    <2>1. pc' = pc /\ ask' = Message("autosync")
      BY <1>10 DEF Welcomed, Put
    <2> QED
      BY <1>1, <1>4, <1>5, <1>6, <2>1, SaysBefore
  <1> QED
    BY <1>7, <1>8, <1>9, <1>10

-----------------------------------------------------------------------------
(***************************************************************************)
(* The sync on the way to HOME, but for its titles; the grid.              *)
(***************************************************************************)

\* main is at a place that is ready for the run that is on.
LEMMA ReadyHere ==
    ASSUME ConsoleInv, NEW here, At(here)
    PROVE  Ready(here, run) /\ ask = None /\ pc = here
  BY DEF ConsoleInv, Stands, At

\* The run on the way to HOME, at any of its tries.
LEMMA OptsAre ==
    /\ AutosyncOpts \in Runs /\ AutosyncOpts.kind = "autosync" /\ AutosyncOpts.tries = 0
    /\ \A n \in 0 .. MaxTries :
          LET r == [AutosyncOpts EXCEPT !.tries = n]
          IN /\ r \in Runs /\ r.tries = n /\ r.kind = "autosync" /\ r.confirmed /\ r.i = 1
             /\ r.op = "sync" /\ r.policy = "defer" /\ ~r.stopped /\ r.lib = "3ds"
             /\ r.base = {"upload", "restore"}
  <1>1. AutosyncOpts \in Runs /\ AutosyncOpts.tries = 0
    BY IdleIs DEF AutosyncOpts, Runs, Idle, Policies, Grants
  <1>2. ASSUME NEW n \in 0 .. MaxTries
        PROVE  LET r == [AutosyncOpts EXCEPT !.tries = n]
               IN /\ r \in Runs /\ r.tries = n /\ r.kind = "autosync" /\ r.confirmed /\ r.i = 1
                  /\ r.op = "sync" /\ r.policy = "defer" /\ ~r.stopped /\ r.lib = "3ds"
                  /\ r.base = {"upload", "restore"}
    BY <1>1, <1>2 DEF AutosyncOpts, Runs, Idle
  <1> QED
    BY <1>1, <1>2 DEF AutosyncOpts, Idle

\* A run on its way that has worked nothing.
LEMMA Fresh ==
    ASSUME NEW r, r.lib = "3ds", r.i = 1, worked = <<>>
    PROVE  SoFar(r)
  <1>1. Done = {}
    BY DEF Done
  <1> QED
    BY <1>1 DEF SoFar

\* The grace period: the launch goes on, or the sync begins with nothing worked.
LEMMA Autosyncs == ASSUME ConsoleInv, Autosync PROVE ConsoleInv'
  <1> USE DEF Autosync
  <1>1. Frame' /\ UNCHANGED Looked
    BY KeptIs
  <1>2. ask = None /\ pc \in Before /\ Nothing(run) /\ chosen = "3ds"
    BY BeforeIs DEF At, Before
  <1>3. CASE Goto("listing") /\ run' = run
    BY <1>1, <1>2, <1>3, GoesBefore DEF Goto, Before
  <1>4. CASE Goto("network") /\ run' = AutosyncOpts
    <2>1. Ready("network", AutosyncOpts)
      <3>1. AutosyncOpts = [AutosyncOpts EXCEPT !.tries = AutosyncOpts.tries]
        BY OptsAre DEF Runs
      <3> QED
        BY <1>2, <3>1, OptsAre, ConsoleBounds DEF Ready, Before, Titled, Nothing
    <2> QED
      BY <1>1, <1>2, <1>4, <2>1, OptsAre, GoesTo DEF Goto, PCs, Nothing
  <1> QED
    BY <1>3, <1>4

\* The network is there, or not yet, or is given up.
LEMMA Probes == ASSUME ConsoleInv, NetworkProbe PROVE ConsoleInv'
  <1> USE DEF NetworkProbe
  <1>1. Frame' /\ UNCHANGED <<worked, backend, shown, chosen, report, closing>>
    BY FrameIs DEF ConsoleInv, LibrariesKept, BootKept, CardKept, Frame
  <1>2. Ready("network", run)
    BY ReadyHere
  <1>3. /\ run = [AutosyncOpts EXCEPT !.tries = run.tries] /\ run.tries < MaxTries
        /\ worked = <<>> /\ tally = Zeroed
    BY <1>2 DEF Ready
  <1>4. run \in Runs /\ run.tries \in 0 .. MaxTries /\ MaxTries \in Nat
    BY RunIs, ConsoleBounds DEF Runs
  <1>5. /\ run.kind = "autosync" /\ run.confirmed /\ run.i = 1 /\ run.op = "sync"
        /\ run.policy = "defer" /\ ~run.stopped /\ run.lib = "3ds"
        /\ run.base = {"upload", "restore"}
    <2>1. PICK n : n = run.tries
      OBVIOUS
    <2>2. PICK r : r = [AutosyncOpts EXCEPT !.tries = n]
      OBVIOUS
    <2>3. /\ r.kind = "autosync" /\ r.confirmed /\ r.i = 1 /\ r.op = "sync" /\ r.policy = "defer"
          /\ ~r.stopped /\ r.lib = "3ds" /\ r.base = {"upload", "restore"}
      BY <1>4, <2>1, <2>2, OptsAre
    <2>4. r = run
      BY <1>3, <2>1, <2>2
    <2> QED
      BY <2>3, <2>4
  <1>6. ASSUME NEW r, r.kind = "autosync", ~tally'.network
        PROVE  Ready("write", r)'
    BY <1>6 DEF Ready, Before, Titled
  <1>7. tally' = tally => ~tally'.network
    BY <1>3 DEF Zeroed
  <1>8. CASE Goto("write") /\ UNCHANGED <<run, tally>>
    BY <1>1, <1>4, <1>5, <1>6, <1>7, <1>8, GoesOn DEF Goto, PCs
  <1>9. CASE Goto("count") /\ tally' = [tally EXCEPT !.network = TRUE] /\ run' = run
    <2>1. OnTheWay(run)
      BY <1>3, <1>5, Fresh DEF OnTheWay, Unattended, Covers
    <2>2. Ready("count", run)'
      <3>1. OnTheWay(run)'
        BY <1>1, <1>9, <2>1 DEF OnTheWay, Unattended, Covers, SoFar, Done, Title
      <3>2. run' = run
        BY <1>9
      <3>3. ASSUME NEW r, r.kind = "autosync", OnTheWay(r)', r.i = 1
            PROVE  Ready("count", r)'
        BY <3>3 DEF Ready, Before, Titled
      <3> QED
        BY <1>5, <3>1, <3>2, <3>3
    <2>3. PICK r : r = run
      OBVIOUS
    <2>4. Ready("count", r)'
      BY <1>9, <2>2, <2>3
    <2> QED
      BY <1>1, <1>4, <1>5, <1>9, <2>3, <2>4, GoesOn DEF Goto, PCs
  <1>10. CASE /\ run' = [run EXCEPT !.tries = @ + 1] /\ tally' = tally
              /\ Goto(IF run.tries + 1 < MaxTries THEN "network" ELSE "write")
    <2>1. PICK r : r = [AutosyncOpts EXCEPT !.tries = run.tries + 1]
      OBVIOUS
    <2>2. run.tries + 1 \in 0 .. MaxTries
      BY <1>3, <1>4
    <2>3. r \in Runs /\ r.tries = run.tries + 1 /\ r.kind = "autosync"
      BY <2>1, <2>2, OptsAre
    <2>4. run' = r
      BY <1>3, <1>4, <1>10, <2>1 DEF Runs
    <2>5. CASE run.tries + 1 < MaxTries
      <3>1. Ready("network", r)'
        BY <1>1, <1>3, <1>10, <2>1, <2>3, <2>5 DEF Ready, Before, Titled
      <3> QED
        BY <1>1, <1>5, <1>10, <2>3, <2>4, <2>5, <3>1, GoesOn DEF Goto, PCs
    <2>6. CASE ~(run.tries + 1 < MaxTries)
      <3>1. Ready("write", r)'
        BY <1>6, <1>7, <1>10, <2>3
      <3> QED
        BY <1>1, <1>5, <1>10, <2>3, <2>4, <2>6, <3>1, GoesOn DEF Goto, PCs
    <2> QED
      BY <2>5, <2>6
  <1> QED
    BY <1>8, <1>9, <1>10

\* What autosync.txt would say is something it can say.
LEMMA ReportIs == ConsoleInv => ReportText \in Texts
  <1> SUFFICES ASSUME tally \in Counters PROVE ReportText \in Texts
    BY DEF ConsoleInv, TypeOK, Counters
  <1>1. tally.sync_failed + tally.failed \in Nat
    BY DEF Counters
  <1> QED
    BY <1>1 DEF ReportText, Texts, Counters

\* The report is opened, and written, or the card refuses it.
LEMMA Reports == ASSUME ConsoleInv, OpenReport \/ WriteReport PROVE ConsoleInv'
  <1>1. /\ UNCHANGED <<worked, tally, backend, shown, chosen, closing, lib, boot, config>>
        /\ ask' = None
    BY DEF OpenReport, WriteReport, LibrariesKept, BootKept, Goto
  <1>2. pc \in {"write", "written"} /\ Ready(pc, run)
    BY ReadyHere DEF OpenReport, WriteReport, At
  <1>3. run.kind = "autosync" /\ run \in Runs
    BY <1>2, RunIs DEF Ready
  <1>4. /\ run' \in Runs /\ run'.kind = "autosync"
        /\ run' = run \/ run'.refused
    BY <1>3 DEF OpenReport, WriteReport, Runs
  <1>5. ReportText' = ReportText
    BY <1>1 DEF ReportText
  <1>6. \/ pc' = "written" /\ report' = [fresh |-> TRUE, text |-> None]
        \/ pc' = "linger" /\ run'.refused /\ report' = report
        \/ pc' = "linger" /\ report' = [fresh |-> TRUE, text |-> ReportText]
    <2>1. CASE OpenReport
      BY <1>3, <2>1 DEF OpenReport, Goto, Runs
    <2>2. CASE WriteReport
      <3>1. report = [fresh |-> TRUE, text |-> None] /\ pc' = "linger"
        BY <1>2, <2>2 DEF WriteReport, At, Ready, Goto
      <3> QED
        BY <1>3, <2>2, <3>1 DEF WriteReport, Runs
    <2> QED
      BY <2>1, <2>2
  <1>7. Frame'
    <2>1. report' = None \/ report' \in [fresh: BOOLEAN, text: Texts \cup {None}]
      <3>1. \A text \in Texts \cup {None} :
               [fresh |-> TRUE, text |-> text] \in [fresh: BOOLEAN, text: Texts \cup {None}]
        OBVIOUS
      <3>2. report = None \/ report \in [fresh: BOOLEAN, text: Texts \cup {None}]
        BY DEF ConsoleInv, TypeOK
      <3> QED
        BY <1>6, <3>1, <3>2, ReportIs
    <2> QED
      BY <1>1, <2>1, FrameIs DEF ConsoleInv, Frame
  <1>8. PICK r : r = run'
    OBVIOUS
  <1>9. r \in Runs /\ r.kind = "autosync" /\ run' = r
    BY <1>4, <1>8
  <1>10. CASE pc' = "written" /\ report' = [fresh |-> TRUE, text |-> None]
    <2>1. Ready("written", r)'
      BY <1>9, <1>10 DEF Ready, Before, Titled
    <2> QED
      BY <1>1, <1>3, <1>7, <1>9, <1>10, <2>1, GoesOn DEF PCs
  <1>11. CASE pc' = "linger"
    <2>1. r.refused \/ report' = [fresh |-> TRUE, text |-> ReportText']
      BY <1>5, <1>6, <1>9, <1>11
    <2>2. Ready("linger", r)'
      BY <1>9, <2>1 DEF Ready, Before, Titled
    <2> QED
      BY <1>1, <1>3, <1>7, <1>9, <1>11, <2>2, GoesOn DEF PCs
  <1> QED
    BY <1>6, <1>10, <1>11

\* The library that is shown has its backend under it.
LEMMA ShownIs ==
    ASSUME ConsoleInv, NEW l \in Library,
           ShowLibrary(l) \/ (ReloadLibrary(l) /\ l = shown)
    PROVE  /\ shown' = l /\ backend' = l
           /\ lib' \in [Library -> [loaded: BOOLEAN, count: Nat]]
  <1>1. \A listing \in Listings(l) : listing \in [loaded: BOOLEAN, count: Nat]
    <2>1. Sizes[l] \subseteq Nat /\ Empty[l] = [loaded |-> FALSE, count |-> 0]
      BY ConsoleBounds DEF Empty
    <2>2. \A listing \in [loaded: {TRUE}, count: Sizes[l]] :
             listing \in [loaded: BOOLEAN, count: Nat]
      BY <2>1
    <2>3. [loaded |-> FALSE, count |-> 0] \in [loaded: BOOLEAN, count: Nat]
      OBVIOUS
    <2> QED
      BY <2>1, <2>2, <2>3 DEF Listings
  <1>2. lib \in [Library -> [loaded: BOOLEAN, count: Nat]]
    BY DEF ConsoleInv, TypeOK
  <1> QED
    BY <1>1, <1>2 DEF ShowLibrary, ReloadLibrary

\* The first library is listed, and the launch is over or the grid opens.
LEMMA Lists == ASSUME ConsoleInv, Listing \/ Listed PROVE ConsoleInv'
  <1>1. CASE Listing
    <2>1. shown' = "3ds" /\ backend' = "3ds" /\ lib' \in [Library -> [loaded: BOOLEAN, count: Nat]]
      BY <1>1, ShownIs DEF Listing, Library
    <2>2. run' = run /\ UNCHANGED <<tally, worked, chosen, closing, boot, config, report>>
      BY <1>1 DEF Listing, RunKept, BootKept, CardKept
    <2>3. Frame'
      BY <2>1, <2>2 DEF ConsoleInv, TypeOK, Frame, Library
    <2>4. Nothing(run) /\ chosen = "3ds" /\ pc = "listing" /\ ask = None
      BY <1>1, BeforeIs DEF Listing, At, Before
    <2>5. Ready("listed", run)'
      <3>1. Home' /\ worked' = <<>> /\ tally' = Zeroed /\ run' = Idle
        BY <2>1, <2>2, <2>4 DEF Home, Nothing
      <3> QED
        BY <3>1 DEF Ready, Before, Titled, Nothing
    <2>6. PICK r : r = run
      OBVIOUS
    <2>7. Ready("listed", r)' /\ r \in Runs /\ run' = r /\ r.kind = "none"
      BY <2>2, <2>4, <2>5, <2>6, RunIs, IdleIs DEF Nothing
    <2>8. CASE pc' = "listed" /\ ask' = None
      BY <2>2, <2>3, <2>7, <2>8, GoesOn DEF PCs
    <2>9. CASE pc' = pc /\ ask' = Message("listed")
      <3>1. PICK q : q = Message("listed")
        OBVIOUS
      <3>2. q \in Screens /\ q.yes = "listed" /\ q.no = "listed" /\ Granting(r, q.grants) = r
        BY <2>7, <3>1, MessageIs DEF PCs
      <3> QED
        BY <2>2, <2>3, <2>4, <2>7, <2>9, <3>1, <3>2, PutsUp
    <2> QED
      BY <1>1, <2>8, <2>9 DEF Listing, Goto, Put
  <1>2. CASE Listed
    <2> USE DEF Listed
    <2>1. UNCHANGED Looked /\ run' = run /\ ask' = None /\ pc' \in {"exit", "grid"}
      BY <1>2 DEF LibrariesKept, RunKept, CardKept, Looked, Goto
    <2>2. Frame'
      BY <1>2 DEF ConsoleInv, TypeOK, Frame, LibrariesKept, CardKept
    <2>3. Ready("listed", run)
      BY <1>2, ReadyHere
    <2>4. Nothing(run) /\ Home
      BY <2>3 DEF Ready
    <2>5. Ready("grid", run) /\ Ready("exit", run)
      BY <2>4, BeforeIs DEF Ready, Before, Titled
    <2> HIDE DEF Listed
    <2> QED
      BY <2>1, <2>2, <2>5, RunIs, GoesTo DEF PCs
  <1> QED
    BY <1>1, <1>2

\* At the grid nothing is on.
LEMMA GridIs == ASSUME ConsoleInv, At("grid") PROVE Nothing(run) /\ Home /\ run.kind = "none"
  <1>1. Ready("grid", run)
    BY ReadyHere
  <1> QED
    BY <1>1, IdleIs DEF Ready, Nothing

\* The countdown and the grid end in the way out.
LEMMA Leaves == ASSUME ConsoleInv, Linger \/ LeaveGrid PROVE ConsoleInv'
  <1>1. Frame' /\ UNCHANGED Looked /\ run' = run /\ pc' = "exit" /\ ask' = None
    BY KeptIs DEF Linger, LeaveGrid, RunKept, Goto
  <1> QED
    BY <1>1, BeforeIs, RunIs, GoesTo DEF PCs

\* The other library, or the settings: the grid stands where it was turned to.
LEMMA Turns == ASSUME ConsoleInv, Turn \/ Settings PROVE ConsoleInv'
  <1>1. At("grid") /\ pc' = pc /\ ask' = ask /\ run' = run
    BY DEF Turn, Settings, AtGrid, RunKept
  <1>2. Nothing(run) /\ Home /\ ask = None /\ pc = "grid" /\ run.kind = "none"
    BY <1>1, GridIs, ReadyHere
  <1>3. shown \in Library /\ chosen = shown /\ Other(shown) \in Library
    BY <1>2 DEF Other, Library, Home, ConsoleInv, TypeOK
  <1>4. UNCHANGED <<tally, worked, closing, boot, report>>
    BY DEF Turn, Settings, RunKept, BootKept, CardKept
  <1>5. Home' /\ Frame'
    <2>1. CASE Turn
      <3>1. shown' = Other(shown) /\ backend' = Other(shown) /\ chosen' = Other(shown)
            /\ lib' \in [Library -> [loaded: BOOLEAN, count: Nat]]
        BY <1>3, <2>1, ShownIs DEF Turn
      <3>2. config' = config
        BY <2>1 DEF Turn, CardKept
      <3> QED
        BY <1>3, <1>4, <3>1, <3>2 DEF Home, ConsoleInv, TypeOK, Frame
    <2>2. CASE Settings
      <3>1. UNCHANGED <<backend, shown, chosen, lib>>
        BY <2>2 DEF Settings, LibrariesKept
      <3>2. config' \in [autosync: BOOLEAN, can_sync: BOOLEAN, welcomed: BOOLEAN]
        BY <2>2 DEF Settings, ConsoleInv, TypeOK
      <3> QED
        BY <1>2, <1>4, <3>1, <3>2 DEF Home, ConsoleInv, TypeOK, Frame
    <2> QED
      BY <2>1, <2>2
  <1>6. PICK r : r = run
    OBVIOUS
  <1>7. Ready("grid", r)'
    <2>1. r = Idle /\ worked' = <<>> /\ tally' = Zeroed
      BY <1>2, <1>4, <1>6 DEF Nothing
    <2> QED
      BY <1>5, <2>1 DEF Ready, Before, Titled, Nothing
  <1> QED
    BY <1>1, <1>2, <1>4, <1>5, <1>6, <1>7, RunIs, GoesOn DEF PCs

-----------------------------------------------------------------------------
(***************************************************************************)
(* The title in hand, until it is worked.                                  *)
(***************************************************************************)

\* Where main may be with a title in hand it is ready for the whole of Titled's part.
LEMMA HandIs ==
    ASSUME NEW r \in Runs, InHand(r)
    PROVE  /\ r.kind \in {"one", "autosync", "batch"}
           /\ r.kind = "autosync" => r.confirmed /\ r.policy = "defer" /\ r.op = "sync"
           /\ r.kind = "one" => Home /\ worked = <<>>
           /\ r.confirmed \/ r.policy \in {"local", "server"} =>
                 r.op # "restore" /\ Covers(r, r.grants)
  BY DEF InHand, OnTheWay, Unattended, Covers, Runs

\* Nothing that is found or granted takes the title out of hand.
LEMMA StillInHand ==
    ASSUME NEW r \in Runs, InHand(r)
    PROVE  /\ \A at \in Findings :
                 LET s == [r EXCEPT !.at = at]
                 IN /\ InHand(s) /\ s \in Runs /\ s.at = at /\ s.op = r.op /\ s.kind = r.kind
                    /\ s.grants = r.grants /\ s.confirmed = r.confirmed /\ s.policy = r.policy
           /\ \A grants \in SUBSET Grants : InHand(Granting(r, grants))
  <1>1. ASSUME NEW s \in Runs, r.grants \subseteq s.grants,
               s.kind = r.kind, s.op = r.op, s.policy = r.policy, s.confirmed = r.confirmed,
               s.counts = r.counts, s.lib = r.lib, s.i = r.i, s.base = r.base, s.was = r.was,
               s.stopped = r.stopped
        PROVE  InHand(s)
    BY <1>1 DEF InHand, OnTheWay, Unattended, Covers, SoFar
  <1>2. ASSUME NEW at \in Findings
        PROVE  LET s == [r EXCEPT !.at = at]
               IN /\ InHand(s) /\ s \in Runs /\ s.at = at /\ s.op = r.op /\ s.kind = r.kind
                  /\ s.grants = r.grants /\ s.confirmed = r.confirmed /\ s.policy = r.policy
    <2>1. PICK s : s = [r EXCEPT !.at = at]
      OBVIOUS
    <2>2. s \in Runs /\ s.at = at /\ s.grants = r.grants
          /\ s.kind = r.kind /\ s.op = r.op /\ s.policy = r.policy /\ s.confirmed = r.confirmed
          /\ s.counts = r.counts /\ s.lib = r.lib /\ s.i = r.i /\ s.base = r.base
          /\ s.was = r.was /\ s.stopped = r.stopped
      BY <2>1 DEF Runs
    <2>3. InHand(s)
      BY <1>1, <2>2
    <2> QED
      BY <2>1, <2>2, <2>3
  <1>3. ASSUME NEW grants \in SUBSET Grants
        PROVE  InHand(Granting(r, grants))
    <2>1. PICK s : s = Granting(r, grants)
      OBVIOUS
    <2>2. s \in Runs /\ r.grants \subseteq s.grants
          /\ s.kind = r.kind /\ s.op = r.op /\ s.policy = r.policy /\ s.confirmed = r.confirmed
          /\ s.counts = r.counts /\ s.lib = r.lib /\ s.i = r.i /\ s.base = r.base
          /\ s.was = r.was /\ s.stopped = r.stopped
      BY <2>1, GrantingIs
    <2> QED
      BY <1>1, <2>1, <2>2
  <1> QED
    BY <1>2, <1>3

\* What a place asks of a run whose title is in hand.
LEMMA TitledReady ==
    ASSUME NEW r \in Runs, InHand(r)
    PROVE  /\ \A there \in {"noticed", "cancelled", "deferred"} : Ready(there, r)
           /\ ~r.confirmed => Ready("declined", r)
           /\ r.op # "backup" /\ SidePicked(r) =>
                 /\ \A there \in {"download", "consent"} : Ready(there, r)
                 /\ "restore" \in r.grants =>
                       \A there \in {"restore", "restored"} : Ready(there, r)
                 /\ r.at = "upload" /\ "upload" \in r.grants => Ready("upload", r)
                 /\ r.at \in {"conflict", "raced"} => Ready("upload", r) /\ Ready("side", r)
           /\ r.op # "backup" /\ r.at = "none" /\ r.kind = "one" =>
                 \A there \in {"pick", "picked", "delete"} : Ready(there, r)
           /\ r.op = "backup" /\ "backup" \in r.grants => Ready("backup", r)
           /\ r.op # "restore" /\ r.at = "none" /\ (r.op = "backup" => r.confirmed) =>
                 Ready("title", r)
           /\ r.kind = "one" => Ready("back", r)
  <1>1. InHand(r) /\ (r.kind = "one" => Home)
    BY HandIs
  <1>2. \A there \in {"noticed", "cancelled", "deferred"} : Ready(there, r)
    BY <1>1 DEF Ready, Before, Titled
  <1>3. ~r.confirmed => Ready("declined", r)
    BY <1>1 DEF Ready, Before, Titled
  <1>4. ASSUME r.op # "backup", SidePicked(r)
        PROVE  /\ \A there \in {"download", "consent"} : Ready(there, r)
               /\ "restore" \in r.grants =>
                     \A there \in {"restore", "restored"} : Ready(there, r)
               /\ r.at = "upload" /\ "upload" \in r.grants => Ready("upload", r)
               /\ r.at \in {"conflict", "raced"} => Ready("upload", r) /\ Ready("side", r)
    BY <1>1, <1>4 DEF Ready, Before, Titled, SidePicked
  <1>5. r.op # "backup" /\ r.at = "none" /\ r.kind = "one" =>
           \A there \in {"pick", "picked", "delete"} : Ready(there, r)
    BY <1>1 DEF Ready, Before, Titled
  <1>6. /\ r.op = "backup" /\ "backup" \in r.grants => Ready("backup", r)
        /\ r.op # "restore" /\ r.at = "none" /\ (r.op = "backup" => r.confirmed) =>
              Ready("title", r)
        /\ r.kind = "one" => Ready("back", r)
    BY <1>1 DEF Ready, Before, Titled
  <1> QED
    BY <1>2, <1>3, <1>4, <1>5, <1>6

\* main stands at a title: it is in hand, and what Ready says of the place holds of the run.
LEMMA AtTitle ==
    ASSUME ConsoleInv, NEW here \in Titled, At(here)
    PROVE  /\ run \in Runs /\ InHand(run) /\ Ready(here, run) /\ ask = None
           /\ pc = here /\ pc \notin {"off", "linger"}
  BY ReadyHere, RunIs DEF Ready, Titled

\* A step that goes on with the title that is in hand as it was.
LEMMA Passes ==
    ASSUME ConsoleInv, InTitle, NEW there \in PCs, Pass(there), Ready(there, run)
    PROVE  ConsoleInv'
  <1>1. PICK r : r = run
    OBVIOUS
  <1> QED
    BY <1>1, InTitleIs, RunIs, GoesTo DEF Pass, Goto

\* A message goes up with the title still in hand.
LEMMA SaysInTitle ==
    ASSUME ConsoleInv, InTitle, pc \notin {"off", "linger"}, NEW then \in PCs,
           Ask(Message(then)), Ready(then, run)
    PROVE  ConsoleInv'
  <1>1. PICK r : r = run
    OBVIOUS
  <1> QED
    BY <1>1, InTitleIs, RunIs, Says DEF Ask, Put

\* A conflict: the policy picks a side, or the person is asked.
LEMMA Resolves ==
    ASSUME ConsoleInv, InTitle, NEW at \in {"conflict", "raced"}, Resolve(at),
           NEW here \in {"title", "upload"}, At(here), run.op # "backup"
    PROVE  ConsoleInv'
  <1>1. run \in Runs /\ InHand(run) /\ ask = None /\ pc \notin {"off", "linger"}
    BY AtTitle DEF Titled
  <1>2. at \in Findings
    BY DEF Findings
  <1>3. PICK r : r = [run EXCEPT !.at = at]
    OBVIOUS
  <1>4. /\ r \in Runs /\ InHand(r) /\ r.at = at /\ r.op = run.op /\ r.policy = run.policy
        /\ r.kind = run.kind
    BY <1>1, <1>2, <1>3, StillInHand
  <1>5. r.policy \in Policies /\ (r.op # "restore" => r.op = "sync")
    BY <1>4 DEF Runs, Ops
  <1>6. run' = r /\ Frame' /\ UNCHANGED Looked
    BY <1>3, InTitleIs DEF Resolve
  <1>7. CASE r.policy = "ask"
    <2>1. r.kind # "autosync"
      BY <1>4, <1>7, HandIs
    <2>2. PICK q : q = Question("conflict", {"conflict"}, "side", "deferred")
      OBVIOUS
    <2>3. /\ q \in Screens /\ q.yes = "side" /\ q.no = "deferred" /\ q.grants = {"conflict"}
          /\ q.grants \in SUBSET Grants
      BY <2>2 DEF Question, Screens, Grants, PCs
    <2>4. PICK s : s = Granting(r, q.grants)
      OBVIOUS
    <2>5. s \in Runs /\ InHand(s) /\ s.at = at /\ s.op = r.op /\ "conflict" \in s.grants
      BY <1>4, <2>3, <2>4, GrantingIs, StillInHand
    <2>6. Ready("side", s)
      BY <1>4, <2>5, TitledReady DEF SidePicked
    <2>7. Ready("deferred", r)
      BY <1>4, TitledReady
    <2>8. pc' = pc /\ ask' = q
      BY <1>4, <1>7, <2>2 DEF Resolve, Put
    <2> QED
      BY <1>1, <1>4, <1>6, <2>1, <2>3, <2>4, <2>6, <2>7, <2>8, Questions
  <1>8. CASE r.policy \in {"local", "server"}
    <2>1. r.op = "sync" /\ Covers(r, r.grants)
      BY <1>4, <1>5, <1>8, HandIs
    <2>2. SidePicked(r)
      BY <1>8, <2>1 DEF SidePicked, Covers
    <2>3. Ready("upload", r) /\ Ready("download", r)
      BY <1>4, <2>1, <2>2, TitledReady
    <2>4. ask' = None /\ pc' = IF r.policy = "local" THEN "upload" ELSE "download"
      BY <1>4, <1>8 DEF Resolve, Goto
    <2> QED
      BY <1>4, <1>6, <2>3, <2>4, GoesTo DEF PCs
  <1>9. CASE r.policy = "defer"
    <2>1. Ready("deferred", r)
      BY <1>4, TitledReady
    <2>2. ask' = None /\ pc' = "deferred"
      BY <1>4, <1>9 DEF Resolve, Goto
    <2> QED
      BY <1>4, <1>6, <2>1, <2>2, GoesTo DEF PCs
  <1> QED
    BY <1>5, <1>7, <1>8, <1>9 DEF Policies

\* Core finds something to upload.
LEMMA FindsUpload ==
    ASSUME ConsoleInv, At("title"), run.op = "sync", InTitle, run' = [run EXCEPT !.at = "upload"],
           IF run.confirmed THEN Goto("upload")
           ELSE Put(Question("upload", {"upload"}, "upload", "declined"))
    PROVE  ConsoleInv'
  <1>1. run \in Runs /\ InHand(run) /\ ask = None /\ pc \notin {"off", "linger"}
    BY AtTitle DEF Titled
  <1>2. PICK r : r = [run EXCEPT !.at = "upload"]
    OBVIOUS
  <1>3. /\ r \in Runs /\ InHand(r) /\ r.at = "upload" /\ r.op = "sync" /\ r.kind = run.kind
        /\ r.confirmed = run.confirmed
    BY <1>1, <1>2, StillInHand DEF Findings
  <1>4. run' = r /\ Frame' /\ UNCHANGED Looked /\ SidePicked(r)
    BY <1>2, <1>3, InTitleIs DEF SidePicked
  <1>5. CASE run.confirmed
    <2>1. "upload" \in r.grants
      BY <1>3, <1>5, HandIs DEF Covers
    <2>2. Ready("upload", r)
      BY <1>3, <1>4, <2>1, TitledReady
    <2>3. ask' = None /\ pc' = "upload"
      BY <1>5 DEF Goto
    <2> QED
      BY <1>3, <1>4, <2>2, <2>3, GoesTo DEF PCs
  <1>6. CASE ~run.confirmed
    <2>1. r.kind # "autosync"
      BY <1>3, <1>6, HandIs
    <2>2. PICK q : q = Question("upload", {"upload"}, "upload", "declined")
      OBVIOUS
    <2>3. /\ q \in Screens /\ q.yes = "upload" /\ q.no = "declined" /\ q.grants = {"upload"}
          /\ q.grants \in SUBSET Grants
      BY <2>2 DEF Question, Screens, Grants, PCs
    <2>4. PICK s : s = Granting(r, q.grants)
      OBVIOUS
    <2>5. s \in Runs /\ InHand(s) /\ s.at = "upload" /\ s.op = "sync" /\ "upload" \in s.grants
      BY <1>3, <2>3, <2>4, GrantingIs, StillInHand
    <2>6. Ready("upload", s)
      BY <2>5, TitledReady DEF SidePicked
    <2>7. Ready("declined", r)
      BY <1>3, <1>6, TitledReady
    <2>8. pc' = pc /\ ask' = q
      BY <1>6, <2>2 DEF Put
    <2>9. Ready(q.yes, Granting(r, q.grants)) /\ Ready(q.no, r)
      BY <2>3, <2>4, <2>6, <2>7
    <2> QED
      BY <1>1, <1>3, <1>4, <2>1, <2>3, <2>8, <2>9, Questions
  <1> QED
    BY <1>5, <1>6

\* Core finds something to download.
LEMMA FindsDownload ==
    ASSUME ConsoleInv, At("title"), run.op = "sync", InTitle,
           run' = [run EXCEPT !.at = "download"], Goto("download")
    PROVE  ConsoleInv'
  <1>1. run \in Runs /\ InHand(run)
    BY AtTitle DEF Titled
  <1>2. PICK r : r = [run EXCEPT !.at = "download"]
    OBVIOUS
  <1>3. r \in Runs /\ InHand(r) /\ r.at = "download" /\ r.op = "sync" /\ r.kind = run.kind
    BY <1>1, <1>2, StillInHand DEF Findings
  <1>4. Ready("download", r)
    BY <1>3, TitledReady DEF SidePicked
  <1> QED
    BY <1>2, <1>3, <1>4, InTitleIs, GoesTo DEF Goto, PCs

\* The side of a conflict is picked.
LEMMA ChoosesSide == ASSUME ConsoleInv, ChooseSide PROVE ConsoleInv'
  <1>1. At("side") /\ InTitle /\ \E side \in {"upload", "download", "deferred"} : Pass(side)
    BY DEF ChooseSide
  <1>2. run \in Runs /\ InHand(run) /\ Ready("side", run)
    BY <1>1, AtTitle DEF Titled
  <1>3. run.op # "backup" /\ SidePicked(run) /\ run.at \in {"conflict", "raced"}
    BY <1>2 DEF Ready, SidePicked
  <1>4. \A side \in {"upload", "download", "deferred"} : Ready(side, run) /\ side \in PCs
    BY <1>2, <1>3, TitledReady DEF PCs
  <1> QED
    BY <1>1, <1>4, Passes

\* The package is on its way, and a secure value is said first.
LEMMA Downloads ==
    ASSUME ConsoleInv, At("download"), InTitle,
           Ask(Message("noticed")) \/ Pass("consent") \/ Ask(Message("consent"))
    PROVE  ConsoleInv'
  <1>1. run \in Runs /\ InHand(run) /\ Ready("download", run) /\ pc \notin {"off", "linger"}
    BY AtTitle DEF Titled
  <1>2. run.op # "backup" /\ SidePicked(run)
    BY <1>1 DEF Ready
  <1>3. Ready("noticed", run) /\ Ready("consent", run) /\ "noticed" \in PCs /\ "consent" \in PCs
    BY <1>1, <1>2, TitledReady DEF PCs
  <1> QED
    BY <1>1, <1>3, Passes, SaysInTitle

\* A restore is asked for, unless the run was confirmed for it.
LEMMA Consents == ASSUME ConsoleInv, Consent PROVE ConsoleInv'
  <1>1. At("consent") /\ InTitle
    BY DEF Consent
  <1>2. run \in Runs /\ InHand(run) /\ Ready("consent", run) /\ pc \notin {"off", "linger"}
    BY <1>1, AtTitle DEF Titled
  <1>3. run.op # "backup" /\ SidePicked(run)
    BY <1>2 DEF Ready
  <1>4. CASE run.confirmed
    <2>1. "restore" \in run.grants
      BY <1>2, <1>3, <1>4, HandIs DEF Covers, Runs, Ops
    <2>2. Ready("restore", run) /\ Pass("restore") /\ "restore" \in PCs
      BY <1>2, <1>3, <1>4, <2>1, TitledReady DEF Consent, PCs
    <2> QED
      BY <1>1, <2>2, Passes
  <1>5. CASE ~run.confirmed
    <2>1. run.kind # "autosync"
      BY <1>2, <1>5, HandIs
    <2>2. PICK q : q = Question("restore", {"restore"}, "restore", "cancelled")
      OBVIOUS
    <2>3. /\ q \in Screens /\ q.yes = "restore" /\ q.no = "cancelled" /\ q.grants = {"restore"}
          /\ q.grants \in SUBSET Grants
      BY <2>2 DEF Question, Screens, Grants, PCs
    <2>4. PICK s : s = Granting(run, q.grants)
      OBVIOUS
    <2>5. /\ s \in Runs /\ InHand(s) /\ s.at = run.at /\ s.op = run.op
          /\ s.grants = run.grants \cup {"restore"}
      BY <1>2, <2>3, <2>4, GrantingIs, StillInHand
    <2>6. Ready("restore", s)
      BY <1>3, <2>5, TitledReady DEF SidePicked
    <2>7. Ready("cancelled", run)
      BY <1>2, TitledReady
    <2>8. pc' = pc /\ ask' = q /\ run' = run
      BY <1>5, <2>2 DEF Consent, Ask, Put
    <2>9. Ready(q.yes, Granting(run, q.grants)) /\ Ready(q.no, run)
      BY <2>3, <2>4, <2>6, <2>7
    <2> QED
      BY <1>1, <1>2, <2>1, <2>3, <2>8, <2>9, InTitleIs, Questions
  <1> QED
    BY <1>4, <1>5

\* The restore, up to what is said of it.
LEMMA Restores ==
    ASSUME ConsoleInv, At("restore"), InTitle,
           Ask(Message("noticed")) \/ Ask(Message("restored")) \/ Pass("restored")
    PROVE  ConsoleInv'
  <1>1. run \in Runs /\ InHand(run) /\ Ready("restore", run) /\ pc \notin {"off", "linger"}
    BY AtTitle DEF Titled
  <1>2. run.op # "backup" /\ SidePicked(run) /\ "restore" \in run.grants
    BY <1>1 DEF Ready
  <1>3. Ready("noticed", run) /\ Ready("restored", run) /\ "noticed" \in PCs /\ "restored" \in PCs
    BY <1>1, <1>2, TitledReady DEF PCs
  <1> QED
    BY <1>1, <1>3, Passes, SaysInTitle

\* The backups of a title, to restore one or to delete one.
LEMMA Picks == ASSUME ConsoleInv, PickBackup \/ Picked \/ DeleteBackup PROVE ConsoleInv'
  <1>1. InTitle /\ \E here \in {"pick", "picked", "delete"} : At(here)
    BY DEF PickBackup, Picked, DeleteBackup
  <1>2. PICK here \in {"pick", "picked", "delete"} : At(here)
    BY <1>1
  <1>3. run \in Runs /\ InHand(run) /\ Ready(here, run) /\ pc \notin {"off", "linger"}
    BY <1>2, AtTitle DEF Titled
  <1>4. run.op # "backup" /\ run.at = "none" /\ run.kind = "one"
    BY <1>2, <1>3 DEF Ready
  <1>5. /\ \A there \in {"pick", "picked", "delete", "consent", "back"} : Ready(there, run)
        /\ {"pick", "picked", "delete", "consent", "back"} \subseteq PCs
    BY <1>3, <1>4, TitledReady DEF SidePicked, PCs
  <1>6. \/ \E then \in {"pick", "consent", "back"} : Ask(Message(then)) \/ Pass(then)
        \/ \E what \in {"pick", "delete"}, yes, no \in {"pick", "picked", "delete", "back"} :
              Ask(Question(what, {}, yes, no))
    BY DEF PickBackup, Picked, DeleteBackup
  <1>7. CASE \E then \in {"pick", "consent", "back"} : Ask(Message(then)) \/ Pass(then)
    BY <1>1, <1>3, <1>5, <1>7, Passes, SaysInTitle
  <1>8. ASSUME NEW what \in {"pick", "delete"}, NEW yes \in {"pick", "picked", "delete", "back"},
               NEW no \in {"pick", "picked", "delete", "back"}, Ask(Question(what, {}, yes, no))
        PROVE  ConsoleInv'
    <2>1. Ready(yes, run) /\ Ready(no, run) /\ yes \in PCs /\ no \in PCs
      BY <1>5
    <2>2. pc' = pc /\ ask' = Question(what, {}, yes, no) /\ run' = run
      BY <1>8 DEF Ask, Put
    <2>3. what \in {"update", "intro", "connect", "pick", "delete", "op", "policy"}
      OBVIOUS
    <2> QED
      BY <1>1, <1>3, <1>4, <2>1, <2>2, <2>3, InTitleIs, Offers
  <1> QED
    BY <1>6, <1>7, <1>8

-----------------------------------------------------------------------------
(***************************************************************************)
(* A title is worked.                                                      *)
(***************************************************************************)

Work == [lib: Library, i: Nat, by: Library, deed: Deeds, owed: SUBSET Grants]

\* Each counter counts its deeds; every title is one of the titles.
LEMMA CountIs ==
    ASSUME NEW t \in Counters, NEW deed \in Deeds, NEW counted \in BOOLEAN
    PROVE  LET c == Count(t, deed, counted)
               One(deeds) == IF deed \in deeds THEN 1 ELSE 0
           IN /\ c \in Counters /\ c.titles = t.titles + 1
              /\ c.uploaded = t.uploaded + One({"uploaded"})
              /\ c.downloaded = t.downloaded + One({"downloaded"})
              /\ c.deferred = t.deferred + One({"deferred"})
              /\ c.unchanged = t.unchanged + One({"unchanged", "unrecorded", "declined"})
              /\ c.failed = t.failed + One({"failed", "unrecorded"})
              /\ c.sync_failed = IF counted THEN t.sync_failed + 1 ELSE t.sync_failed
              /\ c.network = t.network
  <1>1. PICK d : d = IF deed \in {"failed", "cancelled"} THEN t
                     ELSE [t EXCEPT ![Counter(deed)] = @ + 1]
    OBVIOUS
  <1>2. /\ d \in Counters /\ d.titles = t.titles /\ d.sync_failed = t.sync_failed
        /\ d.failed = t.failed /\ d.network = t.network
        /\ d.uploaded = t.uploaded + (IF deed = "uploaded" THEN 1 ELSE 0)
        /\ d.downloaded = t.downloaded + (IF deed = "downloaded" THEN 1 ELSE 0)
        /\ d.deferred = t.deferred + (IF deed = "deferred" THEN 1 ELSE 0)
        /\ d.unchanged = t.unchanged +
              (IF deed \in {"unchanged", "unrecorded", "declined"} THEN 1 ELSE 0)
    <2>1. CASE deed \in {"failed", "cancelled"}
      BY <1>1, <2>1 DEF Counters
    <2>2. CASE deed \in {"unchanged", "unrecorded", "declined"}
      <3>1. Counter(deed) = "unchanged" /\ d = [t EXCEPT !.unchanged = @ + 1]
        BY <1>1, <2>2 DEF Counter
      <3> QED
        BY <2>2, <3>1 DEF Counters
    <2>3. CASE deed = "backed_up"
      <3>1. Counter(deed) = "ok" /\ d = [t EXCEPT !.ok = @ + 1]
        BY <1>1, <2>3 DEF Counter
      <3> QED
        BY <2>3, <3>1 DEF Counters
    <2>4. CASE deed = "skipped"
      <3>1. Counter(deed) = "skipped" /\ d = [t EXCEPT !.skipped = @ + 1]
        BY <1>1, <2>4 DEF Counter
      <3> QED
        BY <2>4, <3>1 DEF Counters
    <2>5. CASE deed = "uploaded"
      <3>1. Counter(deed) = "uploaded" /\ d = [t EXCEPT !.uploaded = @ + 1]
        BY <1>1, <2>5 DEF Counter
      <3> QED
        BY <2>5, <3>1 DEF Counters
    <2>6. CASE deed = "downloaded"
      <3>1. Counter(deed) = "downloaded" /\ d = [t EXCEPT !.downloaded = @ + 1]
        BY <1>1, <2>6 DEF Counter
      <3> QED
        BY <2>6, <3>1 DEF Counters
    <2>7. CASE deed = "deferred"
      <3>1. Counter(deed) = "deferred" /\ d = [t EXCEPT !.deferred = @ + 1]
        BY <1>1, <2>7 DEF Counter
      <3> QED
        BY <2>7, <3>1 DEF Counters
    <2> QED
      BY <2>1, <2>2, <2>3, <2>4, <2>5, <2>6, <2>7 DEF Deeds
  <1>3. PICK m : m = Moved(t, deed, counted)
    OBVIOUS
  <1>4. m = [d EXCEPT !.titles = @ + 1, !.sync_failed = IF counted THEN @ + 1 ELSE @]
    BY <1>1, <1>3 DEF Moved
  <1>5. /\ m \in Counters /\ m.titles = t.titles + 1 /\ m.failed = t.failed
        /\ m.sync_failed = (IF counted THEN t.sync_failed + 1 ELSE t.sync_failed)
        /\ m.network = t.network /\ m.uploaded = d.uploaded /\ m.downloaded = d.downloaded
        /\ m.deferred = d.deferred /\ m.unchanged = d.unchanged
    <2>1. PICK n : n = IF counted THEN t.sync_failed + 1 ELSE t.sync_failed
      OBVIOUS
    <2>2. n \in Nat /\ d.titles + 1 \in Nat
      BY <1>2, <2>1 DEF Counters
    <2>3. m = [d EXCEPT !.titles = d.titles + 1, !.sync_failed = n]
      BY <1>2, <1>4, <2>1
    <2>4. /\ m \in Counters /\ m.titles = d.titles + 1 /\ m.failed = d.failed
          /\ m.sync_failed = n /\ m.network = d.network /\ m.uploaded = d.uploaded
          /\ m.downloaded = d.downloaded /\ m.deferred = d.deferred
          /\ m.unchanged = d.unchanged
      BY <1>2, <2>2, <2>3 DEF Counters
    <2> QED
      BY <1>2, <2>1, <2>4
  <1>6. PICK c : c = Count(t, deed, counted)
    OBVIOUS
  <1>7. c = IF deed \in {"failed", "unrecorded"} THEN [m EXCEPT !.failed = @ + 1] ELSE m
    BY <1>3, <1>6 DEF Count, Failure
  <1>8. /\ c \in Counters /\ c.titles = m.titles /\ c.sync_failed = m.sync_failed
        /\ c.network = m.network /\ c.uploaded = m.uploaded /\ c.downloaded = m.downloaded
        /\ c.deferred = m.deferred /\ c.unchanged = m.unchanged
        /\ c.failed = m.failed + (IF deed \in {"failed", "unrecorded"} THEN 1 ELSE 0)
    BY <1>5, <1>7 DEF Counters
  <1> QED
    BY <1>2, <1>5, <1>6, <1>8

\* One more title is one more of the deeds it is among.
LEMMA WorksOver ==
    ASSUME worked \in Seq(Work), NEW w \in Work, worked' = Append(worked, w), NEW deeds
    PROVE  /\ Works(deeds) \in Nat
           /\ Works(deeds)' = Works(deeds) + (IF w.deed \in deeds THEN 1 ELSE 0)
  <1>1. PICK K : K = {k \in DOMAIN worked : worked[k].deed \in deeds}
    OBVIOUS
  <1>2. /\ DOMAIN worked = 1 .. Len(worked) /\ Len(worked) \in Nat
        /\ DOMAIN worked' = 1 .. Len(worked) + 1
    OBVIOUS
  <1>3. IsFiniteSet(K) /\ Len(worked) + 1 \notin K
    <2>1. IsFiniteSet(1 .. Len(worked))
      BY <1>2, FS_Interval
    <2> QED
      BY <1>1, <1>2, <2>1, FS_Subset
  <1>4. \A k \in 1 .. Len(worked) : worked'[k] = worked[k]
    BY <1>2
  <1>5. worked'[Len(worked) + 1] = w
    BY <1>2
  <1>6. {k \in DOMAIN worked' : worked'[k].deed \in deeds} =
           IF w.deed \in deeds THEN K \cup {Len(worked) + 1} ELSE K
    <2>1. DOMAIN worked' = DOMAIN worked \cup {Len(worked) + 1}
      BY <1>2
    <2>2. \A k \in DOMAIN worked : worked'[k] = worked[k]
      BY <1>2, <1>4
    <2>3. CASE w.deed \in deeds
      BY <1>1, <1>5, <2>1, <2>2, <2>3, Zenon
    <2>4. CASE w.deed \notin deeds
      BY <1>1, <1>5, <2>1, <2>2, <2>4, Zenon
    <2> QED
      BY <2>3, <2>4
  <1>7. Cardinality(K) \in Nat /\ Cardinality(K \cup {Len(worked) + 1}) = Cardinality(K) + 1
    BY <1>3, FS_CardinalityType, FS_AddElement
  <1>8. Works(deeds) = Cardinality(K)
    BY <1>1 DEF Works
  <1>9. Works(deeds)' = Cardinality({k \in DOMAIN worked' : worked'[k].deed \in deeds})
    BY DEF Works
  <1>10. CASE w.deed \in deeds
    <2>1. Works(deeds)' = Cardinality(K \cup {Len(worked) + 1})
      BY <1>6, <1>9, <1>10
    <2> QED
      BY <1>7, <1>8, <1>10, <2>1
  <1>11. CASE w.deed \notin deeds
    <2>1. Works(deeds)' = Cardinality(K)
      BY <1>6, <1>9, <1>11
    <2> QED
      BY <1>7, <1>8, <1>11, <2>1
  <1> QED
    BY <1>10, <1>11

\* What is worked grows by the title in hand, which was not among it; where a run goes on,
\* it goes on at the next.
LEMMA DoneGrows ==
    ASSUME run \in Runs, InHand(run), worked \in Seq(Work), NEW w \in Work,
           w.lib = run.lib, w.i = run.i, worked' = Append(worked, w), UNCHANGED closing,
           NEW r \in Runs, r.i = run.i + 1, r.lib = run.lib, r.counts = run.counts,
           r.kind = run.kind
    PROVE  /\ Done' = Done \cup {<<run.lib, run.i>>}
           /\ <<run.lib, run.i>> \notin Done
           /\ run.kind # "one" => SoFar(r)'
  <1>1. /\ DOMAIN worked = 1 .. Len(worked) /\ Len(worked) \in Nat
        /\ DOMAIN worked' = 1 .. Len(worked) + 1
    OBVIOUS
  <1>2. (\A k \in 1 .. Len(worked) : worked'[k] = worked[k]) /\ worked'[Len(worked) + 1] = w
    BY <1>1
  <1>3. DOMAIN worked' = DOMAIN worked \cup {Len(worked) + 1}
    BY <1>1
  <1>4. Done' = {<<worked'[k].lib, worked'[k].i>> : k \in DOMAIN worked'}
    BY DEF Done, Title
  <1>5. Done' = Done \cup {<<run.lib, run.i>>}
    BY <1>1, <1>2, <1>3, <1>4 DEF Done, Title
  <1>6. CASE run.kind = "one"
    <2>1. Done = {}
      BY <1>6 DEF InHand, Done
    <2> QED
      BY <1>5, <1>6, <2>1
  <1>7. CASE run.kind # "one"
    <2>1. /\ SoFar(run) /\ run.i \in Nat \ {0} /\ run.lib \in {"3ds", "nds"}
          /\ run.i <= run.counts[run.lib] /\ run.counts[run.lib] \in Nat
      BY <1>7 DEF InHand, OnTheWay, Runs, Library
    <2>2. PICK D : D = Done
      OBVIOUS
    <2>3. CASE run.lib = "3ds"
      <3>1. D = {"3ds"} \X (1 .. run.i - 1)
        BY <2>1, <2>2, <2>3 DEF SoFar
      <3>2. 1 .. run.i = (1 .. run.i - 1) \cup {run.i} /\ run.i \notin 1 .. run.i - 1
        BY <2>1
      <3>3. D \cup {<<"3ds", run.i>>} = {"3ds"} \X (1 .. run.i)
        BY <3>1, <3>2
      <3>4. <<"3ds", run.i>> \notin D
        BY <3>1, <3>2
      <3>5. r.i - 1 = run.i
        BY <2>1
      <3>6. SoFar(r)'
        BY <1>5, <2>2, <2>3, <3>3, <3>5 DEF SoFar
      <3> QED
        BY <1>5, <2>2, <2>3, <3>4, <3>6
    <2>4. CASE run.lib = "nds"
      <3>1. PICK m \in 0 .. run.counts["3ds"] :
               /\ D = ({"3ds"} \X (1 .. m)) \cup ({"nds"} \X (1 .. run.i - 1))
               /\ ~(closing /\ run.kind = "autosync") => m = run.counts["3ds"]
        BY <2>1, <2>2, <2>4 DEF SoFar
      <3>2. 1 .. run.i = (1 .. run.i - 1) \cup {run.i} /\ run.i \notin 1 .. run.i - 1
        BY <2>1
      <3>3. D \cup {<<"nds", run.i>>} = ({"3ds"} \X (1 .. m)) \cup ({"nds"} \X (1 .. run.i))
        BY <3>1, <3>2
      <3>4. <<"nds", run.i>> \notin D
        BY <3>1, <3>2
      <3>5. r.i - 1 = run.i
        BY <2>1
      <3>6. SoFar(r)'
        BY <1>5, <2>2, <2>4, <3>1, <3>3, <3>5 DEF SoFar
      <3> QED
        BY <1>5, <2>2, <2>4, <3>4, <3>6
    <2> QED
      BY <2>1, <2>3, <2>4
  <1> QED
    BY <1>6, <1>7

\* A title that is over was worked once, as it was granted, and is counted.
LEMMA Overs ==
    ASSUME ConsoleInv, NEW here \in Titled, At(here), NEW deed \in Deeds,
           NEW counted \in BOOLEAN, Over(deed, counted),
           Needs(deed, run.at) \subseteq run.grants,
           counted => deed \in {"failed", "unrecorded"},
           run.kind = "autosync" => deed # "declined"
    PROVE  ConsoleInv'
  <1>1. /\ run \in Runs /\ InHand(run) /\ ask = None /\ pc \notin {"off", "linger"}
        /\ backend = run.lib
    BY AtTitle DEF InHand
  <1>2. worked \in Seq(Work) /\ tally \in Counters
    BY DEF ConsoleInv, TypeOK, Work, Counters
  <1>3. PICK w : w = [lib |-> run.lib, i |-> run.i, by |-> backend, deed |-> deed,
                      owed |-> Needs(deed, run.at) \ run.grants]
    OBVIOUS
  <1>4. /\ w \in Work /\ w.lib = run.lib /\ w.i = run.i /\ w.by = w.lib /\ w.deed = deed
        /\ w.owed = {}
    <2>1. w.owed = {}
      BY <1>3
    <2> QED
      BY <1>1, <1>3, <2>1 DEF Work, Runs
  <1>5. worked' = Append(worked, w) /\ tally' = Count(tally, deed, counted)
    BY <1>3 DEF Over
  <1>6. PICK r : r = [run EXCEPT !.i = @ + 1, !.at = "none", !.grants = {}]
    OBVIOUS
  <1>7. /\ r \in Runs /\ r.i = run.i + 1 /\ r.kind = run.kind /\ r.op = run.op
        /\ r.policy = run.policy /\ r.confirmed = run.confirmed /\ r.counts = run.counts
        /\ r.lib = run.lib /\ r.base = run.base /\ r.was = run.was /\ r.stopped = run.stopped
    <2>1. run.i + 1 \in Nat \ {0}
      BY <1>1 DEF Runs
    <2> QED
      BY <1>1, <1>6, <2>1 DEF Runs, Findings
  <1>8. /\ run' = r
        /\ UNCHANGED <<backend, shown, chosen, lib, closing, boot, config, report>>
        /\ IF run.kind = "one" THEN pc' = pc /\ ask' = Message("back")
           ELSE pc' = "loop" /\ ask' = None
    BY <1>6 DEF Over, LibrariesKept, BootKept, CardKept, Put, Goto
  <1>9. /\ Done' = Done \cup {<<run.lib, run.i>>} /\ <<run.lib, run.i>> \notin Done
        /\ run.kind # "one" => SoFar(r)'
    BY <1>1, <1>2, <1>4, <1>5, <1>7, <1>8, DoneGrows
  <1>10. TypeOK'
    <2>1. Frame'
      BY <1>8, FrameIs DEF ConsoleInv, Frame
    <2>2. tally' \in Counters
      BY <1>2, <1>5, CountIs
    <2>3. worked' \in Seq(Work)
      BY <1>2, <1>4, <1>5
    <2>4. pc' \in PCs /\ (ask' = None \/ ask' \in Screens)
      <3>1. pc \in PCs /\ "loop" \in PCs /\ "back" \in PCs
        BY DEF PCs, ConsoleInv, TypeOK
      <3>2. Message("back") \in Screens
        BY <1>7, <3>1, MessageIs
      <3> QED
        BY <1>8, <3>1, <3>2
    <2> QED
      BY <1>7, <1>8, <2>1, <2>2, <2>3, <2>4 DEF TypeOK, Frame, Runs, Counters, Work
  <1>11. Stands'
    <2>1. CASE run.kind = "one"
      <3>1. Home' /\ r.kind = "one"
        BY <1>1, <1>7, <1>8, <2>1, HandIs DEF Home
      <3>2. Ready("back", r)'
        BY <3>1 DEF Ready, Before, Titled
      <3>3. PICK q : q = Message("back")
        OBVIOUS
      <3>4. q \in Screens /\ q.yes = "back" /\ q.no = "back" /\ Granting(r, q.grants) = r
        BY <1>7, <3>3, MessageIs DEF PCs
      <3>5. ask' = q /\ pc' = pc /\ run' = r
        BY <1>8, <2>1, <3>3
      <3> QED
        BY <1>1, <3>1, <3>2, <3>4, <3>5, NoneIsNothing DEF Stands
    <2>2. CASE run.kind # "one"
      <3>1. OnTheWay(run) /\ run.i <= run.counts[run.lib]
        BY <1>1, <2>2 DEF InHand
      <3>2. OnTheWay(r)'
        BY <1>7, <1>8, <1>9, <2>2, <3>1 DEF OnTheWay, Unattended, Covers
      <3>3. r.i <= r.counts[r.lib] + 1
        BY <1>1, <1>7, <3>1 DEF Runs
      <3>4. Ready("loop", r)'
        BY <3>2, <3>3 DEF Ready, Before, Titled
      <3> QED
        BY <1>8, <2>2, <3>4 DEF Stands
    <2> QED
      BY <2>1, <2>2
  <1>12. Rightly'
    <2>1. /\ DOMAIN worked = 1 .. Len(worked) /\ Len(worked) \in Nat
          /\ DOMAIN worked' = 1 .. Len(worked) + 1
      BY <1>2, <1>5
    <2>2. (\A k \in 1 .. Len(worked) : worked'[k] = worked[k]) /\ worked'[Len(worked) + 1] = w
      BY <1>2, <1>5, <2>1
    <2>3. \A k \in DOMAIN worked' : \/ k \in DOMAIN worked /\ worked'[k] = worked[k]
                                    \/ k = Len(worked) + 1 /\ worked'[k] = w
      BY <2>1, <2>2
    <2>4. \A k \in DOMAIN worked' : /\ worked'[k].by = worked'[k].lib /\ worked'[k].owed = {}
                                    /\ run'.kind = "autosync" => worked'[k].deed # "declined"
      BY <1>4, <1>7, <1>8, <2>3 DEF ConsoleInv, Rightly
    <2>5. \A j, k \in DOMAIN worked :
             <<worked[j].lib, worked[j].i>> = <<worked[k].lib, worked[k].i>> => j = k
      BY DEF ConsoleInv, Rightly, Title
    <2>6. \A k \in DOMAIN worked : <<worked[k].lib, worked[k].i>> # <<w.lib, w.i>>
      <3>1. \A k \in DOMAIN worked : <<worked[k].lib, worked[k].i>> \in Done
        BY DEF Done, Title
      <3> QED
        BY <1>4, <1>9, <3>1
    <2>7. \A j, k \in DOMAIN worked' :
             <<worked'[j].lib, worked'[j].i>> = <<worked'[k].lib, worked'[k].i>> => j = k
      BY <2>3, <2>5, <2>6
    <2> QED
      BY <2>4, <2>7 DEF Rightly, Title
  <1>13. Tallies'
    <2>1. Len(worked') = Len(worked) + 1
      BY <1>2, <1>5
    <2>2. \A deeds : Works(deeds) \in Nat
                      /\ Works(deeds)' = Works(deeds) + (IF deed \in deeds THEN 1 ELSE 0)
      BY <1>2, <1>4, <1>5, WorksOver
    <2>3. PICK c : c = Count(tally, deed, counted)
      OBVIOUS
    <2>4. /\ c.titles = tally.titles + 1
          /\ c.uploaded = tally.uploaded + (IF deed \in {"uploaded"} THEN 1 ELSE 0)
          /\ c.downloaded = tally.downloaded + (IF deed \in {"downloaded"} THEN 1 ELSE 0)
          /\ c.deferred = tally.deferred + (IF deed \in {"deferred"} THEN 1 ELSE 0)
          /\ c.unchanged = tally.unchanged +
                (IF deed \in {"unchanged", "unrecorded", "declined"} THEN 1 ELSE 0)
          /\ c.failed = tally.failed + (IF deed \in {"failed", "unrecorded"} THEN 1 ELSE 0)
          /\ c.sync_failed = IF counted THEN tally.sync_failed + 1 ELSE tally.sync_failed
      BY <1>2, <2>3, CountIs
    <2>5. tally' = c /\ tally.sync_failed \in Nat /\ tally.failed \in Nat
      BY <1>2, <1>5, <2>3 DEF Counters
    <2>6. tally'.sync_failed <= tally'.failed
      BY <2>4, <2>5 DEF ConsoleInv, Tallies
    <2> QED
      BY <2>1, <2>2, <2>4, <2>5, <2>6 DEF ConsoleInv, Tallies
  <1> QED
    BY <1>10, <1>11, <1>12, <1>13 DEF ConsoleInv

\* A deed that needs nothing granted.
LEMMA OversFree ==
    ASSUME ConsoleInv, NEW here \in Titled, At(here),
           NEW deed \in {"skipped", "unchanged", "unrecorded", "deferred", "declined",
                         "cancelled", "failed"},
           NEW counted \in BOOLEAN, Over(deed, counted),
           counted => deed = "failed", run.kind = "autosync" => deed # "declined"
    PROVE  ConsoleInv'
  <1>1. deed \in Deeds /\ Needs(deed, run.at) = {}
    BY DEF Needs, Deeds
  <1> QED
    BY <1>1, Overs

\* Core counts a failure, or does not.
LEMMA CountedIs == Counted \in BOOLEAN
  BY DEF Counted

\* The two sides are compared.
LEMMA SyncsTitle == ASSUME ConsoleInv, SyncTitle PROVE ConsoleInv'
  <1>1. At("title") /\ run.op = "sync" /\ "title" \in Titled
    BY DEF SyncTitle, Titled
  <1>2. CASE \E deed \in {"failed", "unchanged", "unrecorded"} : Over(deed, FALSE)
    BY <1>1, <1>2, OversFree
  <1>3. CASE /\ run' = [run EXCEPT !.at = "upload"] /\ InTitle
             /\ IF run.confirmed THEN Goto("upload")
                ELSE Put(Question("upload", {"upload"}, "upload", "declined"))
    BY <1>1, <1>3, FindsUpload
  <1>4. CASE run' = [run EXCEPT !.at = "download"] /\ Goto("download") /\ InTitle
    BY <1>1, <1>4, FindsDownload
  <1>5. CASE Resolve("conflict") /\ InTitle
    BY <1>1, <1>5, Resolves
  <1> QED
    BY <1>2, <1>3, <1>4, <1>5 DEF SyncTitle

\* The upload, or the conflict another console made of it.
LEMMA Uploads == ASSUME ConsoleInv, Upload PROVE ConsoleInv'
  <1>1. At("upload") /\ "upload" \in Titled
    BY DEF Upload, Titled
  <1>2. Ready("upload", run)
    BY <1>1, AtTitle
  <1>3. /\ run.op # "backup" /\ SidePicked(run) /\ run.at \in {"upload", "conflict", "raced"}
        /\ run.at = "upload" => "upload" \in run.grants
    BY <1>2 DEF Ready
  <1>4. CASE Over("uploaded", FALSE)
    <2>1. Needs("uploaded", run.at) \subseteq run.grants
      BY <1>3 DEF Needs, SidePicked
    <2> QED
      BY <1>1, <1>4, <2>1, Overs DEF Deeds
  <1>5. CASE Over("failed", Counted) \/ Over("failed", FALSE)
    BY <1>1, <1>5, OversFree, CountedIs
  <1>6. CASE Resolve("raced") /\ InTitle
    BY <1>1, <1>3, <1>6, Resolves
  <1> QED
    BY <1>4, <1>5, <1>6 DEF Upload

\* The whole of the download's step.
LEMMA DownloadStep == ASSUME ConsoleInv, Download PROVE ConsoleInv'
  <1>1. At("download") /\ "download" \in Titled
    BY DEF Download, Titled
  <1>2. CASE Over("failed", Counted)
    BY <1>1, <1>2, OversFree, CountedIs
  <1>3. CASE (Ask(Message("noticed")) \/ Pass("consent") \/ Ask(Message("consent"))) /\ InTitle
    BY <1>1, <1>3, Downloads
  <1> QED
    BY <1>2, <1>3 DEF Download

\* The whole of the restore's step.
LEMMA RestoreStep == ASSUME ConsoleInv, Restore PROVE ConsoleInv'
  <1>1. At("restore") /\ "restore" \in Titled
    BY DEF Restore, Titled
  <1>2. CASE Over("failed", Counted)
    BY <1>1, <1>2, OversFree, CountedIs
  <1>3. CASE (Ask(Message("noticed")) \/ Ask(Message("restored")) \/ Pass("restored")) /\ InTitle
    BY <1>1, <1>3, Restores
  <1> QED
    BY <1>2, <1>3 DEF Restore

\* The title is over where nothing more can be asked of it.
LEMMA EndsOfATitle ==
    ASSUME ConsoleInv, Restored \/ Declined \/ Cancelled \/ Deferred \/ Noticed \/ Backup
    PROVE  ConsoleInv'
  <1>1. CASE Restored
    <2>1. At("restored") /\ "restored" \in Titled /\ Over("downloaded", FALSE)
      BY <1>1 DEF Restored, Titled
    <2>2. Ready("restored", run)
      BY <2>1, AtTitle
    <2>3. SidePicked(run) /\ "restore" \in run.grants
      BY <2>2 DEF Ready
    <2>4. Needs("downloaded", run.at) \subseteq run.grants
      BY <2>3 DEF Needs, SidePicked
    <2> QED
      BY <2>1, <2>4, Overs DEF Deeds
  <1>2. CASE Declined
    <2>1. At("declined") /\ "declined" \in Titled /\ Over("declined", FALSE)
      BY <1>2 DEF Declined, Titled
    <2>2. Ready("declined", run) /\ InHand(run) /\ run \in Runs
      BY <2>1, AtTitle
    <2>3. ~run.confirmed
      BY <2>2 DEF Ready
    <2>4. run.kind # "autosync"
      BY <2>2, <2>3, HandIs
    <2> QED
      BY <2>1, <2>4, OversFree
  <1>3. CASE Cancelled \/ Deferred \/ Noticed
    <2>1. PICK here \in Titled : At(here) /\ \/ Over("cancelled", FALSE) \/ Over("deferred", FALSE)
                                             \/ Over("failed", Counted)
      BY <1>3 DEF Cancelled, Deferred, Noticed, Titled
    <2> QED
      BY <2>1, OversFree, CountedIs
  <1>4. CASE Backup
    <2>1. PICK here \in {"title", "backup"} : At(here) /\ here \in Titled
      BY <1>4 DEF Backup, Titled
    <2>2. Ready(here, run) /\ InHand(run) /\ run \in Runs /\ run.op = "backup"
      BY <1>4, <2>1, AtTitle DEF Backup
    <2>3. "backup" \in run.grants
      <3>1. CASE run.confirmed
        BY <2>2, <3>1, HandIs DEF Covers
      <3>2. CASE here = "backup"
        BY <2>2, <3>2 DEF Ready
      <3>3. CASE here = "title" /\ ~run.confirmed
        BY <2>2, <3>3 DEF Ready
      <3> QED
        BY <2>1, <3>1, <3>2, <3>3
    <2>4. Needs("backed_up", run.at) \subseteq run.grants /\ "backed_up" \in Deeds
      BY <2>3 DEF Needs, Deeds
    <2>5. PICK deed \in {"backed_up", "skipped", "failed"} : Over(deed, FALSE)
      BY <1>4 DEF Backup
    <2>6. CASE deed = "backed_up"
      BY <2>1, <2>4, <2>5, <2>6, Overs
    <2>7. CASE deed # "backed_up"
      BY <2>1, <2>5, <2>7, OversFree
    <2> QED
      BY <2>6, <2>7
  <1> QED
    BY <1>1, <1>2, <1>3, <1>4

-----------------------------------------------------------------------------
(***************************************************************************)
(* What begins a run, and the steps between its titles.                    *)
(***************************************************************************)

\* One title that the person chose, with every question still to be asked.
LEMMA SelectedIs ==
    ASSUME ConsoleInv, NEW op \in Ops, Selected(op)
    PROVE  /\ Frame' /\ UNCHANGED Looked /\ ask = None /\ pc = "grid" /\ run.kind = "none"
           /\ worked = <<>>
           /\ run' \in Runs /\ InHand(run') /\ run'.kind = "one" /\ run'.op = op
           /\ run'.at = "none"
  <1>1. Nothing(run) /\ Home /\ ask = None /\ pc = "grid" /\ run.kind = "none"
    BY GridIs, ReadyHere DEF Selected, AtGrid
  <1>2. shown \in Library /\ lib[shown].count \in Nat
    BY DEF ConsoleInv, TypeOK
  <1>3. PICK i \in 1 .. lib[shown].count :
           run' = [Idle EXCEPT !.kind = "one", !.op = op, !.lib = shown, !.i = i]
    BY DEF Selected
  <1>4. PICK r : r = [Idle EXCEPT !.kind = "one", !.op = op, !.lib = shown, !.i = i]
    OBVIOUS
  <1>5. i \in Nat \ {0}
    BY <1>2
  <1>6. /\ r \in Runs /\ r.kind = "one" /\ r.op = op /\ r.lib = shown /\ r.i = i
        /\ r.at = "none" /\ ~r.confirmed /\ r.policy = "ask"
    <2>1. Idle.at = "none" /\ Idle.policy = "ask" /\ Idle \in Runs /\ ~Idle.confirmed
      BY IdleIs DEF Idle
    <2> QED
      BY <1>2, <1>4, <1>5, <2>1 DEF Runs
  <1>7. InHand(r)
    BY <1>1, <1>6 DEF InHand, Nothing, Home
  <1>8. Frame' /\ UNCHANGED Looked
    BY KeptIs DEF Selected
  <1>9. run' = r
    BY <1>3, <1>4
  <1> QED
    BY <1>1, <1>6, <1>7, <1>8, <1>9 DEF Nothing

\* A backup, a restore or a sync of the title under the cursor begins.
LEMMA Selects ==
    ASSUME ConsoleInv, BackUpSelected \/ RestoreSelected \/ SyncSelected
    PROVE  ConsoleInv'
  <1>1. PICK op \in Ops : /\ Selected(op)
                          /\ \/ op = "backup"
                                /\ Put(Question("backup", {"backup"}, "backup", "back"))
                             \/ op = "restore" /\ Goto("pick")
                             \/ op = "sync" /\ Goto("title")
                             \/ op = "sync" /\ Put(Message("back"))
    BY DEF BackUpSelected, RestoreSelected, SyncSelected, Ops
  <1>2. PICK r : r = run'
    OBVIOUS
  <1>3. /\ Frame' /\ UNCHANGED Looked /\ ask = None /\ pc = "grid" /\ worked = <<>>
        /\ r \in Runs /\ InHand(r) /\ r.kind = "one" /\ r.op = op /\ r.at = "none"
    BY <1>1, <1>2, SelectedIs
  <1>4. run' = r /\ {"pick", "title", "back", "backup"} \subseteq PCs /\ Ready("back", r)
    BY <1>2, <1>3, TitledReady DEF PCs
  <1>5. CASE op = "backup" /\ Put(Question("backup", {"backup"}, "backup", "back"))
    <2>1. PICK q : q = Question("backup", {"backup"}, "backup", "back")
      OBVIOUS
    <2>2. /\ q \in Screens /\ q.yes = "backup" /\ q.no = "back" /\ q.grants = {"backup"}
          /\ q.grants \in SUBSET Grants
      BY <1>4, <2>1 DEF Question, Screens, Grants
    <2>3. PICK s : s = Granting(r, q.grants)
      OBVIOUS
    <2>4. s \in Runs /\ InHand(s) /\ s.op = "backup" /\ "backup" \in s.grants
      BY <1>3, <1>5, <2>2, <2>3, GrantingIs, StillInHand
    <2>5. Ready("backup", s)
      BY <2>4, TitledReady
    <2>6. pc' = pc /\ ask' = q
      BY <1>5, <2>1 DEF Put
    <2>7. Ready(q.yes, Granting(r, q.grants)) /\ Ready(q.no, r)
      BY <1>4, <2>2, <2>3, <2>5
    <2> QED
      BY <1>3, <1>4, <2>2, <2>6, <2>7, Questions
  <1>6. CASE op = "restore" /\ Goto("pick")
    <2>1. Ready("pick", r)
      BY <1>3, <1>6, TitledReady
    <2> QED
      BY <1>3, <1>4, <1>6, <2>1, GoesTo DEF Goto
  <1>7. CASE op = "sync" /\ Goto("title")
    <2>1. Ready("title", r)
      BY <1>3, <1>7, TitledReady
    <2> QED
      BY <1>3, <1>4, <1>7, <2>1, GoesTo DEF Goto
  <1>8. CASE op = "sync" /\ Put(Message("back"))
    BY <1>3, <1>4, <1>8, Says DEF Put
  <1> QED
    BY <1>1, <1>5, <1>6, <1>7, <1>8

\* A title comes to hand: through its own library's backend, with what the run was granted.
LEMMA TakesTitle == ASSUME ConsoleInv, NextTitle PROVE ConsoleInv'
  <1>1. run \in Runs /\ Ready("loop", run) /\ run.i <= run.counts[run.lib] /\ ~closing
    <2>1. At("loop") /\ ~NoneLeft(run) /\ ~closing
      BY DEF NextTitle
    <2>2. run.i \in Nat /\ run.counts[run.lib] \in Nat
      BY RunIs DEF Runs
    <2> QED
      BY <2>1, <2>2, ReadyHere, RunIs DEF NoneLeft
  <1>2. OnTheWay(run)
    BY <1>1 DEF Ready
  <1>3. PICK r : r = [run EXCEPT !.at = "none", !.grants = run.base]
    OBVIOUS
  <1>4. /\ r \in Runs /\ r.i = run.i /\ r.kind = run.kind /\ r.op = run.op /\ r.at = "none"
        /\ r.policy = run.policy /\ r.confirmed = run.confirmed /\ r.counts = run.counts
        /\ r.lib = run.lib /\ r.base = run.base /\ r.was = run.was /\ r.stopped = run.stopped
        /\ r.grants = run.base
    BY <1>1, <1>3 DEF Runs, Findings
  <1>5. /\ backend' = run.lib /\ run' = r /\ pc' = "title" /\ ask' = None
        /\ UNCHANGED <<shown, chosen, lib, tally, worked, closing, boot, config, report>>
    BY <1>3 DEF NextTitle, BootKept, CardKept, Goto, Here
  <1>6. Frame'
    BY <1>1, <1>5 DEF ConsoleInv, TypeOK, Frame, Runs
  <1>7. OnTheWay(r)'
    BY <1>2, <1>4, <1>5 DEF OnTheWay, Unattended, Covers, SoFar, Done, Title
  <1>8. InHand(r)'
    BY <1>1, <1>2, <1>4, <1>5, <1>7 DEF InHand, OnTheWay
  <1>9. Ready("title", r)'
    BY <1>2, <1>4, <1>8 DEF Ready, Before, Titled, OnTheWay
  <1> QED
    BY <1>4, <1>5, <1>6, <1>9, GoesOn DEF PCs

\* A batch is stopped between two titles.
LEMMA Stops == ASSUME ConsoleInv, StopBatch PROVE ConsoleInv'
  <1>1. run \in Runs /\ Ready("loop", run) /\ run.kind = "batch" /\ pc = "loop"
    BY ReadyHere, RunIs DEF StopBatch
  <1>2. PICK r : r = [run EXCEPT !.stopped = TRUE]
    OBVIOUS
  <1>3. r \in Runs /\ r.kind = "batch" /\ r.stopped /\ r.was = chosen
    BY <1>1, <1>2 DEF Runs, Ready, OnTheWay
  <1>4. Ready("put_back", r)
    BY <1>3 DEF Ready, Before, Titled
  <1>5. run' = r /\ pc' = pc /\ ask' = Message("put_back")
    BY <1>2 DEF StopBatch, Put
  <1>6. Frame' /\ UNCHANGED Looked
    BY KeptIs DEF StopBatch
  <1> QED
    BY <1>1, <1>3, <1>4, <1>5, <1>6, Says DEF PCs

\* The end of a library: the other one, or the end of the run.
LEMMA EndsLibrary == ASSUME ConsoleInv, NextLibrary PROVE ConsoleInv'
  <1>1. run \in Runs /\ Ready("loop", run) /\ Frame' /\ UNCHANGED Looked
    BY ReadyHere, RunIs, KeptIs DEF NextLibrary
  <1>2. /\ OnTheWay(run) /\ run.i <= run.counts[run.lib] + 1
        /\ run.i \in Nat \ {0} /\ run.counts["3ds"] \in Nat /\ run.counts["nds"] \in Nat
        /\ run.kind \in {"autosync", "batch"} /\ run.lib \in {"3ds", "nds"}
    BY <1>1 DEF Ready, Runs, Library, OnTheWay
  <1>3. run.i = run.counts[run.lib] + 1 \/ (run.kind = "autosync" /\ closing)
    BY <1>1, <1>2 DEF NextLibrary, NoneLeft
  <1>4. CASE run.lib = "3ds"
    <2>1. PICK r : r = [run EXCEPT !.lib = "nds", !.i = 1]
      OBVIOUS
    <2>2. /\ r \in Runs /\ r.i = 1 /\ r.kind = run.kind /\ r.op = run.op
          /\ r.policy = run.policy /\ r.confirmed = run.confirmed /\ r.counts = run.counts
          /\ r.lib = "nds" /\ r.base = run.base /\ r.was = run.was /\ r.stopped = run.stopped
      <3>1. "nds" \in Library /\ 1 \in Nat \ {0}
        BY DEF Library
      <3> HIDE DEF NextLibrary
      <3> QED
        BY <1>1, <2>1, <3>1 DEF Runs
    <2>3. Done = {"3ds"} \X (1 .. run.i - 1)
      BY <1>2, <1>4 DEF OnTheWay, SoFar
    <2>4. SoFar(r)
      <3>1. run.i - 1 \in 0 .. run.counts["3ds"]
        BY <1>2, <1>4
      <3>2. ~(closing /\ run.kind = "autosync") => run.i - 1 = run.counts["3ds"]
        BY <1>2, <1>3, <1>4
      <3>3. {"nds"} \X (1 .. 1 - 1) = {}
        OBVIOUS
      <3> QED
        BY <2>2, <2>3, <3>1, <3>2, <3>3 DEF SoFar
    <2>5. OnTheWay(r)
      BY <1>2, <2>2, <2>4 DEF OnTheWay, Unattended, Covers
    <2>6. Ready("loop", r) /\ (r.kind = "autosync" => Ready("count", r))
      BY <1>2, <2>2, <2>5 DEF Ready, Before, Titled
    <2>7. run' = r /\ ask' = None /\ pc' = IF run.kind = "autosync" THEN "count" ELSE "loop"
      BY <1>4, <2>1 DEF NextLibrary, Goto, Here
    <2> QED
      BY <1>1, <2>2, <2>6, <2>7, GoesTo DEF PCs
  <1>5. CASE run.lib = "nds"
    <2>1. PICK m \in 0 .. run.counts["3ds"] :
             /\ Done = ({"3ds"} \X (1 .. m)) \cup ({"nds"} \X (1 .. run.i - 1))
             /\ ~(closing /\ run.kind = "autosync") => m = run.counts["3ds"]
      BY <1>2, <1>5 DEF OnTheWay, SoFar
    <2>2. ~(closing /\ run.kind = "autosync") => AllDone(run)
      BY <1>2, <1>3, <1>5, <2>1 DEF AllDone
    <2>3. run.kind = "autosync" => Ready("write", run)
      BY <2>2 DEF Ready, Before, Titled
    <2>4. run.kind = "batch" => Ready("put_back", run)
      BY <1>2, <2>2 DEF Ready, Before, Titled, OnTheWay
    <2>5. run' = run /\ ask' = None /\ pc' = IF run.kind = "autosync" THEN "write" ELSE "put_back"
      BY <1>5 DEF NextLibrary, Goto, Here
    <2> QED
      BY <1>1, <1>2, <2>3, <2>4, <2>5, GoesTo DEF PCs
  <1> QED
    BY <1>2, <1>4, <1>5

\* autosync counts a library when it comes to it.
LEMMA CountsForAutosync == ASSUME ConsoleInv, CountForAutosync PROVE ConsoleInv'
  <1>1. run \in Runs /\ Ready("count", run) /\ run.kind = "autosync" /\ run.lib \in Library
    BY ReadyHere, RunIs DEF CountForAutosync, Runs
  <1>2. OnTheWay(run) /\ run.i = 1
    BY <1>1 DEF Ready
  <1>3. /\ shown' = run.lib /\ backend' = run.lib
        /\ lib' \in [Library -> [loaded: BOOLEAN, count: Nat]]
    BY <1>1, ShownIs DEF CountForAutosync
  <1>4. PICK n : n = lib'[run.lib].count
    OBVIOUS
  <1>5. n \in Nat
    BY <1>1, <1>3, <1>4
  <1>6. PICK r : r = [run EXCEPT !.counts[run.lib] = n, !.i = 1]
    OBVIOUS
  <1>7. /\ r \in Runs /\ r.i = 1 /\ r.kind = run.kind /\ r.op = run.op
        /\ r.policy = run.policy /\ r.confirmed = run.confirmed
        /\ r.counts = [run.counts EXCEPT ![run.lib] = n]
        /\ r.lib = run.lib /\ r.base = run.base /\ r.was = run.was /\ r.stopped = run.stopped
    <2>1. [run.counts EXCEPT ![run.lib] = n] \in [Library -> Nat]
      BY <1>1, <1>5 DEF Runs
    <2>2. r = [run EXCEPT !.counts = [run.counts EXCEPT ![run.lib] = n], !.i = 1]
      BY <1>6
    <2>3. PICK counts : counts = [run.counts EXCEPT ![run.lib] = n]
      OBVIOUS
    <2>4. /\ r = [run EXCEPT !.counts = counts, !.i = 1] /\ counts \in [Library -> Nat]
          /\ run \in Runs /\ 1 \in Nat \ {0}
      BY <1>1, <2>1, <2>2, <2>3
    <2>5. /\ r \in Runs /\ r.i = 1 /\ r.kind = run.kind /\ r.op = run.op
          /\ r.policy = run.policy /\ r.confirmed = run.confirmed /\ r.counts = counts
          /\ r.lib = run.lib /\ r.base = run.base /\ r.was = run.was /\ r.stopped = run.stopped
      BY <2>4 DEF Runs
    <2> QED
      BY <2>3, <2>5
  <1>8. /\ run' = r /\ pc' = "loop" /\ ask' = None
        /\ UNCHANGED <<chosen, tally, worked, closing, boot, config, report>>
    BY <1>4, <1>6 DEF CountForAutosync, Goto, BootKept, CardKept
  <1>9. Frame'
    BY <1>1, <1>3, <1>8 DEF ConsoleInv, TypeOK, Frame
  <1>10. SoFar(r)'
    <2>1. run.lib = "nds" => r.counts["3ds"] = run.counts["3ds"]
      BY <1>1, <1>7 DEF Runs, Library
    <2> QED
      BY <1>1, <1>2, <1>7, <1>8, <2>1 DEF OnTheWay, SoFar, Done, Title, Library
  <1>11. OnTheWay(r)'
    BY <1>2, <1>7, <1>8, <1>10 DEF OnTheWay, Unattended, Covers
  <1>12. r.i <= r.counts[r.lib] + 1
    BY <1>7 DEF Runs
  <1>13. Ready("loop", r)'
    BY <1>11, <1>12 DEF Ready, Before, Titled
  <1> QED
    BY <1>1, <1>7, <1>8, <1>9, <1>13, GoesOn DEF PCs

\* The screen of the batch opens over the grid.
LEMMA OpensBatch == ASSUME ConsoleInv, OpenBatch PROVE ConsoleInv'
  <1>1. /\ Nothing(run) /\ Home /\ shown \in Library /\ shown = chosen /\ worked = <<>>
        /\ Frame' /\ UNCHANGED Looked
    BY GridIs, KeptIs DEF OpenBatch, AtGrid, ConsoleInv, TypeOK, Home, Nothing
  <1>2. PICK r : r = [Idle EXCEPT !.kind = "batch", !.was = shown]
    OBVIOUS
  <1>3. r \in Runs /\ r.kind = "batch" /\ r.was = shown /\ r.i = 1 /\ ~r.confirmed /\ ~r.stopped
    <2>1. Idle.i = 1 /\ ~Idle.stopped /\ Idle \in Runs /\ ~Idle.confirmed
      BY IdleIs DEF Idle
    <2> QED
      BY <1>1, <1>2, <2>1 DEF Runs
  <1>4. Ready("count", r)
    BY <1>1, <1>3 DEF Ready, Before, Titled, Asking
  <1>5. run' = r /\ pc' = "count" /\ ask' = None
    BY <1>2 DEF OpenBatch, Goto
  <1> QED
    BY <1>1, <1>3, <1>4, <1>5, GoesTo DEF PCs

\* Both libraries are counted, each with its backend under it.
LEMMA CountsForBatch == ASSUME ConsoleInv, CountForBatch PROVE ConsoleInv'
  <1>1. /\ run \in Runs /\ Ready("count", run) /\ run.kind = "batch" /\ run.lib \in Library
        /\ ask = None /\ pc = "count"
    BY ReadyHere, RunIs DEF CountForBatch, Runs
  <1>2. Asking(run)
    BY <1>1 DEF Ready
  <1>3. /\ shown' = run.lib /\ backend' = run.lib
        /\ lib' \in [Library -> [loaded: BOOLEAN, count: Nat]]
    BY <1>1, ShownIs DEF CountForBatch, Here
  <1>4. PICK counts : counts = [run.counts EXCEPT ![run.lib] = lib'[run.lib].count]
    OBVIOUS
  <1>5. counts \in [Library -> Nat]
    BY <1>1, <1>3, <1>4 DEF Runs
  <1>6. PICK r : r = [run EXCEPT !.counts = counts, !.lib = "nds"]
    OBVIOUS
  <1>7. /\ r \in Runs /\ r.i = run.i /\ r.kind = "batch" /\ r.was = run.was
        /\ r.confirmed = run.confirmed /\ r.stopped = run.stopped
    <2>1. "nds" \in Library
      BY DEF Library
    <2> QED
      BY <1>1, <1>5, <1>6, <2>1 DEF Runs
  <1>8. /\ run' = r
        /\ UNCHANGED <<chosen, tally, worked, closing, boot, config, report>>
        /\ \/ pc' \in {"count", "ops"} /\ ask' = None
           \/ pc' = pc /\ ask' = Message("put_back")
    BY <1>4, <1>6 DEF CountForBatch, Goto, Put, BootKept, CardKept, Here
  <1>9. Frame'
    BY <1>1, <1>3, <1>8 DEF ConsoleInv, TypeOK, Frame
  <1>10. Asking(r)'
    BY <1>2, <1>7, <1>8 DEF Asking
  <1>11. Ready("count", r)' /\ Ready("ops", r)'
    BY <1>7, <1>10 DEF Ready, Before, Titled
  <1>12. Ready("put_back", r)'
    BY <1>7, <1>10 DEF Ready, Before, Titled, Asking
  <1>13. CASE pc' \in {"count", "ops"} /\ ask' = None
    BY <1>7, <1>8, <1>9, <1>11, <1>13, GoesOn DEF PCs
  <1>14. CASE pc' = pc /\ ask' = Message("put_back")
    <2>1. PICK q : q = Message("put_back")
      OBVIOUS
    <2>2. q \in Screens /\ q.yes = "put_back" /\ q.no = "put_back" /\ Granting(r, q.grants) = r
      BY <1>7, <2>1, MessageIs DEF PCs
    <2>3. Ready(q.yes, Granting(r, q.grants))' /\ Ready(q.no, r)'
      BY <1>12, <2>2
    <2> QED
      BY <1>1, <1>7, <1>8, <1>9, <1>14, <2>1, <2>2, <2>3, PutsUp
  <1> QED
    BY <1>8, <1>13, <1>14

\* What a batch is asked before it is agreed to.
LEMMA AskingReady ==
    ASSUME NEW r \in Runs, Asking(r)
    PROVE  /\ Ready("put_back", r)
           /\ r.op # "restore" => Ready("confirm", r)
           /\ r.op = "sync" => Ready("policy", r)
           /\ r.op # "restore" /\ Covers(r, r.grants) => Ready("agreed", r)
           /\ {"put_back", "policy", "confirm", "agreed"} \subseteq PCs
  <1>1. Ready("put_back", r) /\ {"put_back", "policy", "confirm", "agreed"} \subseteq PCs
    BY DEF Ready, Before, Titled, Asking, PCs
  <1>2. r.op # "restore" => Ready("confirm", r)
    BY DEF Ready, Before, Titled
  <1>3. r.op = "sync" => Ready("policy", r)
    BY DEF Ready, Before, Titled
  <1>4. r.op # "restore" /\ Covers(r, r.grants) => Ready("agreed", r)
    BY DEF Ready, Before, Titled
  <1> QED
    BY <1>1, <1>2, <1>3, <1>4

\* What the batch will do is picked.
LEMMA PicksOp == ASSUME ConsoleInv, PickOp PROVE ConsoleInv'
  <1>1. /\ run \in Runs /\ Ready("ops", run) /\ pc = "ops" /\ Frame' /\ UNCHANGED Looked
    BY ReadyHere, RunIs, InTitleIs DEF PickOp
  <1>2. Asking(run)
    BY <1>1 DEF Ready
  <1>3. PICK op \in {"backup", "sync"} :
           /\ run' = [run EXCEPT !.op = op]
           /\ Put(Question("op", {}, IF op = "sync" THEN "policy" ELSE "confirm", "put_back"))
    BY DEF PickOp
  <1>4. PICK r : r = [run EXCEPT !.op = op]
    OBVIOUS
  <1>5. r \in Runs /\ Asking(r) /\ r.op = op /\ r.kind = "batch"
    <2>1. op \in Ops
      BY DEF Ops
    <2>2. /\ r \in Runs /\ r.op = op /\ r.kind = run.kind /\ r.confirmed = run.confirmed
          /\ r.stopped = run.stopped /\ r.was = run.was /\ r.i = run.i
      BY <1>1, <1>4, <2>1 DEF Runs
    <2> QED
      BY <1>2, <2>2 DEF Asking
  <1>6. PICK yes : yes = IF op = "sync" THEN "policy" ELSE "confirm"
    OBVIOUS
  <1>7. Ready(yes, r) /\ Ready("put_back", r) /\ yes \in PCs /\ "put_back" \in PCs
    BY <1>5, <1>6, AskingReady
  <1>8. run' = r /\ pc' = pc /\ ask' = Question("op", {}, yes, "put_back")
    BY <1>3, <1>4, <1>6 DEF Put
  <1> QED
    BY <1>1, <1>5, <1>7, <1>8, Offers

\* What it will do with a conflict is picked.
LEMMA PicksPolicy == ASSUME ConsoleInv, PickPolicy PROVE ConsoleInv'
  <1>1. /\ run \in Runs /\ Ready("policy", run) /\ pc = "policy" /\ InTitle /\ Frame'
        /\ UNCHANGED Looked
    BY ReadyHere, RunIs, InTitleIs DEF PickPolicy
  <1>2. Asking(run) /\ run.op = "sync"
    BY <1>1 DEF Ready
  <1>3. CASE Ask(Message("put_back"))
    <2>1. Ready("put_back", run) /\ "put_back" \in PCs
      BY <1>1, <1>2, AskingReady
    <2> QED
      BY <1>1, <1>3, <2>1, SaysInTitle
  <1>4. ASSUME NEW policy \in {"ask", "local", "server"}, run' = [run EXCEPT !.policy = policy],
               Put(Question("policy", {}, "confirm", "put_back"))
        PROVE  ConsoleInv'
    <2>1. PICK r : r = [run EXCEPT !.policy = policy]
      OBVIOUS
    <2>2. r \in Runs /\ Asking(r) /\ r.op = "sync" /\ r.kind = "batch"
      <3>1. policy \in Policies
        BY DEF Policies
      <3>2. /\ r \in Runs /\ r.op = run.op /\ r.kind = run.kind /\ r.confirmed = run.confirmed
            /\ r.stopped = run.stopped /\ r.was = run.was /\ r.i = run.i
        BY <1>1, <2>1, <3>1 DEF Runs
      <3> QED
        BY <1>2, <3>2 DEF Asking
    <2>3. Ready("confirm", r) /\ Ready("put_back", r) /\ "confirm" \in PCs /\ "put_back" \in PCs
      BY <2>2, AskingReady
    <2>4. run' = r /\ pc' = pc /\ ask' = Question("policy", {}, "confirm", "put_back")
      BY <1>4, <2>1 DEF Put
    <2> QED
      BY <1>1, <2>2, <2>3, <2>4, Offers
  <1> QED
    BY <1>3, <1>4 DEF PickPolicy

\* The one question of a batch asks for all that its policy will do without asking.
LEMMA ConfirmsBatch == ASSUME ConsoleInv, ConfirmBatch PROVE ConsoleInv'
  <1>1. /\ run \in Runs /\ Ready("confirm", run) /\ pc = "confirm" /\ Frame' /\ UNCHANGED Looked
    BY ReadyHere, RunIs, InTitleIs DEF ConfirmBatch
  <1>2. Asking(run) /\ run.op # "restore"
    BY <1>1 DEF Ready
  <1>3. Asked \in SUBSET Grants
    BY DEF Asked, Grants
  <1>4. PICK q : q = Question("batch", Asked, "agreed", "put_back")
    OBVIOUS
  <1>5. q \in Screens /\ q.yes = "agreed" /\ q.no = "put_back" /\ q.grants = Asked
    BY <1>3, <1>4 DEF Question, Screens, PCs
  <1>6. PICK s : s = Granting(run, q.grants)
    OBVIOUS
  <1>7. /\ s \in Runs /\ s.grants = run.grants \cup Asked /\ s.op = run.op
        /\ s.policy = run.policy /\ s.kind = run.kind /\ s.confirmed = run.confirmed
        /\ s.stopped = run.stopped /\ s.was = run.was /\ s.i = run.i
    BY <1>1, <1>3, <1>5, <1>6, GrantingIs
  <1>8. Asking(s) /\ Covers(s, s.grants)
    BY <1>2, <1>7 DEF Asking, Covers, Asked
  <1>9. Ready("agreed", s) /\ Ready("put_back", run)
    BY <1>1, <1>2, <1>7, <1>8, AskingReady
  <1>10. Ready(q.yes, Granting(run, q.grants)) /\ Ready(q.no, run)
    BY <1>5, <1>6, <1>9
  <1>11. run' = run /\ pc' = pc /\ ask' = q /\ run.kind # "autosync"
    BY <1>2, <1>4 DEF ConfirmBatch, Ask, Put, Asking
  <1> QED
    BY <1>1, <1>5, <1>10, <1>11, Questions

\* The batch that was agreed to begins at the first title of the first library.
LEMMA StartsBatch == ASSUME ConsoleInv, StartBatch PROVE ConsoleInv'
  <1>1. run \in Runs /\ Ready("agreed", run) /\ Frame' /\ UNCHANGED Looked
    BY ReadyHere, RunIs, KeptIs DEF StartBatch
  <1>2. Asking(run) /\ run.op # "restore" /\ Covers(run, run.grants)
    BY <1>1 DEF Ready
  <1>3. PICK r : r = [run EXCEPT !.base = run.grants, !.confirmed = TRUE, !.lib = "3ds", !.i = 1]
    OBVIOUS
  <1>4. /\ r \in Runs /\ r.i = 1 /\ r.lib = "3ds" /\ r.kind = run.kind /\ r.op = run.op
        /\ r.policy = run.policy /\ r.confirmed /\ r.base = run.grants /\ r.was = run.was
        /\ r.stopped = run.stopped /\ r.counts[r.lib] \in Nat
    <2>1. "3ds" \in Library /\ 1 \in Nat \ {0} /\ run \in Runs
      BY <1>1 DEF Library
    <2> QED
      BY <1>3, <2>1 DEF Runs
  <1>5. OnTheWay(r)
    <2>1. SoFar(r)
      BY <1>2, <1>4, Fresh DEF Asking
    <2> QED
      BY <1>2, <1>4, <2>1 DEF OnTheWay, Asking, Covers
  <1>6. Ready("loop", r)
    BY <1>4, <1>5 DEF Ready, Before, Titled
  <1>7. run' = r /\ pc' = "loop" /\ ask' = None
    BY <1>3 DEF StartBatch, Goto
  <1>8. r.kind # "autosync"
    BY <1>2, <1>4 DEF Asking
  <1> QED
    BY <1>1, <1>4, <1>6, <1>7, <1>8, GoesTo DEF PCs

\* The run is over, and the library it began from is on the screen again.
LEMMA PutsBack == ASSUME ConsoleInv, PutBack \/ Tallied PROVE ConsoleInv'
  <1>1. PICK there \in {"put_back", "tallied"} : At(there)
    BY DEF PutBack, Tallied
  <1>2. run \in Runs /\ Ready(there, run) /\ ask = None /\ pc = there
    BY <1>1, ReadyHere, RunIs
  <1>3. run.kind \in {"one", "batch"}
    BY <1>1, <1>2 DEF Ready
  <1>4. /\ {shown, backend, chosen, run.was} \subseteq Library
        /\ lib \in [Library -> [loaded: BOOLEAN, count: Nat]]
    BY <1>2 DEF ConsoleInv, TypeOK, Runs
  <1>5. UNCHANGED <<chosen, tally, worked, run, closing, boot, config, report>>
    BY DEF PutBack, Tallied, BootKept, CardKept, RunKept
  <1>6. /\ shown' = chosen /\ backend' = chosen
        /\ lib' \in [Library -> [loaded: BOOLEAN, count: Nat]]
    <2>1. CASE PutBack
      <3>1. At("put_back") /\ ShowLibrary(run.was)
        BY <2>1 DEF PutBack, Was
      <3>2. Ready("put_back", run)
        BY <3>1, ReadyHere
      <3>3. run.was = chosen
        BY <3>2 DEF Ready
      <3> QED
        BY <1>4, <3>1, <3>3, ShownIs
    <2>2. CASE Tallied
      <3>1. At("tallied") /\ (ReloadLibrary(shown) \/ UNCHANGED <<backend, shown, lib>>)
        BY <2>2 DEF Tallied
      <3>2. Ready("tallied", run)
        BY <3>1, ReadyHere
      <3>3. shown = chosen /\ backend = chosen
        BY <3>2 DEF Ready, Home
      <3>4. CASE ReloadLibrary(shown)
        BY <1>4, <3>3, <3>4, ShownIs
      <3>5. CASE UNCHANGED <<backend, shown, lib>>
        BY <1>4, <3>3, <3>5
      <3> QED
        BY <3>1, <3>4, <3>5
    <2> QED
      BY <2>1, <2>2
  <1>7. Frame'
    BY <1>4, <1>5, <1>6 DEF ConsoleInv, TypeOK, Frame
  <1>8. PICK r : r = run
    OBVIOUS
  <1>9. Ready("back", r)' /\ Ready("tallied", r)'
    <2>1. Home'
      BY <1>5, <1>6 DEF Home
    <2> QED
      BY <1>3, <1>8, <2>1 DEF Ready, Before, Titled
  <1>10. \/ pc' = "back" /\ ask' = None
         \/ pc' = pc /\ ask' = Message("tallied")
    BY DEF PutBack, Tallied, Goto, Put
  <1>11. CASE pc' = "back" /\ ask' = None
    BY <1>2, <1>3, <1>5, <1>7, <1>8, <1>9, <1>11, GoesOn DEF PCs
  <1>12. CASE pc' = pc /\ ask' = Message("tallied")
    <2>1. PICK q : q = Message("tallied")
      OBVIOUS
    <2>2. q \in Screens /\ q.yes = "tallied" /\ q.no = "tallied" /\ Granting(r, q.grants) = r
      BY <1>2, <1>8, <2>1, MessageIs DEF PCs
    <2>3. Ready(q.yes, Granting(r, q.grants))' /\ Ready(q.no, r)'
      BY <1>9, <2>2
    <2>4. pc \notin {"off", "linger"} /\ run' = r /\ r \in Runs /\ r.kind # "autosync"
      BY <1>1, <1>2, <1>3, <1>5, <1>8
    <2> QED
      BY <1>5, <1>7, <1>12, <2>1, <2>2, <2>3, <2>4, PutsUp
  <1> QED
    BY <1>10, <1>11, <1>12

\* Back at the grid nothing of what was on is left.
LEMMA GoesBack == ASSUME ConsoleInv, Back PROVE ConsoleInv'
  <1>1. At("back") /\ Frame'
    BY FrameIs DEF Back, ConsoleInv, Frame, LibrariesKept, BootKept, CardKept
  <1>2. Ready("back", run)
    BY <1>1, ReadyHere
  <1>3. Home'
    BY <1>2 DEF Back, LibrariesKept, Ready, Home
  <1>4. /\ pc' = "grid" /\ ask' = None /\ run' = Idle /\ tally' = Zeroed /\ worked' = <<>>
    BY DEF Back, Goto
  <1>5. Ready("grid", Idle)'
    BY <1>3, <1>4 DEF Ready, Before, Titled, Nothing, Idle
  <1> QED
    BY <1>1, <1>4, <1>5, Clears DEF PCs

-----------------------------------------------------------------------------
(***************************************************************************)
(* The invariant is one, and what it says.                                 *)
(***************************************************************************)

\* Every step of the program and of the person keeps the invariant.
LEMMA NextConsole == ConsoleInv /\ [Next]_vars => ConsoleInv'
  <1> SUFFICES ASSUME ConsoleInv, [Next]_vars PROVE ConsoleInv'
    OBVIOUS
  <1>1. CASE UNCHANGED vars
    <2> USE DEF vars
    <2>1. Frame' /\ UNCHANGED Looked /\ UNCHANGED <<pc, run, tally, ask, worked>>
      BY <1>1, FrameIs DEF ConsoleInv, Frame, Looked
    <2>2. TypeOK'
      BY <2>1 DEF ConsoleInv, TypeOK, Frame
    <2>3. Stands'
      BY <2>1, ReadyKept DEF ConsoleInv, Stands
    <2>4. Rightly' /\ Tallies'
      BY <2>1 DEF ConsoleInv, Rightly, Tallies, Title, Works
    <2> QED
      BY <2>2, <2>3, <2>4 DEF ConsoleInv
  <1>2. CASE Program
    <2>1. CASE \/ BackedOut \/ UpdateCheck \/ UpdateInstall \/ UpdateOver
               \/ Welcome \/ WelcomeChoose \/ (\E paired \in BOOLEAN : WelcomePair(paired))
               \/ Welcomed
      BY <2>1, Answers, Updates, Welcomes
    <2>2. CASE \/ Autosync \/ NetworkProbe \/ CountForAutosync \/ OpenReport \/ WriteReport
               \/ Linger \/ NextTitle \/ StopBatch \/ NextLibrary
      BY <2>2, Autosyncs, Probes, CountsForAutosync, Reports, Leaves, TakesTitle, Stops, EndsLibrary
    <2>3. CASE \/ SyncTitle \/ ChooseSide \/ Upload \/ Download \/ Consent \/ Restore \/ Restored
               \/ Declined \/ Cancelled \/ Deferred \/ Noticed \/ Backup
      BY <2>3, SyncsTitle, ChoosesSide, Uploads, DownloadStep, Consents, RestoreStep, EndsOfATitle
    <2>4. CASE \/ Listing \/ Listed \/ (closing /\ LeaveGrid) \/ PickBackup \/ Picked
               \/ DeleteBackup \/ CountForBatch \/ PickOp \/ PickPolicy \/ ConfirmBatch
               \/ StartBatch \/ PutBack \/ Tallied \/ Back \/ Exit
      BY <2>4, Lists, Leaves, Picks, CountsForBatch, PicksOp, PicksPolicy, ConfirmsBatch,
         StartsBatch, PutsBack, GoesBack, Forgets
    <2> QED
      BY <1>2, <2>1, <2>2, <2>3, <2>4 DEF Program
  <1>3. CASE Person
    BY <1>3, Launches, Answers, Closes, Forgets, Leaves, Turns, Selects, OpensBatch DEF Person
  <1> QED
    BY <1>1, <1>2, <1>3 DEF Next

\* The invariant holds of every state of a launch.
LEMMA ConsoleIsInvariant == Spec => []ConsoleInv
  <1>1. Init => ConsoleInv
    BY InitConsole
  <1>2. ConsoleInv /\ [Next]_vars => ConsoleInv'
    BY NextConsole
  <1> QED
    BY <1>1, <1>2, PTL DEF Spec

\* Whatever is answered, refused, closed or cut off, a launch's state has its types: no
\* screen leads out of main, and no counter below zero.
THEOREM TypeCorrect == Spec => []TypeOK
  <1>1. ConsoleInv => TypeOK
    BY DEF ConsoleInv
  <1> QED
    BY <1>1, ConsoleIsInvariant, PTL

\* A title is worked through its own library's backend, and the grid stands on the library
\* the person turned to: whatever was counted for a batch, put back after it, reloaded after
\* a download or listed by autosync (select_backend; main.c, batch.c, autosync.c).
THEOREM TitlesThroughTheirOwn == Spec => []OwnLibrary
  <1>1. ConsoleInv => OwnLibrary
    <2> SUFFICES ASSUME ConsoleInv PROVE OwnLibrary
      OBVIOUS
    <2>1. At("grid") => Home
      BY GridIs
    <2> QED
      BY <2>1 DEF ConsoleInv, Rightly, OwnLibrary, Home
  <1> QED
    BY <1>1, ConsoleIsInvariant, PTL

\* No title twice in a run, and none left out of one that came to its end, for any number
\* of titles in either library (batch.c, autosync.c).
THEOREM TitlesAreWorkedOnce == Spec => []EachTitleOnce
  <1>1. ConsoleInv => EachTitleOnce
    <2> SUFFICES ASSUME ConsoleInv PROVE EachTitleOnce
      OBVIOUS
    <2>1. \A j, k \in DOMAIN worked :
             <<worked[j].lib, worked[j].i>> = <<worked[k].lib, worked[k].i>> => j = k
      BY DEF ConsoleInv, Rightly, Title
    <2>2. ASSUME \/ At("put_back") /\ run.confirmed /\ ~run.stopped
                 \/ At("write") /\ tally.network /\ ~closing
          PROVE  AllDone(run)
      <3>1. PICK there \in {"put_back", "write"} :
               /\ At(there)
               /\ there = "put_back" => run.confirmed /\ ~run.stopped
               /\ there = "write" => tally.network /\ ~closing
        BY <2>2
      <3>2. Ready(there, run)
        BY <3>1, ReadyHere
      <3> QED
        BY <3>1, <3>2 DEF Ready
    <2>3. Done = {<<worked[k].lib, worked[k].i>> : k \in DOMAIN worked}
      BY DEF Done, Title
    <2>4. UNION {{l} \X (1 .. run.counts[l]) : l \in Library} =
             ({"3ds"} \X (1 .. run.counts["3ds"])) \cup ({"nds"} \X (1 .. run.counts["nds"]))
      BY DEF Library
    <2> QED
      BY <2>1, <2>2, <2>3, <2>4 DEF AllDone, EachTitleOnce
  <1> QED
    BY <1>1, ConsoleIsInvariant, PTL

\* What a person reads after a sync on the way to HOME is what happened, title by title,
\* and a failure is never left out (autosync.c, autosync_steps.c).
THEOREM TheReportTells == Spec => []ReportTells
  <1>1. ConsoleInv => ReportTells
    <2> SUFFICES ASSUME ConsoleInv, pc = "linger", ~run.refused
                 PROVE  /\ report # None /\ report.fresh /\ report.text # None
                        /\ LET text == report.text
                           IN /\ text.network = tally.network
                              /\ text.titles = Len(worked)
                              /\ text.uploaded = Works({"uploaded"})
                              /\ text.downloaded = Works({"downloaded"})
                              /\ text.deferred = Works({"deferred"})
                              /\ text.unchanged = Works({"unchanged", "unrecorded"})
                              /\ (text.failed = 0) = (Works({"failed", "unrecorded"}) = 0)
      BY DEF ReportTells
    <2>1. ask = None /\ Ready("linger", run)
      BY DEF ConsoleInv, Stands
    <2>2. run.kind = "autosync" /\ report = [fresh |-> TRUE, text |-> ReportText]
      BY <2>1 DEF Ready
    <2>3. Works({"unchanged", "unrecorded", "declined"}) = Works({"unchanged", "unrecorded"})
      <3>1. \A k \in DOMAIN worked : worked[k].deed # "declined"
        BY <2>2 DEF ConsoleInv, Rightly
      <3>2. {k \in DOMAIN worked : worked[k].deed \in {"unchanged", "unrecorded", "declined"}} =
               {k \in DOMAIN worked : worked[k].deed \in {"unchanged", "unrecorded"}}
        BY <3>1
      <3> QED
        BY <3>2 DEF Works
    <2>4. /\ tally.failed = Works({"failed", "unrecorded"}) /\ tally.failed \in Nat
          /\ tally.sync_failed \in Nat /\ tally.sync_failed <= tally.failed
      BY DEF ConsoleInv, Tallies, TypeOK
    <2>5. (tally.sync_failed + tally.failed = 0) = (Works({"failed", "unrecorded"}) = 0)
      BY <2>4
    <2>6. report # None
      <3>1. report \in [fresh: BOOLEAN, text: Texts \cup {None}]
        BY <2>2, ReportIs
      <3> QED
        BY <3>1, NoneIsNothing
    <2>7. report.fresh /\ report.text = ReportText /\ ReportText # None
      BY <2>2, ReportIs, NoneIsNothing
    <2> QED
      BY <2>3, <2>5, <2>6, <2>7 DEF ReportText, ConsoleInv, Tallies
  <1> QED
    BY <1>1, ConsoleIsInvariant, PTL

\* Nothing that changed a save went without a person's leave, on any path to it: a policy
\* that was picked covers what it does, and closing the console grants nothing
\* (ui_backend.c, autosync_steps.c, batch.c).
THEOREM NothingWithoutLeave == Spec => []Consented
  <1>1. ConsoleInv => Consented
    BY DEF ConsoleInv, Rightly, Stands, Consented
  <1> QED
    BY <1>1, ConsoleIsInvariant, PTL

=============================================================================
