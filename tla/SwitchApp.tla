------------------------------ MODULE SwitchApp ------------------------------
(***************************************************************************)
(* The Switch application's threads (platform/nx/source/ui/ops.cpp,        *)
(* main_screen.cpp, main.cpp): one main loop that draws and hears the      *)
(* buttons, a worker thread for the one operation that is on, and a        *)
(* detached thread per title list that reads icons.                        *)
(*                                                                         *)
(* The worker and the icon threads hand the main thread functions to run   *)
(* (brls::sync, a FIFO); the worker waits for an answer or for a dialog to *)
(* be gone through a promise on its own stack.  borealis is external: its  *)
(* dialogs are a stack, a pop takes whatever is on top, fades it out and   *)
(* then calls back, and while anything fades no button is heard.           *)
(*                                                                         *)
(* What core does to the title is DaemoonSync's; here it is the questions  *)
(* it asks and that it reads the title list while it works.                *)
(***************************************************************************)
EXTENDS Naturals, Sequences, FiniteSets

CONSTANTS
    None,          \* no worker, no icon, no answer
    Counts,        \* bound: how many titles a reading of the list may give
    MaxOps,        \* bound: operations started in a launch
    MaxReloads,    \* bound: reloads asked for in a launch
    MaxAsks        \* bound: questions core asks in one sync

ASSUME SwitchBounds ==
    Counts \subseteq Nat /\ MaxOps \in Nat /\ MaxReloads \in Nat /\ MaxAsks \in Nat

VARIABLES
    main,          \* "loop", "exited" (the list is freed, the process still there), "off"
    queue,         \* m_sync_functions: what the main thread was given to run
    stack,         \* the dialogs over the grid, the last on top
    progress,      \* whether g_progress is set
    running,       \* g_running
    worker,        \* the operation's thread, None when there is none
    list,          \* app().titles and the screen's generation
    tiles,         \* whose icon each tile shows
    loaders,       \* the icon threads
    ops, reloads,  \* operations and reloads so far
    given, took    \* history: what the person pressed, and what the worker made of it

vars == <<main, queue, stack, progress, running, worker, list, tiles, loaders, ops, reloads,
          given, took>>

Ops == {"backup", "sync", "selftest"}

\* A question: what can be pressed, and what B means (None: it has to be answered).
Confirm == [options |-> {"no", "yes"}, cancel |-> "no"]
Choose  == [options |-> {"local", "server", "both"}, cancel |-> "neither"]
Result  == [options |-> {"ok"}, cancel |-> None]

Questions == {Confirm, Choose, Result}
Buttons   == {"no", "yes", "local", "server", "both", "ok", "B"}
Answers   == {"no", "yes", "local", "server", "both", "ok", "neither", "closed"}

\* A promise is named by its operation and its number in it.
Promises == (1 .. MaxOps) \X Nat

Dialogs == [kind: {"progress", "ask"}, p: Promises, q: Questions \cup {None},
            fade: {"in", "no", "out"}, sets: (Promises \X Answers) \cup {None}]

Tasks == [do: {"open", "end"}] \cup [do: {"close"}, p: Promises]
            \cup [do: {"ask"}, p: Promises, q: Questions] \cup [do: {"icon"}, gen: Nat, i: Nat]

\* k: promises made; waits: the one it waits for; got: what that was set to; then, no:
\* where an answer and a "no" lead; asks: core's questions so far; r: core's result.
Workers == [n: 1 .. MaxOps, op: Ops, i: Nat, gen: Nat,
            pc: {"begin", "second", "ask", "open", "work", "close", "closing", "report", "end"},
            k: Nat, waits: Promises \cup {None}, got: Answers \cup {None},
            then: {"second", "open", "work", "end"}, no: {"work", "end"},
            asks: 0 .. MaxAsks, r: {"ok", "failed"}]

ASSUME NoneIsNoWorker == None \notin Workers

TypeOK ==
    /\ main \in {"loop", "exited", "off"}
    /\ queue \in Seq(Tasks) /\ stack \in Seq(Dialogs)
    /\ progress \in BOOLEAN /\ running \in BOOLEAN
    /\ worker = None \/ worker \in Workers
    /\ list \in [gen: Nat, count: Counts \cup {0}, freed: BOOLEAN]
    /\ tiles \in [1 .. list.count -> {None} \cup (Nat \X Nat)]
    /\ loaders \subseteq [gen: Nat, next: Nat, count: Nat]
    /\ ops \in 0 .. MaxOps /\ reloads \in 0 .. MaxReloads
    /\ given \subseteq Promises \X Buttons /\ took \subseteq Promises \X Answers

NoList == [gen |-> 0, count |-> 0, freed |-> TRUE]

Init ==
    /\ main = "off" /\ queue = <<>> /\ stack = <<>> /\ progress = FALSE /\ running = FALSE
    /\ worker = None /\ list = NoList /\ tiles = <<>> /\ loaders = {}
    /\ ops = 0 /\ reloads = 0 /\ given = {} /\ took = {}

\* The process is gone, and all of it with it.
Off ==
    /\ main' = "off" /\ queue' = <<>> /\ stack' = <<>> /\ progress' = FALSE /\ running' = FALSE
    /\ worker' = None /\ list' = NoList /\ tiles' = <<>> /\ loaders' = {}
    /\ ops' = 0 /\ reloads' = 0 /\ given' = {} /\ took' = {}

-----------------------------------------------------------------------------
(* The title list.                                                         *)

\* MainScreen::rebuild: the old list is freed and another read, the tiles are built
\* anew without pictures, and a thread starts that reads them from ids of its own.
Rebuild ==
    \E n \in Counts :
        /\ list' = [gen |-> list.gen + 1, count |-> n, freed |-> FALSE]
        /\ tiles' = [i \in 1 .. n |-> None]
        /\ loaders' = IF n = 0 THEN loaders
                      ELSE loaders \cup {[gen |-> list.gen + 1, next |-> 1, count |-> n]}

Launch ==
    /\ main = "off" /\ main' = "loop"
    /\ Rebuild
    /\ UNCHANGED <<queue, stack, progress, running, worker, ops, reloads, given, took>>

CurrentAlways(gen) == TRUE

\* generation.load() == wanted
Current(gen) == gen = list.gen

\* One title of an icon thread, which looks at the generation before it reads the icon:
\* the list may be read again in between, so one icon may still come from a stale list.
\* A title without an icon is passed over.
LoadIcon(l) ==
    /\ loaders' = (loaders \ {l}) \cup
                    (IF Current(l.gen) /\ l.next < l.count THEN {[l EXCEPT !.next = @ + 1]}
                     ELSE {})
    /\ queue' \in {queue, Append(queue, [do |-> "icon", gen |-> l.gen, i |-> l.next])}
    /\ UNCHANGED <<main, stack, progress, running, worker, list, tiles, ops, reloads, given, took>>

-----------------------------------------------------------------------------
(* Dialogs, as vendor/borealis has them.                                   *)

Heard == main = "loop" /\ \A d \in DOMAIN stack : stack[d].fade = "no"

Push(kind, p, q) ==
    stack' = Append(stack, [kind |-> kind, p |-> p, q |-> q, fade |-> "in", sets |-> None])

\* popActivity: whatever is on top.
Pop(p, v) == stack' = [stack EXCEPT ![Len(stack)].fade = "out", ![Len(stack)].sets = <<p, v>>]

Waited(p) == IF worker = None THEN FALSE ELSE worker.waits = p

\* A promise is set.  One whose function has returned is no promise any more: nothing
\* comes of it, or the process dies of it (FadedOut).
SetPromise(p, v) == worker' = IF Waited(p) THEN [worker EXCEPT !.got = v] ELSE worker

FadedIn ==
    /\ main = "loop"
    /\ \E d \in DOMAIN stack :
          stack[d].fade = "in" /\ stack' = [stack EXCEPT ![d].fade = "no"]
    /\ UNCHANGED <<main, queue, progress, running, worker, list, tiles, loaders, ops, reloads,
                   given, took>>

Without(d) == [e \in 1 .. Len(stack) - 1 |-> IF e < d THEN stack[e] ELSE stack[e + 1]]

FadedOut ==
    /\ main = "loop"
    /\ \E d \in DOMAIN stack :
          /\ stack[d].fade = "out"
          /\ \/ /\ stack' = Without(d)
                /\ SetPromise(stack[d].sets[1], stack[d].sets[2])
                /\ UNCHANGED <<main, queue, progress, running, list, tiles, loaders, ops,
                               reloads, given, took>>
             \/ ~Waited(stack[d].sets[1]) /\ Off

-----------------------------------------------------------------------------
(* What the main thread runs for the others, here one function at a time:  *)
(* a frame runs all it finds, and anything may be between two of those.    *)

RunOpen ==
    /\ IF progress THEN UNCHANGED stack ELSE Push("progress", <<ops, 0>>, None)
    /\ progress' = TRUE
    /\ UNCHANGED <<running, worker, list, tiles, loaders>>

RunClose(task) ==
    /\ IF progress THEN Pop(task.p, "closed") /\ worker' = worker
                   ELSE SetPromise(task.p, "closed") /\ stack' = stack
    /\ progress' = FALSE
    /\ UNCHANGED <<running, list, tiles, loaders>>

RunAsk(task) ==
    /\ Push("ask", task.p, task.q)
    /\ UNCHANGED <<progress, running, worker, list, tiles, loaders>>

RunIcon(task) ==
    /\ tiles' = IF Current(task.gen) /\ task.i \in DOMAIN tiles
                THEN [tiles EXCEPT ![task.i] = <<task.gen, task.i>>] ELSE tiles
    /\ UNCHANGED <<stack, progress, running, worker, list, loaders>>

\* The operation is over, and the list is read again.
RunEnd ==
    /\ running' = FALSE /\ Rebuild
    /\ UNCHANGED <<stack, progress, worker>>

RunTask ==
    /\ main = "loop" /\ queue # <<>>
    /\ queue' = Tail(queue)
    /\ LET task == Head(queue) IN
          \/ task.do = "open"  /\ RunOpen
          \/ task.do = "close" /\ RunClose(task)
          \/ task.do = "ask"   /\ RunAsk(task)
          \/ task.do = "icon"  /\ RunIcon(task)
          \/ task.do = "end"   /\ RunEnd
    /\ UNCHANGED <<main, ops, reloads, given, took>>

-----------------------------------------------------------------------------
(* The person.  The progress dialog has nothing to put the cursor on, so   *)
(* that under it the grid still hears the buttons.                         *)

AtGrid == Heard /\ \A d \in DOMAIN stack : stack[d].kind = "progress"

\* A button of the grid while an operation is on does nothing, and start() looks again; a
\* sync without a server only says so.
Start(op, i) ==
    /\ AtGrid /\ ~running /\ ops < MaxOps
    /\ running' = TRUE /\ ops' = ops + 1
    /\ worker' = [n |-> ops + 1, op |-> op, i |-> i, gen |-> list.gen, pc |-> "begin", k |-> 0,
                  waits |-> None, got |-> None, then |-> "end", no |-> "end", asks |-> 0,
                  r |-> "ok"]
    /\ given' = {} /\ took' = {}
    /\ UNCHANGED <<main, queue, stack, progress, list, tiles, loaders, reloads>>

Reload ==
    /\ AtGrid /\ ~running /\ reloads < MaxReloads
    /\ reloads' = reloads + 1
    /\ Rebuild
    /\ UNCHANGED <<main, queue, stack, progress, running, worker, ops, given, took>>

MeansFirst(q, button) == IF button = "B" /\ q = Confirm THEN "yes" ELSE button

\* What a press tells the one who asked.
Means(q, button) == IF button = "B" THEN q.cancel ELSE button

Press(button) ==
    /\ Heard /\ stack # <<>>
    /\ LET top == stack[Len(stack)] IN
          /\ top.kind = "ask"
          /\ button \in top.q.options \/ (button = "B" /\ top.q.cancel # None)
          /\ Pop(top.p, Means(top.q, button))
          /\ given' = given \cup {<<top.p, button>>}
    /\ UNCHANGED <<main, queue, progress, running, worker, list, tiles, loaders, ops, reloads, took>>

\* + or HOME: the loop ends, its views go, and main frees the list on its way out.
Quit ==
    /\ main = "loop" /\ main' = "exited"
    /\ stack' = <<>> /\ list' = [list EXCEPT !.freed = TRUE]
    /\ UNCHANGED <<queue, progress, running, worker, tiles, loaders, ops, reloads, given, took>>

ProcessEnds == main = "exited" /\ Off

-----------------------------------------------------------------------------
(* The worker.                                                             *)

WorkerIs(pc) == worker # None /\ worker.pc = pc

Promise == <<worker.n, worker.k + 1>>

\* askBlocking, called: the question is on its way, and the thread waits.
Ask(q, then, no) ==
    /\ queue' = Append(queue, [do |-> "ask", p |-> Promise, q |-> q])
    /\ worker' = [worker EXCEPT !.pc = "ask", !.k = @ + 1, !.waits = Promise, !.got = None,
                                !.then = then, !.no = no]

Goto(pc) == worker' = [worker EXCEPT !.pc = pc] /\ queue' = queue

WorkerKeeps == UNCHANGED <<main, stack, progress, running, list, tiles, loaders, ops, reloads, given>>

\* A backup asks once, the self test twice, a sync leaves it to core.
Begin ==
    /\ \/ WorkerIs("begin") /\ worker.op = "backup"   /\ Ask(Confirm, "open", "end")
       \/ WorkerIs("begin") /\ worker.op = "selftest" /\ Ask(Confirm, "second", "end")
       \/ WorkerIs("begin") /\ worker.op = "sync"     /\ Goto("open")
       \/ WorkerIs("second") /\ Ask(Confirm, "open", "end")
    /\ WorkerKeeps /\ UNCHANGED took

\* The promise was set: askBlocking returns.
Answered ==
    /\ WorkerIs("ask") /\ worker.got # None
    /\ took' = took \cup {<<worker.waits, worker.got>>}
    /\ worker' = [worker EXCEPT !.pc = IF worker.got = "no" THEN worker.no ELSE worker.then, !.waits = None]
    /\ queue' = queue
    /\ WorkerKeeps

ProgressOpen ==
    /\ WorkerIs("open")
    /\ queue' = Append(queue, [do |-> "open"])
    /\ worker' = [worker EXCEPT !.pc = "work"]
    /\ WorkerKeeps /\ UNCHANGED took

\* Core works the title; of the three only a sync asks in between.
Work ==
    /\ WorkerIs("work")
    /\ \/ \E r \in {"ok", "failed"} :
             /\ worker' = [worker EXCEPT !.pc = "close", !.r = r] /\ queue' = queue
       \/ /\ worker.op = "sync" /\ worker.asks < MaxAsks
          /\ \E q \in {Confirm, Choose} :
                /\ queue' = Append(queue, [do |-> "ask", p |-> Promise, q |-> q])
                /\ worker' = [worker EXCEPT !.pc = "ask", !.k = @ + 1, !.waits = Promise,
                                            !.got = None, !.then = "work", !.no = "work",
                                            !.asks = @ + 1]
    /\ WorkerKeeps /\ UNCHANGED took

ProgressClose ==
    /\ WorkerIs("close")
    /\ queue' = Append(queue, [do |-> "close", p |-> Promise])
    /\ worker' = [worker EXCEPT !.pc = "closing", !.k = @ + 1, !.waits = Promise, !.got = None]
    /\ WorkerKeeps /\ UNCHANGED took

\* wait_for: the dialog is gone, or three seconds are.
Closed ==
    /\ WorkerIs("closing")
    /\ worker' = [worker EXCEPT !.pc = "report", !.waits = None]
    /\ queue' = queue
    /\ WorkerKeeps /\ UNCHANGED took

\* A backup that came out well says so from this very thread, while the main thread may
\* be drawing: it is shown, or the process dies of it.
Report ==
    /\ WorkerIs("report")
    /\ IF worker.op = "backup" /\ worker.r = "ok"
       THEN (Goto("end") /\ WorkerKeeps /\ UNCHANGED took) \/ Off
       ELSE Ask(Result, "end", "end") /\ WorkerKeeps /\ UNCHANGED took

EndTasksUnlessDeclined(w) == IF w.got = "no" THEN <<>> ELSE <<[do |-> "end"]>>

\* start(): whichever way the body ended, the main thread is told.
EndTasks(w) == <<[do |-> "end"]>>

FreeAtOnce == FALSE

\* g_running stays set until the main thread comes to it.
HeldUntilRun == running

End ==
    /\ WorkerIs("end")
    /\ queue' = queue \o EndTasks(worker)
    /\ worker' = None /\ running' = HeldUntilRun
    /\ UNCHANGED <<main, stack, progress, list, tiles, loaders, ops, reloads, given, took>>

-----------------------------------------------------------------------------
MainStep   == FadedIn \/ FadedOut \/ RunTask \/ ProcessEnds
WorkerStep == Begin \/ Answered \/ ProgressOpen \/ Work \/ ProgressClose \/ Closed \/ Report \/ End

Person ==
    \/ Launch \/ Reload \/ Quit
    \/ \E op \in Ops : \E i \in 1 .. list.count : Start(op, i)
    \/ \E button \in Buttons : Press(button)

Next == MainStep \/ WorkerStep \/ Person \/ (\E l \in loaders : LoadIcon(l))

\* Both threads run; nobody has to press anything.
Spec == Init /\ [][Next]_vars /\ WF_vars(MainStep) /\ WF_vars(WorkerStep)

-----------------------------------------------------------------------------
(* Properties.                                                             *)

\* What the worker takes for an answer is what the person pressed on that very question,
\* B never for a yes or for a side, and the self test clears a save only after two of
\* them: a dialog that is closed for another, or that goes without an answer, answers
\* nothing (ops.cpp:139-142, ui_backend.cpp:40-45).
AnswersAreGiven ==
    /\ \A t \in took : \/ t \in given
                       \/ t[2] \in {"no", "neither"} /\ <<t[1], "B">> \in given
    /\ WorkerIs("work") /\ worker.op = "selftest" =>
          Cardinality({t \in given : t[2] = "yes"}) = 2

\* As long as the loop runs, the titles an operation was started on are the titles it
\* works: no reload frees them under it, and no second operation starts beside it
\* (ops.cpp:17-19, main_screen.cpp:120-126).
ListHeld ==
    main = "loop" =>
        /\ worker # None => running /\ worker.gen = list.gen /\ worker.i <= list.count
        /\ Cardinality({k \in DOMAIN queue : queue[k].do = "end"})
               + (IF worker = None THEN 0 ELSE 1) <= 1

\* A tile shows its own title's icon, whichever of the reading threads brings it, however
\* late (main_screen.cpp:139-141, 241-244).
IconsOnTheirTiles == \A i \in DOMAIN tiles : tiles[i] \in {None, <<list.gen, i>>}

Asking  == Heard /\ stack # <<>> /\ stack[Len(stack)].kind = "ask"
Waiting == worker # None /\ \E g \in given : g[1] = worker.waits

\* An operation comes to its end or to a question on the screen that can be answered, and
\* one that is answered goes on: the two threads never wait for each other
\* (ops.cpp:132-142).
OperationEnds ==
    /\ running ~> (~running \/ Asking \/ main # "loop")
    /\ Waiting ~> (~Waiting \/ main # "loop")

-----------------------------------------------------------------------------
(* What comments say and the code does not keep; TLC refutes each.         *)

\* "No buttons and no way out.  A save being written is not something to walk away from
\* halfway" (ops.cpp:91-92): + quits under the progress dialog too (main.cpp:200),
\* and the list is freed while the worker reads it.
NoWayOut == main = "exited" => worker = None

\* The promise "outlives every callback that captures it" is askBlocking's (ops.cpp:161-162);
\* progressClose's does not once it has given up, and "Nothing on the worker touches a view"
\* (ops.cpp:12-13) is not so for the report of a backup: either can end the process.
OnlyQuitEnds == [][main' = "off" => main = "exited"]_main

=============================================================================
