--------------------------- MODULE SwitchAppProofs ---------------------------
(***************************************************************************)
(* Theorems of SwitchApp for lists of any lengths and any number of        *)
(* operations, reloads and questions: what the worker takes for an answer, *)
(* the list an operation works on, and whose icon a tile shows.            *)
(***************************************************************************)
EXTENDS SwitchApp, FiniteSetTheorems, TLAPS

-----------------------------------------------------------------------------
(***************************************************************************)
(* The invariant.                                                          *)
(***************************************************************************)

\* The person pressed v on the question p, or B where B means v.
Given(p, v) == <<p, v>> \in given \/ (v \in {"no", "neither"} /\ <<p, "B">> \in given)

\* What the types leave open.
Shape ==
    /\ \A d \in DOMAIN stack : stack[d].kind = "ask" => stack[d].q \in Questions
    /\ \A d \in DOMAIN stack : stack[d].fade = "out" => stack[d].sets \in Promises \X Answers
    /\ worker # None => worker.n = ops /\ (worker.pc = "ask" => worker.k >= 1)
    /\ \A j \in DOMAIN queue : queue[j].do = "open" => ops >= 1
    /\ main = "off" => worker = None /\ queue = <<>> /\ stack = <<>> /\ loaders = {}

EndAt(j) == queue[j].do = "end"

\* An operation is on from start() to the end that the worker leaves in the queue, and there
\* is one of the two.
Held ==
    main = "loop" =>
        /\ worker # None => /\ running /\ worker.gen = list.gen /\ worker.i <= list.count
                            /\ \A j \in DOMAIN queue : ~EndAt(j)
        /\ ~running => worker = None /\ \A j \in DOMAIN queue : ~EndAt(j)
        /\ \A j, k \in DOMAIN queue : EndAt(j) /\ EndAt(k) => j = k

\* A promise that was made: of an earlier operation, or of this one and not after its last.
Issued(p) == p[1] <= ops /\ (worker # None /\ p[1] = ops => p[2] <= worker.k)

\* No promise is waited for twice, and none that a closing dialog sets is a question's.
Named ==
    /\ \A j \in DOMAIN queue : queue[j].do \in {"ask", "close"} => Issued(queue[j].p)
    /\ \A d \in DOMAIN stack : stack[d].fade = "out" => Issued(stack[d].sets[1])
    /\ worker # None =>
         worker.waits = IF worker.pc \in {"ask", "closing"} THEN <<worker.n, worker.k>> ELSE None
    /\ WorkerIs("ask") => \A j \in DOMAIN queue : queue[j].do = "close" => queue[j].p # worker.waits

\* The self test's two questions before it clears a save.
Clearing == worker.op = "selftest" /\ worker.then \in {"second", "open"}

\* The one question that is asked and not answered yet.
Open(p, q) == WorkerIs("ask") /\ p = worker.waits /\ worker.got = None /\ (Clearing => q = Confirm)

AskAt(j) == queue[j].do = "ask"
AskOn(d) == stack[d].kind = "ask"

\* An answer that the person gave and that the question allows.
Fits(p, v) == Given(p, v) /\ (Clearing => v \in {"yes", "no"})

\* A question is in the queue or on the screen, once, until its promise is set to what was
\* pressed on it.
OneQuestion ==
    /\ \A j \in DOMAIN queue : AskAt(j) => Open(queue[j].p, queue[j].q)
    /\ \A d \in DOMAIN stack : AskOn(d) => Open(stack[d].p, stack[d].q)
    /\ \A j, k \in DOMAIN queue : AskAt(j) /\ AskAt(k) => j = k
    /\ \A d, e \in DOMAIN stack : AskOn(d) /\ AskOn(e) => d = e
    /\ \A j \in DOMAIN queue, d \in DOMAIN stack : ~(AskAt(j) /\ AskOn(d))
    /\ \A d \in DOMAIN stack :
         stack[d].fade = "out" /\ WorkerIs("ask") /\ stack[d].sets[1] = worker.waits
            => AskOn(d) /\ Fits(stack[d].sets[1], stack[d].sets[2])
    /\ WorkerIs("ask") /\ worker.got # None => Fits(worker.waits, worker.got)

Yes(j) == <<<<ops, j>>, "yes">> \in given

\* What was taken was given, all that was given is this operation's, and how far the self
\* test may be by the questions that got a yes.
Cleared ==
    /\ \A t \in took : Given(t[1], t[2])
    /\ worker # None => \A t \in given : t[1][1] = ops /\ t[1][2] \in 1 .. worker.k
    /\ worker # None /\ worker.op = "selftest" =>
        /\ worker.pc = "begin" => worker.k = 0
        /\ worker.pc = "second" => worker.k = 1 /\ Yes(1)
        /\ worker.pc = "ask" /\ worker.then = "second" => worker.k = 1
        /\ worker.pc = "ask" /\ worker.then = "open" => worker.k = 2 /\ Yes(1)
        /\ worker.pc = "ask" => worker.no = "end" /\ worker.then # "work"
        /\ worker.pc \in {"open", "work"} => worker.k = 2 /\ Yes(1) /\ Yes(2)

SwitchInv == TypeOK /\ Shape /\ Held /\ Named /\ OneQuestion /\ Cleared

\* Nothing is of the right type.
LEMMA NothingYet ==
    /\ <<>> \in Seq(Tasks) /\ <<>> \in Seq(Dialogs)
    /\ NoList \in [gen: Nat, count: Counts \cup {0}, freed: BOOLEAN]
    /\ \A S : <<>> \in [1 .. NoList.count -> S]
    /\ \A S : {} \subseteq S
    /\ 0 \in 0 .. MaxOps /\ 0 \in 0 .. MaxReloads
  <1>1. <<>> \in Seq(Tasks) /\ <<>> \in Seq(Dialogs)
    OBVIOUS
  <1>2. NoList \in [gen: Nat, count: Counts \cup {0}, freed: BOOLEAN] /\ NoList.count = 0
    BY DEF NoList
  <1>3. 0 \in 0 .. MaxOps /\ 0 \in 0 .. MaxReloads
    BY SwitchBounds
  <1>4. \A S : <<>> \in [1 .. NoList.count -> S]
    BY <1>2
  <1> QED
    BY <1>1, <1>2, <1>3, <1>4

\* Before the first launch ...
LEMMA InitSwitch == Init => SwitchInv
  <1> SUFFICES ASSUME Init PROVE SwitchInv
    OBVIOUS
  <1>1. TypeOK
    BY NothingYet DEF Init, TypeOK
  <1>2. Shape /\ Held /\ Named
    BY DEF Init, Shape, Held, Named, WorkerIs
  <1>3. OneQuestion /\ Cleared
    BY DEF Init, OneQuestion, Cleared, WorkerIs
  <1> QED
    BY <1>1, <1>2, <1>3 DEF SwitchInv

\* ... and whenever the process is gone, there is nothing.
LEMMA OffSwitch == ASSUME Off PROVE SwitchInv'
  <1>1. TypeOK'
    BY NothingYet DEF Off, TypeOK
  <1>2. Shape' /\ Held' /\ Named'
    BY DEF Off, Shape, Held, Named, WorkerIs
  <1>3. OneQuestion' /\ Cleared'
    BY DEF Off, OneQuestion, Cleared, WorkerIs
  <1> QED
    BY <1>1, <1>2, <1>3 DEF SwitchInv

-----------------------------------------------------------------------------
(***************************************************************************)
(* The queue and the stack of dialogs.                                     *)
(***************************************************************************)

\* What a task holds follows from what it is to do.
LEMMA TaskIs ==
    ASSUME NEW t \in Tasks
    PROVE  /\ t.do \in {"open", "end", "close", "ask", "icon"}
           /\ t.do \in {"close", "ask"} => t.p \in Promises
           /\ t.do = "ask" => t.q \in Questions
  BY DEF Tasks

\* The tasks there are.
LEMMA TasksAre ==
    /\ [do |-> "open"] \in Tasks /\ [do |-> "end"] \in Tasks
    /\ \A p \in Promises : [do |-> "close", p |-> p] \in Tasks
    /\ \A p \in Promises : \A q \in Questions : [do |-> "ask", p |-> p, q |-> q] \in Tasks
    /\ \A g \in Nat : \A i \in Nat : [do |-> "icon", gen |-> g, i |-> i] \in Tasks
  BY DEF Tasks

\* One more at the end of the queue, ...
LEMMA Queued ==
    ASSUME queue \in Seq(Tasks), NEW t \in Tasks, queue' = Append(queue, t)
    PROVE  \E n \in Nat \ DOMAIN queue :
              /\ queue' \in Seq(Tasks)
              /\ DOMAIN queue' = DOMAIN queue \cup {n} /\ queue'[n] = t
              /\ \A j \in DOMAIN queue : queue'[j] = queue[j]
  <1> DEFINE n == Len(queue) + 1
  <1>1. n \in Nat \ DOMAIN queue
    OBVIOUS
  <1>2. queue' \in Seq(Tasks)
    OBVIOUS
  <1>3. DOMAIN queue' = DOMAIN queue \cup {n}
    OBVIOUS
  <1>4. queue'[n] = t /\ \A j \in DOMAIN queue : queue'[j] = queue[j]
    OBVIOUS
  <1> QED
    BY <1>1, <1>2, <1>3, <1>4

\* ... and one less at its head.
LEMMA Dequeued ==
    ASSUME queue \in Seq(Tasks), queue # <<>>, queue' = Tail(queue)
    PROVE  /\ queue' \in Seq(Tasks)
           /\ 1 \in DOMAIN queue /\ Head(queue) = queue[1] /\ Head(queue) \in Tasks
           /\ \A j \in DOMAIN queue' :
                /\ j \in Nat \ {0} /\ j + 1 \in DOMAIN queue
                /\ queue'[j] = queue[j + 1]
  OBVIOUS

\* A dialog is opened over the others, ...
LEMMA Pushed ==
    ASSUME stack \in Seq(Dialogs), NEW kind \in {"progress", "ask"}, NEW p \in Promises,
           NEW q \in Questions \cup {None}, Push(kind, p, q)
    PROVE  \E n \in Nat \ DOMAIN stack :
              /\ stack' \in Seq(Dialogs)
              /\ DOMAIN stack' = DOMAIN stack \cup {n}
              /\ stack'[n].kind = kind /\ stack'[n].p = p /\ stack'[n].q = q
              /\ stack'[n].fade = "in"
              /\ \A d \in DOMAIN stack : stack'[d] = stack[d]
  <1> DEFINE n == Len(stack) + 1
  <1>0. PICK x : x = [kind |-> kind, p |-> p, q |-> q, fade |-> "in", sets |-> None]
    OBVIOUS
  <1>1. x \in Dialogs
    BY <1>0 DEF Dialogs
  <1>2. stack' = Append(stack, x)
    BY <1>0 DEF Push
  <1>3. n \in Nat \ DOMAIN stack /\ stack' \in Seq(Dialogs)
    BY <1>1, <1>2
  <1>4. DOMAIN stack' = DOMAIN stack \cup {n}
    BY <1>1, <1>2
  <1>5. stack'[n] = x /\ \A d \in DOMAIN stack : stack'[d] = stack[d]
    BY <1>1, <1>2
  <1> QED
    BY <1>0, <1>3, <1>4, <1>5

\* ... the one on top is closed, ...
LEMMA Popped ==
    ASSUME stack \in Seq(Dialogs), NEW p \in Promises, NEW v \in Answers, Pop(p, v)
    PROVE  /\ stack' \in Seq(Dialogs) /\ DOMAIN stack' = DOMAIN stack
           /\ \A d \in DOMAIN stack :
                /\ stack'[d].kind = stack[d].kind /\ stack'[d].p = stack[d].p
                /\ stack'[d].q = stack[d].q
                /\ \/ d # Len(stack) /\ stack'[d] = stack[d]
                   \/ d = Len(stack) /\ stack'[d].fade = "out" /\ stack'[d].sets = <<p, v>>
  <1>1. PICK n : n = Len(stack)
    OBVIOUS
  <1>2. CASE n \in DOMAIN stack
    <2>1. PICK x : x = [stack[n] EXCEPT !.fade = "out", !.sets = <<p, v>>]
      OBVIOUS
    <2>2. x \in Dialogs /\ x.kind = stack[n].kind /\ x.p = stack[n].p /\ x.q = stack[n].q
          /\ x.fade = "out" /\ x.sets = <<p, v>>
      <3>1. stack[n] \in Dialogs
        BY <1>2
      <3> QED
        BY <2>1, <3>1 DEF Dialogs
    <2>3. stack' = [stack EXCEPT ![n] = x]
      BY <1>1, <2>1 DEF Pop
    <2>4. stack' \in Seq(Dialogs)
      BY <1>2, <2>2, <2>3
    <2> QED
      BY <1>1, <1>2, <2>2, <2>3, <2>4
  <1>3. CASE n \notin DOMAIN stack
    <2>1. stack' = stack
      BY <1>1, <1>3 DEF Pop
    <2> QED
      BY <1>1, <1>3, <2>1
  <1> QED
    BY <1>2, <1>3

\* ... and one that faded out is gone.
LEMMA Gone ==
    ASSUME stack \in Seq(Dialogs), NEW d \in DOMAIN stack, stack' = Without(d)
    PROVE  /\ stack' \in Seq(Dialogs)
           /\ \E from \in [DOMAIN stack' -> DOMAIN stack \ {d}] :
                /\ \A e, f \in DOMAIN stack' : from[e] = from[f] => e = f
                /\ \A e \in DOMAIN stack' : stack'[e] = stack[from[e]]
  <1>1. PICK n \in Nat : n = Len(stack) - 1
    OBVIOUS
  <1>2. PICK from : from = [e \in 1 .. n |-> IF e < d THEN e ELSE e + 1]
    OBVIOUS
  <1>3. from \in [1 .. n -> DOMAIN stack \ {d}] /\ \A e, f \in 1 .. n : from[e] = from[f] => e = f
    BY <1>1, <1>2
  <1>4. stack' = [e \in 1 .. n |-> stack[from[e]]]
    BY <1>1, <1>2 DEF Without
  <1>5. \A e \in 1 .. n : stack[from[e]] \in Dialogs
    BY <1>3
  <1>6. stack' \in Seq(Dialogs) /\ DOMAIN stack' = 1 .. n
    BY <1>4, <1>5
  <1> QED
    BY <1>3, <1>4, <1>6

\* What is in the queue and on the screen names promises.
LEMMA PromisesNamed ==
    ASSUME TypeOK, Shape
    PROVE  /\ \A j \in DOMAIN queue : queue[j].do \in {"ask", "close"} => queue[j].p \in Promises
           /\ \A d \in DOMAIN stack : stack[d].p \in Promises
           /\ \A d \in DOMAIN stack : stack[d].fade = "out" => stack[d].sets[1] \in Promises
           /\ \A d \in DOMAIN stack : stack[d].fade = "out" => stack[d].sets[2] \in Answers
  <1>1. \A j \in DOMAIN queue : queue[j] \in Tasks
    BY DEF TypeOK
  <1>2. \A d \in DOMAIN stack : stack[d] \in Dialogs
    BY DEF TypeOK
  <1>3. \A d \in DOMAIN stack : stack[d].p \in Promises
    BY <1>2 DEF Dialogs
  <1>4. \A x \in Promises \X Answers : x[1] \in Promises /\ x[2] \in Answers
    OBVIOUS
  <1> QED
    BY <1>1, <1>3, <1>4, TaskIs DEF Shape

-----------------------------------------------------------------------------
(***************************************************************************)
(* The worker.                                                             *)
(***************************************************************************)

\* How far the self test is, said of a worker w.
Far(w) ==
    w.op = "selftest" =>
        /\ w.pc = "begin" => w.k = 0
        /\ w.pc = "second" => w.k = 1 /\ Yes(1)
        /\ w.pc = "ask" /\ w.then = "second" => w.k = 1
        /\ w.pc = "ask" /\ w.then = "open" => w.k = 2 /\ Yes(1)
        /\ w.pc = "ask" => w.no = "end" /\ w.then # "work"
        /\ w.pc \in {"open", "work"} => w.k = 2 /\ Yes(1) /\ Yes(2)

\* The operation goes on in w.
Goes(w) ==
    /\ worker # None /\ worker' = w /\ w \in Workers
    /\ w.n = worker.n /\ w.op = worker.op /\ w.i = worker.i /\ w.gen = worker.gen

\* While the worker is not at a question, or its question is answered, none is open.
LEMMA NoneOpen ==
    ASSUME OneQuestion, worker.pc # "ask" \/ worker.got # None
    PROVE  /\ \A j \in DOMAIN queue : ~AskAt(j)
           /\ \A d \in DOMAIN stack : ~AskOn(d)
  BY DEF OneQuestion, Open, WorkerIs

\* A step of the worker that asks nothing and waits for nothing.
LEMMA WorkerGoes ==
    ASSUME SwitchInv, NEW w, Goes(w), w.k = worker.k, w.pc \notin {"ask", "closing"}, w.waits = None,
           worker.pc # "ask" \/ worker.got # None,
           queue' = queue \/ queue' = Append(queue, [do |-> "open"]),
           WorkerKeeps, took' \subseteq Promises \X Answers, \A t \in took' : Given(t[1], t[2]),
           Far(w)
    PROVE  SwitchInv'
  <1> USE DEF SwitchInv
  <1>1. /\ worker # None /\ worker' = w /\ w \in Workers
        /\ w.n = worker.n /\ w.op = worker.op /\ w.i = worker.i /\ w.gen = worker.gen
        /\ w.n = ops /\ ops >= 1
    BY DEF Goes, Shape, Workers
  <1>2. UNCHANGED <<main, stack, progress, running, list, tiles, loaders, ops, reloads, given>>
    BY DEF WorkerKeeps
  <1>3. \E n \in Nat \ DOMAIN queue :
           /\ queue' \in Seq(Tasks)
           /\ DOMAIN queue' \subseteq DOMAIN queue \cup {n}
           /\ n \in DOMAIN queue' => queue'[n].do = "open"
           /\ \A j \in DOMAIN queue : queue'[j] = queue[j]
    <2>1. CASE queue' = queue
      <3>1. \E n : n \in Nat \ DOMAIN queue
        <4>1. Len(queue) + 1 \in Nat \ DOMAIN queue
          BY DEF TypeOK
        <4> QED
          BY <4>1
      <3> QED
        BY <2>1, <3>1 DEF TypeOK
    <2>2. CASE queue' = Append(queue, [do |-> "open"])
      BY <2>2, Queued, TasksAre DEF TypeOK
    <2> QED
      BY <2>1, <2>2
  <1>4. PICK n : /\ n \notin DOMAIN queue
                 /\ queue' \in Seq(Tasks)
                 /\ DOMAIN queue' \subseteq DOMAIN queue \cup {n}
                 /\ n \in DOMAIN queue' => queue'[n].do = "open"
                 /\ \A j \in DOMAIN queue : queue'[j] = queue[j]
    BY <1>3
  <1>5. (\A j \in DOMAIN queue : ~AskAt(j)) /\ (\A d \in DOMAIN stack : ~AskOn(d))
    BY NoneOpen
  <1>6. TypeOK'
    BY <1>1, <1>2, <1>4 DEF TypeOK
  <1>7. Shape'
    BY <1>1, <1>2, <1>4 DEF Shape
  <1>8. Held'
    BY <1>1, <1>2, <1>4 DEF Held, EndAt
  <1>9. Named'
    <2>1. \A p \in Promises : Issued(p) => Issued(p)'
      BY <1>1, <1>2 DEF Issued
    <2>2. (\A j \in DOMAIN queue : queue[j].do \in {"ask", "close"} => Issued(queue[j].p))'
      BY <1>4, <2>1, PromisesNamed DEF Named
    <2>3. (\A d \in DOMAIN stack : stack[d].fade = "out" => Issued(stack[d].sets[1]))'
      BY <1>2, <2>1, PromisesNamed DEF Named
    <2> QED
      BY <1>1, <1>2, <2>2, <2>3 DEF Named, WorkerIs
  <1>10. OneQuestion'
    BY <1>1, <1>2, <1>4, <1>5 DEF OneQuestion, WorkerIs, AskAt, AskOn
  <1>11. Cleared'
    <2>1. \A p, v : Given(p, v)' <=> Given(p, v)
      BY <1>2 DEF Given
    <2>2. \A j : Yes(j)' <=> Yes(j)
      BY <1>2 DEF Yes
    <2> QED
      BY <1>1, <1>2, <2>1, <2>2 DEF Cleared, Far
  <1> QED
    BY <1>6, <1>7, <1>8, <1>9, <1>10, <1>11

\* A question is asked.
LEMMA WorkerAsks ==
    ASSUME SwitchInv, NEW w, Goes(w), w.k = worker.k + 1, w.pc = "ask", w.got = None,
           w.waits = Promise, worker.pc # "ask", NEW q \in Questions,
           w.op = "selftest" /\ w.then \in {"second", "open"} => q = Confirm,
           queue' = Append(queue, [do |-> "ask", p |-> Promise, q |-> q]),
           WorkerKeeps, UNCHANGED took, Far(w)
    PROVE  SwitchInv'
  <1> USE DEF SwitchInv
  <1>1. /\ worker # None /\ worker' = w /\ w \in Workers
        /\ w.n = worker.n /\ w.op = worker.op /\ w.i = worker.i /\ w.gen = worker.gen
        /\ w.n = ops
    BY DEF Goes, Shape
  <1>2. UNCHANGED <<main, stack, progress, running, list, tiles, loaders, ops, reloads, given>>
    BY DEF WorkerKeeps
  <1>3. /\ worker \in Workers /\ worker.k \in Nat /\ worker.n \in 1 .. MaxOps /\ ops \in 1 .. MaxOps
        /\ Promise \in Promises /\ Promise = <<ops, worker.k + 1>>
    BY <1>1 DEF TypeOK, Workers, Promise, Promises
  <1>p. PICK p : p = Promise
    OBVIOUS
  <1>t. PICK t : t = [do |-> "ask", p |-> p, q |-> q]
    OBVIOUS
  <1>4. PICK n : /\ n \notin DOMAIN queue
                 /\ queue' \in Seq(Tasks)
                 /\ DOMAIN queue' = DOMAIN queue \cup {n}
                 /\ queue'[n].do = "ask" /\ queue'[n].p = p /\ queue'[n].q = q
                 /\ \A j \in DOMAIN queue : queue'[j] = queue[j]
    <2>1. t \in Tasks /\ queue' = Append(queue, t)
      BY <1>3, <1>p, <1>t, TasksAre
    <2>2. \E n \in Nat \ DOMAIN queue :
              /\ queue' \in Seq(Tasks)
              /\ DOMAIN queue' = DOMAIN queue \cup {n} /\ queue'[n] = t
              /\ \A j \in DOMAIN queue : queue'[j] = queue[j]
      BY <2>1, Queued DEF TypeOK
    <2> QED
      BY <1>t, <2>2
  <1>5. (\A j \in DOMAIN queue : ~AskAt(j)) /\ (\A d \in DOMAIN stack : ~AskOn(d))
    BY NoneOpen
  <1>6. TypeOK'
    BY <1>1, <1>2, <1>4 DEF TypeOK
  <1>7. Shape'
    BY <1>1, <1>2, <1>3, <1>4 DEF Shape
  <1>8. Held'
    BY <1>1, <1>2, <1>4 DEF Held, EndAt
  <1>f. \A j \in DOMAIN queue : queue[j].do = "close" => queue[j].p # p
    <2>1. \A j \in DOMAIN queue : queue[j].do = "close" => Issued(queue[j].p)
      BY DEF Named
    <2>2. ~Issued(p)
      BY <1>1, <1>3, <1>p DEF Issued
    <2> QED
      BY <2>1, <2>2
  <1>s. \A d \in DOMAIN stack : stack[d].fade = "out" => stack[d].sets[1] # p
    <2>1. \A d \in DOMAIN stack : stack[d].fade = "out" => Issued(stack[d].sets[1])
      BY DEF Named
    <2>2. ~Issued(p)
      BY <1>1, <1>3, <1>p DEF Issued
    <2> QED
      BY <2>1, <2>2
  <1>9. Named'
    <2>1. \A x \in Promises : Issued(x) => Issued(x)'
      BY <1>1, <1>2, <1>3 DEF Issued, Promises
    <2>2. Issued(p)'
      BY <1>1, <1>2, <1>3, <1>p DEF Issued
    <2>4. (\A j \in DOMAIN queue : queue[j].do \in {"ask", "close"} => Issued(queue[j].p))'
      BY <1>4, <2>1, <2>2, PromisesNamed DEF Named
    <2>5. (\A d \in DOMAIN stack : stack[d].fade = "out" => Issued(stack[d].sets[1]))'
      BY <1>2, <2>1, PromisesNamed DEF Named
    <2>6. w.waits = <<w.n, w.k>>
      BY <1>1, <1>3
    <2>7. \A j \in DOMAIN queue' : queue'[j].do = "close" => queue'[j].p # w.waits
      BY <1>4, <1>f, <1>p
    <2> QED
      BY <1>1, <2>4, <2>5, <2>6, <2>7 DEF Named, WorkerIs
  <1>10. OneQuestion'
    <2>1. \A j \in DOMAIN queue' : AskAt(j)' => j = n
      BY <1>4, <1>5 DEF AskAt
    <2>2. \A d \in DOMAIN stack' : ~AskOn(d)'
      BY <1>2, <1>5 DEF AskOn
    <2>3. Open(p, q)'
      BY <1>1, <1>p, NoneIsNoWorker DEF Open, WorkerIs, Clearing
    <2>4. \A d \in DOMAIN stack' : stack'[d].fade = "out" => stack'[d].sets[1] # w.waits
      BY <1>2, <1>s, <1>p
    <2> QED
      BY <1>1, <1>4, <2>1, <2>2, <2>3, <2>4 DEF OneQuestion
  <1>11. Cleared'
    <2>1. \A x, v : Given(x, v)' <=> Given(x, v)
      BY <1>2 DEF Given
    <2>2. \A j : Yes(j)' <=> Yes(j)
      BY <1>2 DEF Yes
    <2>3. \A e \in given : e[1][1] = ops /\ e[1][2] \in 1 .. w.k
      BY <1>1, <1>3 DEF Cleared
    <2> QED
      BY <1>1, <1>2, <2>1, <2>2, <2>3 DEF Cleared, Far, Clearing
  <1> QED
    BY <1>6, <1>7, <1>8, <1>9, <1>10, <1>11

\* wait_for's promise is the dialog's, and no question's.
LEMMA ProgressCloses == ASSUME SwitchInv, ProgressClose PROVE SwitchInv'
  <1> USE DEF SwitchInv
  <1>0. worker # None /\ worker \in Workers /\ worker.pc = "close" /\ worker.n = ops
    BY DEF ProgressClose, WorkerIs, TypeOK, Shape
  <1>p. PICK p : p = Promise
    OBVIOUS
  <1>1. worker.k \in Nat /\ ops \in 1 .. MaxOps /\ p \in Promises /\ p = <<ops, worker.k + 1>>
    BY <1>0, <1>p DEF Workers, Promise, Promises
  <1>2. PICK w : w = [worker EXCEPT !.pc = "closing", !.k = worker.k + 1, !.waits = Promise,
                                    !.got = None]
    OBVIOUS
  <1>3. /\ worker' = w /\ w \in Workers /\ w # None /\ w.pc = "closing" /\ w.k = worker.k + 1
        /\ w.waits = p /\ w.n = ops /\ w.op = worker.op /\ w.i = worker.i /\ w.gen = worker.gen
    <2>1. worker' = w
      BY <1>2 DEF ProgressClose
    <2>2. Promise \in Promises /\ worker.k + 1 \in Nat
      BY <1>1, <1>p
    <2>3. /\ w \in Workers /\ w.n = worker.n /\ w.op = worker.op /\ w.i = worker.i
          /\ w.gen = worker.gen /\ w.k = worker.k + 1 /\ w.pc = "closing" /\ w.waits = Promise
      BY <1>0, <1>2, <2>2 DEF Workers
    <2> QED
      BY <1>0, <1>p, <2>1, <2>3, NoneIsNoWorker
  <1>4. UNCHANGED <<main, stack, progress, running, list, tiles, loaders, ops, reloads, given, took>>
    BY DEF ProgressClose, WorkerKeeps
  <1>t. PICK t : t = [do |-> "close", p |-> p]
    OBVIOUS
  <1>5. PICK n : /\ n \notin DOMAIN queue
                 /\ queue' \in Seq(Tasks)
                 /\ DOMAIN queue' = DOMAIN queue \cup {n}
                 /\ queue'[n].do = "close" /\ queue'[n].p = p
                 /\ \A j \in DOMAIN queue : queue'[j] = queue[j]
    <2>1. t \in Tasks /\ queue' = Append(queue, t)
      BY <1>1, <1>p, <1>t, TasksAre DEF ProgressClose
    <2>2. \E n \in Nat \ DOMAIN queue :
              /\ queue' \in Seq(Tasks)
              /\ DOMAIN queue' = DOMAIN queue \cup {n} /\ queue'[n] = t
              /\ \A j \in DOMAIN queue : queue'[j] = queue[j]
      BY <2>1, Queued DEF TypeOK
    <2> QED
      BY <1>t, <2>2
  <1>6. (\A j \in DOMAIN queue : ~AskAt(j)) /\ (\A d \in DOMAIN stack : ~AskOn(d))
    BY <1>0, NoneOpen
  <1>7. TypeOK'
    BY <1>3, <1>4, <1>5 DEF TypeOK
  <1>8. Shape'
    BY <1>0, <1>3, <1>4, <1>5 DEF Shape
  <1>9. Held'
    BY <1>0, <1>3, <1>4, <1>5 DEF Held, EndAt
  <1>10. Named'
    <2>1. \A x \in Promises : Issued(x) => Issued(x)'
      BY <1>0, <1>1, <1>3, <1>4 DEF Issued, Promises
    <2>2. Issued(p)'
      BY <1>0, <1>1, <1>3, <1>4 DEF Issued
    <2>3. (\A j \in DOMAIN queue : queue[j].do \in {"ask", "close"} => Issued(queue[j].p))'
      BY <1>5, <2>1, <2>2, PromisesNamed DEF Named
    <2>4. (\A d \in DOMAIN stack : stack[d].fade = "out" => Issued(stack[d].sets[1]))'
      BY <1>4, <2>1, PromisesNamed DEF Named
    <2>5. w.waits = <<w.n, w.k>>
      BY <1>1, <1>3
    <2> QED
      BY <1>3, <2>3, <2>4, <2>5 DEF Named, WorkerIs
  <1>11. OneQuestion'
    BY <1>3, <1>4, <1>5, <1>6 DEF OneQuestion, WorkerIs, AskAt, AskOn
  <1>12. Cleared'
    <2>1. \A x, v : Given(x, v)' <=> Given(x, v)
      BY <1>4 DEF Given
    <2>2. \A t2 \in given : t2[1][1] = ops /\ t2[1][2] \in 1 .. w.k
      BY <1>0, <1>1, <1>3 DEF Cleared
    <2> QED
      BY <1>3, <1>4, <2>1, <2>2 DEF Cleared
  <1> QED
    BY <1>7, <1>8, <1>9, <1>10, <1>11, <1>12

\* Whoever asks has a worker that goes to "ask" with a promise of its own.
Asker(then, no, n) == [worker EXCEPT !.pc = "ask", !.k = worker.k + 1, !.waits = Promise,
                                     !.got = None, !.then = then, !.no = no, !.asks = n]

\* That is a worker, of the same operation.
LEMMA AskGoes ==
    ASSUME TypeOK, Shape, worker # None, NEW then \in {"second", "open", "work", "end"},
           NEW no \in {"work", "end"}, NEW n \in 0 .. MaxAsks
    PROVE  LET w == Asker(then, no, n)
           IN  /\ w \in Workers /\ w.n = worker.n /\ w.op = worker.op /\ w.i = worker.i
               /\ w.gen = worker.gen /\ w.k = worker.k + 1 /\ w.pc = "ask" /\ w.got = None
               /\ w.waits = Promise /\ w.then = then /\ w.no = no
  <1>1. worker \in Workers
    BY DEF TypeOK
  <1>2. Promise \in Promises /\ worker.k + 1 \in Nat
    BY <1>1 DEF Workers, Promise, Promises
  <1> QED
    BY <1>1, <1>2 DEF Workers, Asker

\* askBlocking, for either of its callers.
LEMMA AskBlocking ==
    ASSUME SwitchInv, worker # None, worker.pc \in {"begin", "second", "work", "report"},
           NEW q \in Questions, NEW then \in {"second", "open", "work", "end"},
           NEW no \in {"work", "end"}, NEW n \in 0 .. MaxAsks,
           worker' = Asker(then, no, n),
           queue' = Append(queue, [do |-> "ask", p |-> Promise, q |-> q]),
           WorkerKeeps, UNCHANGED took,
           worker.op = "selftest" =>
              \/ then = "end" /\ no = "end"
              \/ worker.pc = "begin" /\ then = "second" /\ no = "end" /\ q = Confirm
              \/ worker.pc = "second" /\ then = "open" /\ no = "end" /\ q = Confirm
    PROVE  SwitchInv'
  <1> USE DEF SwitchInv
  <1>1. PICK w : w = Asker(then, no, n)
    OBVIOUS
  <1>2. /\ w \in Workers /\ w.n = worker.n /\ w.op = worker.op /\ w.i = worker.i
        /\ w.gen = worker.gen /\ w.k = worker.k + 1 /\ w.pc = "ask" /\ w.got = None
        /\ w.waits = Promise /\ w.then = then /\ w.no = no
    <2>1. TypeOK /\ Shape
      OBVIOUS
    <2> QED
      BY <1>1, <2>1, AskGoes
  <1>3. Goes(w)
    BY <1>1, <1>2 DEF Goes
  <1>4. Far(w)
    BY <1>2 DEF Far, Cleared
  <1>5. w.op = "selftest" /\ w.then \in {"second", "open"} => q = Confirm
    BY <1>2
  <1> QED
    BY <1>2, <1>3, <1>4, <1>5, WorkerAsks

\* The worker's steps that do not ask.
LEMMA WorkerMoves ==
    ASSUME SwitchInv, worker # None, NEW pc \in {"open", "work", "close", "report", "end", "second"},
           NEW r \in {"ok", "failed"},
           worker' = [worker EXCEPT !.pc = pc, !.waits = None, !.r = r],
           worker.pc # "ask" \/ worker.got # None,
           queue' = queue \/ queue' = Append(queue, [do |-> "open"]),
           WorkerKeeps, took' \subseteq Promises \X Answers, \A t \in took' : Given(t[1], t[2]),
           worker.op = "selftest" =>
              /\ pc = "second" => worker.k = 1 /\ Yes(1)
              /\ pc \in {"open", "work"} => worker.k = 2 /\ Yes(1) /\ Yes(2)
    PROVE  SwitchInv'
  <1> USE DEF SwitchInv
  <1>1. PICK w : w = [worker EXCEPT !.pc = pc, !.waits = None, !.r = r]
    OBVIOUS
  <1>2. /\ w \in Workers /\ w.n = worker.n /\ w.op = worker.op /\ w.i = worker.i
        /\ w.gen = worker.gen /\ w.k = worker.k /\ w.pc = pc /\ w.waits = None
    <2>1. worker \in Workers
      BY DEF TypeOK
    <2> QED
      BY <1>1, <2>1 DEF Workers
  <1>3. Goes(w)
    BY <1>1, <1>2 DEF Goes
  <1>4. Far(w)
    BY <1>2 DEF Far
  <1> QED
    BY <1>2, <1>3, <1>4, WorkerGoes

\* What a promise of a question was set to is what was given.
LEMMA AnsweredIs == ASSUME SwitchInv, Answered PROVE SwitchInv'
  <1> USE DEF SwitchInv
  <1>0. worker # None /\ worker \in Workers /\ worker.pc = "ask" /\ worker.got # None
    BY DEF Answered, WorkerIs, TypeOK
  <1>1. worker.waits \in Promises /\ worker.got \in Answers /\ worker.waits = <<ops, worker.k>>
        /\ worker.then \in {"second", "open", "work", "end"} /\ worker.no \in {"work", "end"}
        /\ worker.r \in {"ok", "failed"}
    <2>1. /\ worker.n \in 1 .. MaxOps /\ worker.k \in Nat /\ worker.got \in Answers \cup {None}
          /\ worker.then \in {"second", "open", "work", "end"} /\ worker.no \in {"work", "end"}
          /\ worker.r \in {"ok", "failed"}
      BY <1>0 DEF Workers
    <2>2. worker.waits = <<worker.n, worker.k>> /\ worker.n = ops
      BY <1>0 DEF Named, Shape
    <2> QED
      BY <1>0, <2>1, <2>2 DEF Promises
  <1>2. Given(worker.waits, worker.got) /\ (Clearing => worker.got \in {"yes", "no"})
    BY <1>0 DEF OneQuestion, Fits, WorkerIs
  <1>3. PICK pc : pc = IF worker.got = "no" THEN worker.no ELSE worker.then
    OBVIOUS
  <1>4. worker' = [worker EXCEPT !.pc = pc, !.waits = None, !.r = worker.r]
    <2>1. worker' = [worker EXCEPT !.pc = pc, !.waits = None]
      BY <1>3 DEF Answered
    <2>2. worker = [worker EXCEPT !.r = worker.r]
      BY <1>0 DEF Workers
    <2> QED
      BY <1>0, <2>1 DEF Workers
  <1>5. pc \in {"open", "work", "end", "second"}
    BY <1>1, <1>3
  <1>6. took' \subseteq Promises \X Answers /\ \A t \in took' : Given(t[1], t[2])
    <2>1. took' = took \cup {<<worker.waits, worker.got>>}
      BY DEF Answered
    <2>2. PICK t : t = <<worker.waits, worker.got>>
      OBVIOUS
    <2>3. t \in Promises \X Answers /\ Given(t[1], t[2])
      BY <1>1, <1>2, <2>2
    <2>4. took \subseteq Promises \X Answers /\ \A x \in took : Given(x[1], x[2])
      BY DEF TypeOK, Cleared
    <2>5. took' = took \cup {t}
      BY <2>1, <2>2
    <2> QED
      BY <2>3, <2>4, <2>5
  <1>7. ASSUME worker.op = "selftest"
        PROVE  /\ pc = "second" => worker.k = 1 /\ Yes(1)
               /\ pc \in {"open", "work"} => worker.k = 2 /\ Yes(1) /\ Yes(2)
    <2>1. CASE worker.then \in {"second", "open"}
      <3>1. Clearing
        BY <1>7, <2>1 DEF Clearing
      <3>2. worker.no = "end" /\ worker.got \in {"yes", "no"}
        BY <1>0, <1>2, <1>7, <3>1 DEF Cleared
      <3>3. worker.got = "yes" => Yes(worker.k)
        BY <1>1, <1>2 DEF Given, Yes
      <3>4. CASE worker.got = "yes"
        BY <1>0, <1>3, <1>7, <2>1, <3>3, <3>4 DEF Cleared
      <3>5. CASE worker.got = "no"
        BY <1>3, <3>2, <3>5
      <3> QED
        BY <3>2, <3>4, <3>5
    <2>2. CASE worker.then = "end"
      <3>1. worker.then # "work" /\ pc \in {worker.no, "end"}
        BY <1>0, <1>3, <1>7, <2>2 DEF Cleared
      <3> QED
        BY <1>0, <1>1, <1>7, <2>2, <3>1 DEF Cleared
    <2> QED
      BY <1>0, <1>1, <1>7, <2>1, <2>2 DEF Cleared
  <1>8. WorkerKeeps /\ queue' = queue
    BY DEF Answered
  <1> QED
    BY <1>0, <1>1, <1>4, <1>5, <1>6, <1>7, <1>8, WorkerMoves

\* The forms in which the steps below write what those above do.
LEMMA AskIs ==
    ASSUME SwitchInv, worker # None, NEW q, NEW then, NEW no, Ask(q, then, no)
    PROVE  /\ worker' = Asker(then, no, worker.asks) /\ worker.asks \in 0 .. MaxAsks
           /\ queue' = Append(queue, [do |-> "ask", p |-> Promise, q |-> q])
  <1>1. worker \in Workers
    BY DEF SwitchInv, TypeOK
  <1> QED
    BY <1>1 DEF Ask, Asker, Workers

\* ... and a step that only moves on.
LEMMA MoveIs ==
    ASSUME SwitchInv, worker # None, NEW pc, worker' = [worker EXCEPT !.pc = pc],
           worker.pc \notin {"ask", "closing"}
    PROVE  worker' = [worker EXCEPT !.pc = pc, !.waits = None, !.r = worker.r]
           /\ worker.r \in {"ok", "failed"}
  <1>1. worker \in Workers /\ worker.waits = None
    BY DEF SwitchInv, TypeOK, Named
  <1> QED
    BY <1>1 DEF Workers

\* The four steps that neither ask nor are answered nor close the dialog.
LEMMA WorkerPlain ==
    ASSUME SwitchInv, worker # None, NEW pc \in {"open", "work", "close", "report", "end"},
           NEW r \in {"ok", "failed"},
           worker' = [worker EXCEPT !.pc = pc, !.waits = None, !.r = r],
           worker.pc # "ask",
           queue' = queue \/ queue' = Append(queue, [do |-> "open"]),
           WorkerKeeps, UNCHANGED took,
           worker.op = "selftest" /\ pc \in {"open", "work"} => worker.pc = "open"
    PROVE  SwitchInv'
  <1>1. took' \subseteq Promises \X Answers /\ \A t \in took' : Given(t[1], t[2])
    BY DEF SwitchInv, TypeOK, Cleared
  <1>2. worker.op = "selftest" /\ pc \in {"open", "work"} => worker.k = 2 /\ Yes(1) /\ Yes(2)
    BY DEF SwitchInv, Cleared
  <1> QED
    BY <1>1, <1>2, WorkerMoves

\* A question of the operation's own, or none: the first steps of a body.
LEMMA Begins == ASSUME SwitchInv, Begin PROVE SwitchInv'
  <1>1. worker # None /\ WorkerKeeps /\ UNCHANGED took
    BY DEF Begin, WorkerIs
  <1>2. CASE WorkerIs("begin") /\ worker.op = "backup" /\ Ask(Confirm, "open", "end")
    BY <1>1, <1>2, AskIs, AskBlocking DEF WorkerIs, Questions
  <1>3. CASE WorkerIs("begin") /\ worker.op = "selftest" /\ Ask(Confirm, "second", "end")
    BY <1>1, <1>3, AskIs, AskBlocking DEF WorkerIs, Questions
  <1>4. CASE WorkerIs("begin") /\ worker.op = "sync" /\ Goto("open")
    BY <1>1, <1>4, MoveIs, WorkerPlain DEF WorkerIs, Goto
  <1>5. CASE WorkerIs("second") /\ Ask(Confirm, "open", "end")
    BY <1>1, <1>5, AskIs, AskBlocking DEF WorkerIs, Questions
  <1> QED
    BY <1>2, <1>3, <1>4, <1>5 DEF Begin

\* The steps of core's work, and of the wait for the dialog to be gone.
LEMMA Works == ASSUME SwitchInv, ProgressOpen \/ Work \/ Closed PROVE SwitchInv'
  <1>1. worker # None /\ WorkerKeeps /\ UNCHANGED took /\ worker \in Workers
    BY DEF ProgressOpen, Work, Closed, WorkerIs, SwitchInv, TypeOK
  <1>2. CASE ProgressOpen
    BY <1>1, <1>2, MoveIs, WorkerPlain DEF WorkerIs, ProgressOpen
  <1>3. CASE WorkerIs("work") /\ queue' = queue
             /\ \E r \in {"ok", "failed"} : worker' = [worker EXCEPT !.pc = "close", !.r = r]
    <2>1. PICK r \in {"ok", "failed"} : worker' = [worker EXCEPT !.pc = "close", !.r = r]
      BY <1>3
    <2>2. worker.waits = None
      BY <1>3 DEF SwitchInv, Named, WorkerIs
    <2>3. worker' = [worker EXCEPT !.pc = "close", !.waits = None, !.r = r]
      BY <1>1, <2>1, <2>2 DEF Workers
    <2> QED
      BY <1>1, <1>3, <2>3, WorkerPlain DEF WorkerIs
  <1>4. CASE /\ WorkerIs("work") /\ worker.op = "sync" /\ worker.asks < MaxAsks
             /\ \E q \in {Confirm, Choose} :
                  /\ queue' = Append(queue, [do |-> "ask", p |-> Promise, q |-> q])
                  /\ worker' = [worker EXCEPT !.pc = "ask", !.k = @ + 1, !.waits = Promise,
                                              !.got = None, !.then = "work", !.no = "work",
                                              !.asks = @ + 1]
    <2>1. PICK q \in {Confirm, Choose} :
                  /\ queue' = Append(queue, [do |-> "ask", p |-> Promise, q |-> q])
                  /\ worker' = [worker EXCEPT !.pc = "ask", !.k = @ + 1, !.waits = Promise,
                                              !.got = None, !.then = "work", !.no = "work",
                                              !.asks = @ + 1]
      BY <1>4
    <2>2. PICK n \in 0 .. MaxAsks : n = worker.asks + 1
      <3>1. worker.asks \in 0 .. MaxAsks
        BY <1>1 DEF Workers
      <3> QED
        BY <1>4, <3>1, SwitchBounds
    <2>3. worker' = Asker("work", "work", n)
      BY <1>1, <2>1, <2>2 DEF Asker
    <2>4. q \in Questions
      BY DEF Questions
    <2> QED
      BY <1>1, <1>4, <2>1, <2>3, <2>4, AskBlocking DEF WorkerIs
  <1>5. CASE Closed
    <2>1. worker' = [worker EXCEPT !.pc = "report", !.waits = None, !.r = worker.r]
      BY <1>1, <1>5 DEF Closed, Workers
    <2>2. worker.r \in {"ok", "failed"}
      BY <1>1 DEF Workers
    <2> QED
      BY <1>1, <1>5, <2>1, <2>2, WorkerPlain DEF WorkerIs, Closed
  <1> QED
    BY <1>2, <1>3, <1>4, <1>5 DEF Work

\* The report on how it went.
LEMMA Reports == ASSUME SwitchInv, Report PROVE SwitchInv'
  <1>1. worker # None /\ worker.pc = "report"
    BY DEF Report, WorkerIs
  <1>2. CASE Off
    BY <1>2, OffSwitch
  <1>3. CASE Goto("end") /\ WorkerKeeps /\ UNCHANGED took
    BY <1>1, <1>3, MoveIs, WorkerPlain DEF Goto
  <1>4. CASE Ask(Result, "end", "end") /\ WorkerKeeps /\ UNCHANGED took
    BY <1>1, <1>4, AskIs, AskBlocking DEF Questions
  <1> QED
    BY <1>2, <1>3, <1>4 DEF Report

\* The last the worker does: the main thread is told, and there is no worker.
LEMMA Ends == ASSUME SwitchInv, End PROVE SwitchInv'
  <1> USE DEF SwitchInv
  <1>0. PICK t : t = [do |-> "end"]
    OBVIOUS
  <1>1. /\ worker # None /\ worker.pc = "end" /\ worker' = None /\ running' = running
        /\ queue' = Append(queue, t)
        /\ UNCHANGED <<main, stack, progress, list, tiles, loaders, ops, reloads, given, took>>
    BY <1>0 DEF End, WorkerIs, HeldUntilRun, EndTasks, TypeOK
  <1>2. PICK n : /\ n \notin DOMAIN queue
                 /\ queue' \in Seq(Tasks)
                 /\ DOMAIN queue' = DOMAIN queue \cup {n} /\ queue'[n].do = "end"
                 /\ \A j \in DOMAIN queue : queue'[j] = queue[j]
    <2>1. t \in Tasks
      BY <1>0, TasksAre
    <2>2. \E n \in Nat \ DOMAIN queue :
              /\ queue' \in Seq(Tasks)
              /\ DOMAIN queue' = DOMAIN queue \cup {n} /\ queue'[n] = t
              /\ \A j \in DOMAIN queue : queue'[j] = queue[j]
      BY <1>1, <2>1, Queued DEF TypeOK
    <2> QED
      BY <1>0, <2>2
  <1>3. (\A j \in DOMAIN queue : ~AskAt(j)) /\ (\A d \in DOMAIN stack : ~AskOn(d))
    BY <1>1, NoneOpen
  <1>4. TypeOK' /\ Shape'
    BY <1>1, <1>2 DEF TypeOK, Shape
  <1>5. Held'
    BY <1>1, <1>2 DEF Held, EndAt
  <1>6. Named'
    <2>1. \A x \in Promises : Issued(x) => Issued(x)'
      BY <1>1 DEF Issued
    <2>2. (\A j \in DOMAIN queue : queue[j].do \in {"ask", "close"} => Issued(queue[j].p))'
      BY <1>2, <2>1, PromisesNamed DEF Named
    <2>3. (\A d \in DOMAIN stack : stack[d].fade = "out" => Issued(stack[d].sets[1]))'
      BY <1>1, <2>1, PromisesNamed DEF Named
    <2> QED
      BY <1>1, <2>2, <2>3 DEF Named, WorkerIs
  <1>7. OneQuestion' /\ Cleared'
    BY <1>1, <1>2, <1>3 DEF OneQuestion, Cleared, Given, WorkerIs, AskAt, AskOn
  <1> QED
    BY <1>4, <1>5, <1>6, <1>7

-----------------------------------------------------------------------------
(***************************************************************************)
(* The main thread and the icon threads.                                   *)
(***************************************************************************)

\* Questions and closes in the queue were there before, each once.
SameTasks(f) ==
    /\ \A j \in DOMAIN queue' : queue'[j].do \in {"ask", "close"} =>
          f[j] \in DOMAIN queue /\ queue'[j] = queue[f[j]]
    /\ \A j, k \in DOMAIN queue' : f[j] = f[k] => j = k

\* So were the questions on the screen; a dialog fades out to what it faded out to before, or
\* to a promise no question waits for.
SameDialogs(g) ==
    /\ \A d \in DOMAIN stack' : stack'[d].kind = "ask" =>
          /\ g[d] \in DOMAIN stack /\ stack[g[d]].kind = "ask"
          /\ stack'[d].p = stack[g[d]].p /\ stack'[d].q = stack[g[d]].q
    /\ \A d \in DOMAIN stack' : stack'[d].fade = "out" =>
          \/ /\ g[d] \in DOMAIN stack /\ stack[g[d]].fade = "out"
             /\ stack'[d].sets = stack[g[d]].sets /\ stack'[d].kind = stack[g[d]].kind
          \/ /\ stack'[d].sets[1] \in Promises /\ Issued(stack'[d].sets[1])
             /\ WorkerIs("ask") => stack'[d].sets[1] # worker.waits
    /\ \A d, e \in DOMAIN stack' : g[d] = g[e] => d = e

\* The worker is left alone, or its promise, which is no question's, is set.
SameWorker ==
    \/ worker' = worker
    \/ /\ worker # None /\ worker.pc # "ask"
       /\ \E v \in Answers : worker' = [worker EXCEPT !.got = v]

\* What is left of the worker then.
LEMMA SameWorkerIs ==
    ASSUME TypeOK, SameWorker
    PROVE  /\ worker' = None \/ worker' \in Workers
           /\ worker' = None <=> worker = None
           /\ worker # None =>
                /\ worker'.n = worker.n /\ worker'.op = worker.op /\ worker'.k = worker.k
                /\ worker'.pc = worker.pc /\ worker'.then = worker.then /\ worker'.no = worker.no
                /\ worker'.waits = worker.waits /\ worker'.i = worker.i
                /\ worker'.gen = worker.gen
                /\ worker.pc = "ask" => worker'.got = worker.got
  <1>1. CASE worker' = worker
    BY <1>1 DEF TypeOK
  <1>2. ASSUME NEW v \in Answers, worker # None, worker.pc # "ask",
               worker' = [worker EXCEPT !.got = v]
        PROVE  /\ worker' \in Workers
               /\ worker'.n = worker.n /\ worker'.op = worker.op /\ worker'.k = worker.k
               /\ worker'.pc = worker.pc /\ worker'.then = worker.then /\ worker'.no = worker.no
               /\ worker'.waits = worker.waits /\ worker'.i = worker.i
               /\ worker'.gen = worker.gen
    <2>1. worker \in Workers
      BY <1>2 DEF TypeOK
    <2> QED
      BY <1>2, <2>1 DEF Workers
  <1> QED
    BY <1>1, <1>2, NoneIsNoWorker DEF SameWorker

\* A step that asks nothing and answers nothing.
LEMMA Calm ==
    ASSUME SwitchInv, SameWorker, UNCHANGED <<ops, given, took>>,
           NEW f, SameTasks(f), NEW g, SameDialogs(g)
    PROVE  Named' /\ OneQuestion' /\ Cleared'
  <1> USE DEF SwitchInv
  <1>1. /\ worker' = None <=> worker = None
        /\ worker # None =>
              /\ worker'.n = worker.n /\ worker'.op = worker.op /\ worker'.k = worker.k
              /\ worker'.pc = worker.pc /\ worker'.then = worker.then /\ worker'.no = worker.no
              /\ worker'.waits = worker.waits
              /\ worker.pc = "ask" => worker'.got = worker.got
    BY SameWorkerIs
  <1>2. /\ WorkerIs("ask")' <=> WorkerIs("ask")
        /\ worker # None => (Clearing' <=> Clearing)
    BY <1>1 DEF WorkerIs, Clearing
  <1>3. Named'
    <2>1. \A x \in Promises : Issued(x) => Issued(x)'
      BY <1>1 DEF Issued
    <2>2. (\A j \in DOMAIN queue : queue[j].do \in {"ask", "close"} => Issued(queue[j].p))'
      BY <2>1, PromisesNamed DEF Named, SameTasks
    <2>3. (\A d \in DOMAIN stack : stack[d].fade = "out" => Issued(stack[d].sets[1]))'
      <3>1. SUFFICES ASSUME NEW d \in DOMAIN stack', stack'[d].fade = "out"
                     PROVE  \A x : x = stack'[d].sets[1] => Issued(x)'
        OBVIOUS
      <3>2. stack'[d].sets[1] \in Promises /\ \A x : x = stack'[d].sets[1] => Issued(x)
        BY <3>1, PromisesNamed DEF SameDialogs, Named
      <3> QED
        BY <2>1, <3>2
    <2>4. WorkerIs("ask")' => \A j \in DOMAIN queue' : queue'[j].do = "close" => queue'[j].p # worker'.waits
      BY <1>1, <1>2 DEF Named, SameTasks, WorkerIs
    <2> QED
      BY <1>1, <2>2, <2>3, <2>4 DEF Named
  <1>4. OneQuestion'
    <2>1. \A p, q : Open(p, q) => Open(p, q)'
      BY <1>1, <1>2 DEF Open, WorkerIs
    <2>2. WorkerIs("ask") => \A p, v : Fits(p, v) => Fits(p, v)'
      BY <1>2 DEF Fits, Given, WorkerIs
    <2>3. (\A j \in DOMAIN queue : AskAt(j) => Open(queue[j].p, queue[j].q))'
      BY <2>1 DEF OneQuestion, SameTasks, AskAt
    <2>4. (\A d \in DOMAIN stack : AskOn(d) => Open(stack[d].p, stack[d].q))'
      BY <2>1 DEF OneQuestion, SameDialogs, AskOn
    <2>5. (\A j, k \in DOMAIN queue : AskAt(j) /\ AskAt(k) => j = k)'
      BY DEF OneQuestion, SameTasks, AskAt
    <2>6. (\A d, e \in DOMAIN stack : AskOn(d) /\ AskOn(e) => d = e)'
      BY DEF OneQuestion, SameDialogs, AskOn
    <2>7. (\A j \in DOMAIN queue, d \in DOMAIN stack : ~(AskAt(j) /\ AskOn(d)))'
      BY DEF OneQuestion, SameTasks, SameDialogs, AskAt, AskOn
    <2>8. (\A d \in DOMAIN stack :
             stack[d].fade = "out" /\ WorkerIs("ask") /\ stack[d].sets[1] = worker.waits
                => AskOn(d) /\ Fits(stack[d].sets[1], stack[d].sets[2]))'
      <3> SUFFICES ASSUME NEW d \in DOMAIN stack', stack'[d].fade = "out", WorkerIs("ask"),
                          stack'[d].sets[1] = worker'.waits
                   PROVE  /\ AskOn(d)'
                          /\ \A p, v : p = stack'[d].sets[1] /\ v = stack'[d].sets[2] => Fits(p, v)'
        BY <1>2
      <3>1. worker'.waits = worker.waits
        BY <1>1 DEF WorkerIs
      <3>2. /\ g[d] \in DOMAIN stack /\ stack[g[d]].fade = "out"
            /\ stack'[d].sets = stack[g[d]].sets /\ stack'[d].kind = stack[g[d]].kind
        BY <3>1 DEF SameDialogs
      <3>3. AskOn(g[d]) /\ Fits(stack[g[d]].sets[1], stack[g[d]].sets[2])
        BY <3>1, <3>2 DEF OneQuestion
      <3> QED
        BY <2>2, <3>2, <3>3 DEF AskOn
    <2>9. (WorkerIs("ask") /\ worker.got # None => Fits(worker.waits, worker.got))'
      <3> SUFFICES ASSUME WorkerIs("ask"), worker'.got # None
                   PROVE  \A p, v : p = worker'.waits /\ v = worker'.got => Fits(p, v)'
        BY <1>2
      <3>1. worker'.waits = worker.waits /\ worker'.got = worker.got
        BY <1>1 DEF WorkerIs
      <3>2. Fits(worker.waits, worker.got)
        BY <3>1 DEF OneQuestion
      <3> QED
        BY <2>2, <3>1, <3>2
    <2> QED
      BY <2>3, <2>4, <2>5, <2>6, <2>7, <2>8, <2>9 DEF OneQuestion
  <1>5. Cleared'
    <2>1. \A x, v : Given(x, v)' <=> Given(x, v)
      BY DEF Given
    <2>2. \A j : Yes(j)' <=> Yes(j)
      BY DEF Yes
    <2> QED
      BY <1>1, <2>1, <2>2 DEF Cleared
  <1> QED
    BY <1>3, <1>4, <1>5

\* The identity, for what stays where it was.
Id == [j \in Nat |-> j]

\* A queue or a stack that is as it was.
LEMMA Unmoved ==
    ASSUME TypeOK
    PROVE  /\ queue' = queue => SameTasks(Id)
           /\ stack' = stack => SameDialogs(Id)
  <1>1. (\A j \in DOMAIN queue : Id[j] = j) /\ \A d \in DOMAIN stack : Id[d] = d
    BY DEF TypeOK, Id
  <1> QED
    BY <1>1 DEF SameTasks, SameDialogs

\* A task is taken off the queue; not a question, when it is to be all there is to it.
LEMMA Taken ==
    ASSUME TypeOK, queue # <<>>, queue' = Tail(queue)
    PROVE  \E f : SameTasks(f)
  <1>1. PICK f : f = [j \in DOMAIN queue' |-> j + 1]
    OBVIOUS
  <1>2. \A j \in DOMAIN queue' : f[j] \in DOMAIN queue /\ queue'[j] = queue[f[j]]
    BY <1>1, Dequeued DEF TypeOK
  <1>3. \A j, k \in DOMAIN queue' : f[j] = f[k] => j = k
    BY <1>1, Dequeued DEF TypeOK
  <1> QED
    BY <1>2, <1>3 DEF SameTasks

\* A list is read again: its generation is a new one.
LEMMA Rebuilt ==
    ASSUME TypeOK, Rebuild
    PROVE  /\ list' \in [gen: Nat, count: Counts \cup {0}, freed: BOOLEAN]
           /\ tiles' \in [1 .. list'.count -> {None} \cup (Nat \X Nat)]
           /\ \A i \in DOMAIN tiles' : tiles'[i] = None
           /\ loaders' \subseteq [gen: Nat, next: Nat, count: Nat]
  <1>1. PICK n \in Counts :
           /\ list' = [gen |-> list.gen + 1, count |-> n, freed |-> FALSE]
           /\ tiles' = [i \in 1 .. n |-> None]
           /\ loaders' = IF n = 0 THEN loaders
                         ELSE loaders \cup {[gen |-> list.gen + 1, next |-> 1, count |-> n]}
    BY DEF Rebuild
  <1>2. n \in Nat /\ list.gen + 1 \in Nat
    BY SwitchBounds DEF TypeOK
  <1>3. list' \in [gen: Nat, count: Counts \cup {0}, freed: BOOLEAN] /\ list'.count = n
    BY <1>1, <1>2
  <1>4. [gen |-> list.gen + 1, next |-> 1, count |-> n] \in [gen: Nat, next: Nat, count: Nat]
    BY <1>2
  <1> QED
    BY <1>1, <1>3, <1>4 DEF TypeOK

\* One title of an icon thread.
LEMMA IconLoads == ASSUME SwitchInv, NEW l \in loaders, LoadIcon(l) PROVE SwitchInv'
  <1> USE DEF SwitchInv
  <1>1. l \in [gen: Nat, next: Nat, count: Nat] /\ main # "off"
    BY DEF TypeOK, Shape
  <1>t. PICK t : t = [do |-> "icon", gen |-> l.gen, i |-> l.next]
    OBVIOUS
  <1>2. t \in Tasks /\ t.do = "icon"
    BY <1>1, <1>t, TasksAre
  <1>3. UNCHANGED <<main, stack, progress, running, worker, list, tiles, ops, reloads, given, took>>
    BY DEF LoadIcon
  <1>4. queue' = queue \/ queue' = Append(queue, t)
    BY <1>t DEF LoadIcon
  <1>5. loaders' \subseteq [gen: Nat, next: Nat, count: Nat]
    <2>1. [l EXCEPT !.next = @ + 1] \in [gen: Nat, next: Nat, count: Nat]
      BY <1>1
    <2> QED
      BY <2>1 DEF LoadIcon, TypeOK
  <1>6. \E n \in Nat :
           /\ queue' \in Seq(Tasks) /\ DOMAIN queue' \subseteq DOMAIN queue \cup {n}
           /\ \A j \in DOMAIN queue' : (j \in DOMAIN queue /\ queue'[j] = queue[j]) \/ queue'[j] = t
    BY <1>2, <1>4, Queued DEF TypeOK
  <1>7. PICK n \in Nat :
           /\ queue' \in Seq(Tasks) /\ DOMAIN queue' \subseteq DOMAIN queue \cup {n}
           /\ \A j \in DOMAIN queue' : (j \in DOMAIN queue /\ queue'[j] = queue[j]) \/ queue'[j] = t
    BY <1>6
  <1>8. TypeOK' /\ Shape'
    BY <1>1, <1>2, <1>3, <1>5, <1>7 DEF TypeOK, Shape
  <1>9. Held'
    BY <1>2, <1>3, <1>7 DEF Held, EndAt
  <1>10. SameTasks(Id)
    <2>1. \A j \in DOMAIN queue' : Id[j] = j
      BY <1>7 DEF Id, TypeOK
    <2> QED
      BY <1>2, <1>7, <2>1 DEF SameTasks
  <1>11. Named' /\ OneQuestion' /\ Cleared'
    BY <1>3, <1>10, Unmoved, Calm DEF SameWorker
  <1> QED
    BY <1>8, <1>9, <1>11

\* A launch and a reload of the list, with no operation on.
LEMMA Reads == ASSUME SwitchInv, Launch \/ Reload PROVE SwitchInv'
  <1> USE DEF SwitchInv
  <1>1. /\ Rebuild /\ main' = "loop" /\ main \in {"off", "loop"}
        /\ main = "loop" => ~running
        /\ UNCHANGED <<queue, stack, progress, running, worker, ops, given, took>>
        /\ reloads' \in 0 .. MaxReloads
    BY SwitchBounds DEF Launch, Reload, AtGrid, Heard, TypeOK
  <1>2. worker = None /\ \A j \in DOMAIN queue : ~EndAt(j)
    BY <1>1 DEF Shape, Held
  <1>3. TypeOK' /\ Shape'
    <2>1. /\ list' \in [gen: Nat, count: Counts \cup {0}, freed: BOOLEAN]
          /\ tiles' \in [1 .. list'.count -> {None} \cup (Nat \X Nat)]
          /\ loaders' \subseteq [gen: Nat, next: Nat, count: Nat]
      BY <1>1, Rebuilt
    <2> QED
      BY <1>1, <1>2, <2>1 DEF TypeOK, Shape
  <1>4. Held'
    BY <1>1, <1>2 DEF Held, EndAt
  <1>5. Named' /\ OneQuestion' /\ Cleared'
    BY <1>1, Unmoved, Calm DEF SameWorker
  <1> QED
    BY <1>3, <1>4, <1>5

\* The loop ends, and the dialogs go with it.
LEMMA Quits == ASSUME SwitchInv, Quit PROVE SwitchInv'
  <1> USE DEF SwitchInv
  <1>1. /\ main' = "exited" /\ main = "loop" /\ stack' = <<>>
        /\ list' = [list EXCEPT !.freed = TRUE]
        /\ UNCHANGED <<queue, progress, running, worker, tiles, loaders, ops, reloads, given, took>>
    BY DEF Quit
  <1>2. list' \in [gen: Nat, count: Counts \cup {0}, freed: BOOLEAN] /\ list'.count = list.count
    BY <1>1 DEF TypeOK
  <1>3. TypeOK'
    BY <1>1, <1>2, NothingYet DEF TypeOK
  <1>4. Shape' /\ Held'
    BY <1>1 DEF Shape, Held
  <1>5. SameDialogs(Id)
    BY <1>1 DEF SameDialogs
  <1>6. Named' /\ OneQuestion' /\ Cleared'
    BY <1>1, <1>5, Unmoved, Calm DEF SameWorker
  <1> QED
    BY <1>3, <1>4, <1>6

\* A dialog is there, and the buttons are heard.
LEMMA FadesIn == ASSUME SwitchInv, FadedIn PROVE SwitchInv'
  <1> USE DEF SwitchInv
  <1>1. PICK d \in DOMAIN stack : stack[d].fade = "in" /\ stack' = [stack EXCEPT ![d].fade = "no"]
    BY DEF FadedIn
  <1>2. UNCHANGED <<main, queue, progress, running, worker, list, tiles, loaders, ops, reloads, given, took>>
        /\ main = "loop"
    BY DEF FadedIn
  <1>3. PICK x : x = [stack[d] EXCEPT !.fade = "no"]
    OBVIOUS
  <1>4. x \in Dialogs /\ x.kind = stack[d].kind /\ x.p = stack[d].p /\ x.q = stack[d].q
        /\ x.fade = "no"
    <2>1. stack[d] \in Dialogs
      BY DEF TypeOK
    <2> QED
      BY <1>3, <2>1 DEF Dialogs
  <1>5. stack' \in Seq(Dialogs) /\ DOMAIN stack' = DOMAIN stack
        /\ \A e \in DOMAIN stack : stack'[e] = IF e = d THEN x ELSE stack[e]
    BY <1>1, <1>3, <1>4 DEF TypeOK
  <1>6. TypeOK'
    BY <1>2, <1>5 DEF TypeOK
  <1>7. Shape'
    BY <1>2, <1>4, <1>5 DEF Shape
  <1>8. Held'
    BY <1>2 DEF Held, EndAt
  <1>9. SameDialogs(Id)
    <2>1. \A e \in DOMAIN stack : Id[e] = e
      BY DEF Id, TypeOK
    <2> QED
      BY <1>4, <1>5, <2>1 DEF SameDialogs
  <1>10. Named' /\ OneQuestion' /\ Cleared'
    BY <1>2, <1>9, Unmoved, Calm DEF SameWorker
  <1> QED
    BY <1>6, <1>7, <1>8, <1>10

\* What RunTask has in hand, and what it leaves.
LEMMA TaskTaken ==
    ASSUME SwitchInv, RunTask
    PROVE  /\ main = "loop" /\ UNCHANGED <<main, ops, reloads, given, took>>
           /\ Head(queue) = queue[1] /\ queue[1] \in Tasks /\ 1 \in DOMAIN queue
           /\ queue' \in Seq(Tasks)
           /\ \A j \in DOMAIN queue' : /\ j \in Nat \ {0} /\ j + 1 \in DOMAIN queue
                                       /\ queue'[j] = queue[j + 1]
           /\ \E f : SameTasks(f)
  BY Dequeued, Taken DEF RunTask, SwitchInv, TypeOK

\* The end is not there twice.
LEMMA HeldOn ==
    ASSUME SwitchInv, RunTask, Head(queue).do # "end", SameWorker, UNCHANGED <<running, list>>
    PROVE  Held'
  <1>1. \A j, k \in DOMAIN queue' : j + 1 = k + 1 => j = k
    BY TaskTaken
  <1>2. worker' # None => worker # None /\ worker'.gen = worker.gen /\ worker'.i = worker.i
    BY SameWorkerIs DEF SwitchInv
  <1> QED
    BY <1>1, <1>2, TaskTaken DEF Held, EndAt, SwitchInv, SameWorker

\* The dialog that shows progress is opened, or was there.
LEMMA Opening == ASSUME SwitchInv, RunTask, Head(queue).do = "open", RunOpen PROVE SwitchInv'
  <1> USE DEF SwitchInv
  <1>1. UNCHANGED <<running, worker, list, tiles, loaders>> /\ progress' = TRUE
    BY DEF RunOpen
  <1>2. <<ops, 0>> \in Promises
    BY TaskTaken DEF Shape, TypeOK, Promises
  <1>3. \E n \in Nat :
           /\ stack' \in Seq(Dialogs) /\ DOMAIN stack' \subseteq DOMAIN stack \cup {n}
           /\ \A d \in DOMAIN stack' : \/ d \in DOMAIN stack /\ stack'[d] = stack[d]
                                       \/ stack'[d].kind = "progress" /\ stack'[d].fade = "in"
    <2>1. CASE progress
      <3>1. stack' = stack
        BY <2>1 DEF RunOpen
      <3> QED
        BY <3>1 DEF TypeOK
    <2>2. CASE ~progress
      <3>1. PICK p \in Promises, q \in Questions \cup {None} : Push("progress", p, q)
        BY <1>2, <2>2 DEF RunOpen
      <3>2. PICK n \in Nat \ DOMAIN stack :
              /\ stack' \in Seq(Dialogs)
              /\ DOMAIN stack' = DOMAIN stack \cup {n}
              /\ stack'[n].kind = "progress" /\ stack'[n].fade = "in"
              /\ \A d \in DOMAIN stack : stack'[d] = stack[d]
        BY <3>1, Pushed DEF TypeOK
      <3> QED
        BY <3>2
    <2> QED
      BY <2>1, <2>2
  <1>4. TypeOK'
    BY <1>1, <1>3, TaskTaken DEF TypeOK
  <1>5. Shape'
    BY <1>1, <1>3, TaskTaken DEF Shape
  <1>6. Held'
    BY <1>1, HeldOn DEF SameWorker
  <1>7. SameDialogs(Id)
    <2>1. \A d \in DOMAIN stack' : Id[d] = d
      BY <1>3 DEF Id, TypeOK
    <2> QED
      BY <1>3, <2>1 DEF SameDialogs
  <1>8. Named' /\ OneQuestion' /\ Cleared'
    BY <1>1, <1>7, TaskTaken, Calm DEF SameWorker
  <1> QED
    BY <1>4, <1>5, <1>6, <1>8

\* progressClose takes down whatever is on top, and no question's promise with it.
LEMMA Closing ==
    ASSUME SwitchInv, RunTask, Head(queue).do = "close", RunClose(Head(queue))
    PROVE  SwitchInv'
  <1> USE DEF SwitchInv
  <1>p. PICK p : p = Head(queue).p
    OBVIOUS
  <1>1. p \in Promises /\ Issued(p) /\ (WorkerIs("ask") => p # worker.waits)
    BY <1>p, TaskTaken, TaskIs DEF Named
  <1>2. UNCHANGED <<running, list, tiles, loaders>> /\ progress' = FALSE /\ "closed" \in Answers
    BY DEF RunClose, Answers
  <1>3. CASE progress
    <2>1. Pop(p, "closed") /\ worker' = worker
      BY <1>p, <1>3 DEF RunClose
    <2>2. /\ stack' \in Seq(Dialogs) /\ DOMAIN stack' = DOMAIN stack
          /\ \A d \in DOMAIN stack :
               /\ stack'[d].kind = stack[d].kind /\ stack'[d].p = stack[d].p
               /\ stack'[d].q = stack[d].q
               /\ \/ stack'[d] = stack[d]
                  \/ stack'[d].fade = "out" /\ stack'[d].sets = <<p, "closed">>
      BY <1>1, <1>2, <2>1, Popped DEF TypeOK
    <2>3. TypeOK'
      BY <1>2, <2>1, <2>2, TaskTaken DEF TypeOK
    <2>4. Shape'
      <3>1. \A d \in DOMAIN stack' : stack'[d].fade = "out" => stack'[d].sets \in Promises \X Answers
        <4> SUFFICES ASSUME NEW d \in DOMAIN stack', stack'[d].fade = "out"
                     PROVE  stack'[d].sets \in Promises \X Answers
          OBVIOUS
        <4>1. CASE stack'[d] = stack[d]
          BY <2>2, <4>1 DEF Shape
        <4>2. CASE stack'[d].sets = <<p, "closed">>
          BY <4>2, <1>1, <1>2
        <4> QED
          BY <2>2, <4>1, <4>2
      <3> QED
        BY <2>1, <2>2, <3>1, TaskTaken DEF Shape
    <2>5. SameDialogs(Id)
      <3>1. \A d \in DOMAIN stack' : Id[d] = d
        BY <2>2 DEF Id, TypeOK
      <3>2. \A d \in DOMAIN stack' : stack'[d].sets = <<p, "closed">> => stack'[d].sets[1] = p
        OBVIOUS
      <3> QED
        BY <1>1, <2>2, <3>1, <3>2 DEF SameDialogs
    <2>6. Held'
      BY <1>2, <2>1, HeldOn DEF SameWorker
    <2>7. Named' /\ OneQuestion' /\ Cleared'
      BY <2>1, <2>5, TaskTaken, Calm DEF SameWorker
    <2> QED
      BY <2>3, <2>4, <2>6, <2>7
  <1>4. CASE ~progress
    <2>1. SetPromise(p, "closed") /\ stack' = stack
      BY <1>p, <1>4 DEF RunClose
    <2>2. SameWorker
      BY <1>1, <1>2, <2>1 DEF SetPromise, Waited, SameWorker, WorkerIs
    <2>3. TypeOK'
      BY <1>2, <2>1, <2>2, SameWorkerIs, TaskTaken DEF TypeOK
    <2>4. Shape'
      BY <2>1, <2>2, SameWorkerIs, TaskTaken DEF Shape
    <2>5. Held'
      BY <1>2, <2>2, HeldOn
    <2>6. Named' /\ OneQuestion' /\ Cleared'
      BY <2>1, <2>2, TaskTaken, Unmoved, Calm
    <2> QED
      BY <2>3, <2>4, <2>5, <2>6
  <1> QED
    BY <1>3, <1>4

\* A picture comes to its tile, or too late.
LEMMA Pictures ==
    ASSUME SwitchInv, RunTask, Head(queue).do = "icon", RunIcon(Head(queue))
    PROVE  SwitchInv'
  <1> USE DEF SwitchInv
  <1>1. UNCHANGED <<stack, progress, running, worker, list, loaders>>
    BY DEF RunIcon
  <1>2. PICK g, i : g = Head(queue).gen /\ i = Head(queue).i
    OBVIOUS
  <1>3. g \in Nat /\ i \in Nat
    BY <1>2, TaskTaken DEF Tasks
  <1>4. tiles' \in [1 .. list'.count -> {None} \cup (Nat \X Nat)]
    <2>1. tiles' = tiles \/ tiles' = [tiles EXCEPT ![i] = <<g, i>>]
      BY <1>2 DEF RunIcon
    <2>2. <<g, i>> \in Nat \X Nat
      BY <1>3
    <2> QED
      BY <1>1, <2>1, <2>2 DEF TypeOK
  <1>5. TypeOK'
    BY <1>1, <1>4, TaskTaken DEF TypeOK
  <1>6. Shape'
    BY <1>1, TaskTaken DEF Shape
  <1>7. Held'
    BY <1>1, HeldOn DEF SameWorker
  <1>8. Named' /\ OneQuestion' /\ Cleared'
    BY <1>1, TaskTaken, Unmoved, Calm DEF SameWorker
  <1> QED
    BY <1>5, <1>6, <1>7, <1>8

\* The operation is over, and the list is read again.
LEMMA Over == ASSUME SwitchInv, RunTask, Head(queue).do = "end", RunEnd PROVE SwitchInv'
  <1> USE DEF SwitchInv
  <1>1. running' = FALSE /\ Rebuild /\ UNCHANGED <<stack, progress, worker>>
    BY DEF RunEnd
  <1>2. worker = None
    BY TaskTaken DEF Held, EndAt
  <1>3. \A j \in DOMAIN queue' : ~EndAt(j + 1) /\ queue'[j].do = queue[j + 1].do
    <2>1. \A j \in DOMAIN queue' : j + 1 # 1
      BY TaskTaken
    <2> QED
      BY <2>1, TaskTaken DEF Held, EndAt
  <1>4. TypeOK'
    <2>1. /\ list' \in [gen: Nat, count: Counts \cup {0}, freed: BOOLEAN]
          /\ tiles' \in [1 .. list'.count -> {None} \cup (Nat \X Nat)]
          /\ loaders' \subseteq [gen: Nat, next: Nat, count: Nat]
      BY <1>1, Rebuilt
    <2> QED
      BY <1>1, <2>1, TaskTaken DEF TypeOK
  <1>5. Shape'
    BY <1>1, TaskTaken DEF Shape
  <1>6. Held'
    BY <1>1, <1>2, <1>3 DEF Held, EndAt
  <1>7. Named' /\ OneQuestion' /\ Cleared'
    BY <1>1, TaskTaken, Unmoved, Calm DEF SameWorker
  <1> QED
    BY <1>4, <1>5, <1>6, <1>7

\* A question comes from the queue to the screen.
LEMMA Asked == ASSUME SwitchInv, RunTask, Head(queue).do = "ask", RunAsk(Head(queue)) PROVE SwitchInv'
  <1> USE DEF SwitchInv
  <1>1. UNCHANGED <<progress, running, worker, list, tiles, loaders>>
    BY DEF RunAsk
  <1>2. PICK p, q : p = Head(queue).p /\ q = Head(queue).q
    OBVIOUS
  <1>3. p \in Promises /\ q \in Questions /\ Open(p, q)
    BY <1>2, TaskTaken, TaskIs DEF OneQuestion, AskAt
  <1>4. \A j \in DOMAIN queue' : ~AskAt(j + 1) /\ queue'[j] = queue[j + 1]
    <2>1. \A j \in DOMAIN queue' : j + 1 # 1
      BY TaskTaken
    <2> QED
      BY <2>1, TaskTaken DEF OneQuestion, AskAt
  <1>5. \A d \in DOMAIN stack : ~AskOn(d)
    BY TaskTaken DEF OneQuestion, AskAt
  <1>6. PICK n : /\ n \notin DOMAIN stack /\ stack' \in Seq(Dialogs)
                 /\ DOMAIN stack' = DOMAIN stack \cup {n}
                 /\ stack'[n].kind = "ask" /\ stack'[n].p = p /\ stack'[n].q = q
                 /\ stack'[n].fade = "in"
                 /\ \A d \in DOMAIN stack : stack'[d] = stack[d]
    <2>1. PICK t : t = [kind |-> "ask", p |-> p, q |-> q, fade |-> "in", sets |-> None]
      OBVIOUS
    <2>2. t \in Dialogs
      BY <1>3, <2>1 DEF Dialogs
    <2>3. stack' = Append(stack, t) /\ stack \in Seq(Dialogs)
      BY <1>2, <2>1 DEF RunAsk, Push, TypeOK
    <2>4. PICK n : n = Len(stack) + 1
      OBVIOUS
    <2>5. n \notin DOMAIN stack /\ stack' \in Seq(Dialogs) /\ DOMAIN stack' = DOMAIN stack \cup {n}
      BY <2>2, <2>3, <2>4
    <2>6. stack'[n] = t /\ \A d \in DOMAIN stack : stack'[d] = stack[d]
      BY <2>2, <2>3, <2>4
    <2> QED
      BY <2>1, <2>5, <2>6
  <1>7. TypeOK'
    BY <1>1, <1>6, TaskTaken DEF TypeOK
  <1>8. Shape'
    BY <1>1, <1>3, <1>6, TaskTaken DEF Shape
  <1>9. Held'
    BY <1>1, HeldOn DEF SameWorker
  <1>10. Named'
    <2>1. \A x : Issued(x) => Issued(x)'
      BY <1>1, TaskTaken DEF Issued
    <2>2. (\A j \in DOMAIN queue : queue[j].do \in {"ask", "close"} => Issued(queue[j].p))'
      BY <2>1, TaskTaken DEF Named
    <2>3. (\A d \in DOMAIN stack : stack[d].fade = "out" => Issued(stack[d].sets[1]))'
      BY <1>6, <2>1 DEF Named
    <2> QED
      BY <1>1, <2>2, <2>3, TaskTaken DEF Named, WorkerIs
  <1>11. OneQuestion'
    <2>1. Open(p, q)'
      BY <1>1, <1>3 DEF Open, WorkerIs, Clearing
    <2>2. WorkerIs("ask") /\ worker.got = None
      BY <1>3 DEF Open
    <2>3. \A d \in DOMAIN stack : stack[d].fade = "out" => stack[d].sets[1] # worker.waits
      BY <1>5, <2>2 DEF OneQuestion
    <2>4. (\A j \in DOMAIN queue : ~AskAt(j))'
      BY <1>4 DEF AskAt
    <2>5. (\A d \in DOMAIN stack : AskOn(d) => d = n)'
      BY <1>5, <1>6 DEF AskOn
    <2>6. (\A d \in DOMAIN stack : stack[d].fade = "out" => stack[d].sets[1] # worker.waits)'
      BY <1>1, <1>6, <2>3
    <2> QED
      BY <1>1, <1>6, <2>1, <2>2, <2>4, <2>5, <2>6 DEF OneQuestion
  <1>12. Cleared'
    BY <1>1, TaskTaken DEF Cleared, Given, Yes
  <1> QED
    BY <1>7, <1>8, <1>9, <1>10, <1>11, <1>12

\* A dialog is gone, and its promise is set: a question's to what was pressed on it.
LEMMA FadesOut ==
    ASSUME SwitchInv, main = "loop", NEW d \in DOMAIN stack, stack[d].fade = "out",
           stack' = Without(d), SetPromise(stack[d].sets[1], stack[d].sets[2]),
           UNCHANGED <<main, queue, progress, running, list, tiles, loaders, ops, reloads,
                       given, took>>
    PROVE  SwitchInv'
  <1> USE DEF SwitchInv
  <1>0. PICK p, v : p = stack[d].sets[1] /\ v = stack[d].sets[2]
    OBVIOUS
  <1>1. p \in Promises /\ v \in Answers
    BY <1>0, PromisesNamed
  <1>2. PICK from \in [DOMAIN stack' -> DOMAIN stack \ {d}] :
           /\ \A e, f \in DOMAIN stack' : from[e] = from[f] => e = f
           /\ \A e \in DOMAIN stack' : stack'[e] = stack[from[e]]
    BY Gone DEF TypeOK
  <1>3. stack' \in Seq(Dialogs)
    BY Gone DEF TypeOK
  <1>4. CASE WorkerIs("ask") /\ worker.waits = p
    <2>1. AskOn(d) /\ Fits(p, v)
      BY <1>0, <1>4 DEF OneQuestion
    <2>2. worker' = [worker EXCEPT !.got = v] /\ worker # None
      BY <1>0, <1>4 DEF SetPromise, Waited, WorkerIs
    <2>3. /\ worker' \in Workers /\ worker' # None /\ worker'.n = worker.n
          /\ worker'.op = worker.op /\ worker'.k = worker.k
          /\ worker'.pc = worker.pc /\ worker'.then = worker.then /\ worker'.no = worker.no
          /\ worker'.waits = worker.waits /\ worker'.i = worker.i
          /\ worker'.gen = worker.gen /\ worker'.got = v
      <3>1. worker \in Workers
        BY <2>2 DEF TypeOK
      <3>2. worker' \in Workers
        BY <1>1, <2>2, <3>1 DEF Workers
      <3> QED
        BY <2>2, <3>1, <3>2, NoneIsNoWorker DEF Workers
    <2>4. \A e \in DOMAIN stack' : stack'[e].kind # "ask"
      BY <1>2, <2>1 DEF OneQuestion, AskOn
    <2>5. \A j \in DOMAIN queue : ~AskAt(j)
      BY <2>1 DEF OneQuestion
    <2>6. \A e \in DOMAIN stack' : stack'[e].fade = "out" => stack'[e].sets[1] # p
      <3> SUFFICES ASSUME NEW e \in DOMAIN stack', stack'[e].fade = "out", stack'[e].sets[1] = p
                   PROVE  FALSE
        OBVIOUS
      <3>1. from[e] \in DOMAIN stack \ {d} /\ stack'[e] = stack[from[e]]
        BY <1>2
      <3>2. AskOn(from[e])
        BY <1>4, <3>1 DEF OneQuestion
      <3> QED
        BY <2>1, <3>1, <3>2 DEF OneQuestion
    <2>7. TypeOK'
      BY <1>3, <2>3 DEF TypeOK
    <2>8. Shape'
      BY <1>2, <2>2, <2>3 DEF Shape
    <2>9. Held'
      BY <2>2, <2>3 DEF Held, EndAt
    <2>10. Named'
      <3>1. \A x \in Promises : Issued(x) => Issued(x)'
        BY <2>2, <2>3 DEF Issued
      <3>2. (\A j \in DOMAIN queue : queue[j].do \in {"ask", "close"} => Issued(queue[j].p))'
        BY <3>1, PromisesNamed DEF Named
      <3>3. \A e \in DOMAIN stack : stack[e].fade = "out"
               => stack[e].sets[1] \in Promises /\ Issued(stack[e].sets[1])
        BY PromisesNamed DEF Named
      <3>4. (\A e \in DOMAIN stack : stack[e].fade = "out" => Issued(stack[e].sets[1]))'
        BY <1>2, <3>1, <3>3
      <3> QED
        BY <2>2, <2>3, <3>2, <3>4 DEF Named, WorkerIs
    <2>11. OneQuestion'
      <3>1. Fits(p, v)'
        BY <2>1, <2>3 DEF Fits, Given, Clearing
      <3> QED
        BY <1>4, <2>3, <2>4, <2>5, <2>6, <3>1 DEF OneQuestion, AskAt, AskOn
    <2>12. Cleared'
      <3>1. \A x, y : Given(x, y)' <=> Given(x, y)
        BY DEF Given
      <3>2. \A j : Yes(j)' <=> Yes(j)
        BY DEF Yes
      <3> QED
        BY <2>2, <2>3, <3>1, <3>2 DEF Cleared
    <2> QED
      BY <2>7, <2>8, <2>9, <2>10, <2>11, <2>12
  <1>5. CASE ~(WorkerIs("ask") /\ worker.waits = p)
    <2>1. SameWorker
      BY <1>0, <1>1, <1>5 DEF SetPromise, Waited, SameWorker, WorkerIs
    <2>2. SameDialogs(from)
      BY <1>2 DEF SameDialogs
    <2>3. TypeOK'
      BY <1>3, <2>1, SameWorkerIs DEF TypeOK
    <2>4. Shape'
      BY <1>2, <2>1, SameWorkerIs DEF Shape
    <2>5. Held'
      BY <2>1, SameWorkerIs DEF Held, EndAt
    <2>6. Named' /\ OneQuestion' /\ Cleared'
      BY <2>1, <2>2, Unmoved, Calm
    <2> QED
      BY <2>3, <2>4, <2>5, <2>6
  <1> QED
    BY <1>4, <1>5

\* A button on the question that is on top, which is the one the worker waits for.
LEMMA Presses == ASSUME SwitchInv, NEW button \in Buttons, Press(button) PROVE SwitchInv'
  <1> USE DEF SwitchInv
  <1>0. PICK n, p, q : n = Len(stack) /\ p = stack[n].p /\ q = stack[n].q
    OBVIOUS
  <1>1. PICK v : v = Means(q, button)
    OBVIOUS
  <1>2. /\ n \in DOMAIN stack /\ AskOn(n)
        /\ button \in q.options \/ (button = "B" /\ q.cancel # None)
        /\ Pop(p, v) /\ given' = given \cup {<<p, button>>}
        /\ main = "loop" /\ \A d \in DOMAIN stack : stack[d].fade = "no"
        /\ UNCHANGED <<main, queue, progress, running, worker, list, tiles, loaders, ops, reloads, took>>
    BY <1>0, <1>1 DEF Press, Heard, AskOn, TypeOK
  <1>3. Open(p, q) /\ q \in Questions /\ p \in Promises
    BY <1>0, <1>2, PromisesNamed DEF OneQuestion, Shape, AskOn
  <1>4. /\ worker # None /\ worker.pc = "ask" /\ p = worker.waits /\ worker.got = None
        /\ p = <<ops, worker.k>> /\ worker.k >= 1 /\ worker.k \in Nat
        /\ Clearing => q = Confirm
    BY <1>3 DEF Open, WorkerIs, Named, Shape, TypeOK, Workers
  <1>5. /\ v \in Answers
        /\ v = button \/ (v \in {"no", "neither"} /\ button = "B")
        /\ q = Confirm => v \in {"yes", "no"}
    BY <1>1, <1>2, <1>3 DEF Means, Questions, Confirm, Choose, Result, Answers
  <1>6. /\ stack' \in Seq(Dialogs) /\ DOMAIN stack' = DOMAIN stack
        /\ \A d \in DOMAIN stack :
             /\ stack'[d].kind = stack[d].kind /\ stack'[d].p = stack[d].p
             /\ stack'[d].q = stack[d].q
             /\ \/ d # n /\ stack'[d] = stack[d]
                \/ d = n /\ stack'[d].fade = "out" /\ stack'[d].sets = <<p, v>>
    BY <1>0, <1>2, <1>3, <1>5, Popped DEF TypeOK
  <1>7. /\ \A d \in DOMAIN stack' : stack'[d].fade = "out" => d = n
        /\ stack'[n].sets = <<p, v>>
    BY <1>2, <1>6
  <1>8. TypeOK'
    <2>1. <<p, button>> \in Promises \X Buttons
      BY <1>3
    <2>2. given' \subseteq Promises \X Buttons
      BY <1>2, <2>1 DEF TypeOK
    <2> QED
      BY <1>2, <1>6, <2>2 DEF TypeOK
  <1>9. Shape'
    <2>1. <<p, v>> \in Promises \X Answers
      BY <1>3, <1>5
    <2> QED
      BY <1>2, <1>6, <1>7, <2>1 DEF Shape
  <1>10. Held'
    BY <1>2 DEF Held, EndAt
  <1>11. Named'
    <2>1. \A x : Issued(x) => Issued(x)'
      BY <1>2 DEF Issued
    <2>2. Issued(p)
      <3>1. ops \in Nat
        BY SwitchBounds DEF TypeOK
      <3>2. p[1] = ops /\ p[2] = worker.k
        BY <1>4
      <3> QED
        BY <1>4, <3>1, <3>2 DEF Issued
    <2>3. (\A d \in DOMAIN stack : stack[d].fade = "out" => Issued(stack[d].sets[1]))'
      <3>1. \A d \in DOMAIN stack' : stack'[d].fade = "out" => stack'[d].sets[1] = p
        BY <1>7
      <3> QED
        BY <2>1, <2>2, <3>1
    <2>4. (\A j \in DOMAIN queue : queue[j].do \in {"ask", "close"} => Issued(queue[j].p))'
      BY <1>2, <2>1 DEF Named
    <2> QED
      BY <1>2, <2>3, <2>4 DEF Named, WorkerIs
  <1>12. \A x, y : Given(x, y) => Given(x, y)'
    BY <1>2 DEF Given
  <1>13. OneQuestion'
    <2>1. \A x, y : Open(x, y) => Open(x, y)'
      BY <1>2 DEF Open, WorkerIs, Clearing
    <2>2. Fits(p, v)'
      BY <1>2, <1>4, <1>5 DEF Fits, Given, Clearing
    <2>3. (\A d \in DOMAIN stack : AskOn(d) => Open(stack[d].p, stack[d].q))'
      BY <1>6, <2>1 DEF OneQuestion, AskOn
    <2>4. (\A j \in DOMAIN queue : AskAt(j) => Open(queue[j].p, queue[j].q))'
      BY <1>2, <2>1 DEF OneQuestion, AskAt
    <2>5. (\A d \in DOMAIN stack :
             stack[d].fade = "out" /\ WorkerIs("ask") /\ stack[d].sets[1] = worker.waits
                => AskOn(d) /\ Fits(stack[d].sets[1], stack[d].sets[2]))'
      <3>1. stack'[n].sets[1] = p /\ stack'[n].sets[2] = v
        BY <1>7
      <3>2. AskOn(n)'
        BY <1>2, <1>6 DEF AskOn
      <3> QED
        BY <1>7, <2>2, <3>1, <3>2
    <2> QED
      BY <1>2, <1>4, <1>6, <2>3, <2>4, <2>5 DEF OneQuestion, AskAt, AskOn
  <1>14. Cleared'
    <2>1. \A j : Yes(j) => Yes(j)'
      BY <1>2 DEF Yes
    <2>2. \A t \in given' : t[1][1] = ops /\ t[1][2] \in 1 .. worker.k
      BY <1>2, <1>4 DEF Cleared
    <2> QED
      BY <1>2, <1>12, <2>1, <2>2 DEF Cleared
  <1> QED
    BY <1>8, <1>9, <1>10, <1>11, <1>13, <1>14

\* An operation starts on the list there is, when none is on.
LEMMA Starts ==
    ASSUME SwitchInv, NEW op \in Ops, NEW i \in 1 .. list.count, Start(op, i)
    PROVE  SwitchInv'
  <1> USE DEF SwitchInv
  <1>1. PICK w : w = [n |-> ops + 1, op |-> op, i |-> i, gen |-> list.gen, pc |-> "begin", k |-> 0,
                      waits |-> None, got |-> None, then |-> "end", no |-> "end", asks |-> 0,
                      r |-> "ok"]
    OBVIOUS
  <1>2. /\ main = "loop" /\ ~running /\ running' = TRUE /\ ops' = ops + 1 /\ worker' = w
        /\ given' = {} /\ took' = {} /\ ops < MaxOps
        /\ UNCHANGED <<main, queue, stack, progress, list, tiles, loaders, reloads>>
    BY <1>1 DEF Start, AtGrid, Heard
  <1>3. ops \in Nat /\ ops + 1 \in 1 .. MaxOps /\ list.gen \in Nat /\ list.count \in Nat
    <2>1. ops \in Nat /\ ops + 1 \in 1 .. MaxOps
      BY <1>2, SwitchBounds DEF TypeOK
    <2>2. list.gen \in Nat /\ list.count \in Counts \cup {0}
      BY DEF TypeOK
    <2>3. \A c \in Counts \cup {0} : c \in Nat
      BY SwitchBounds
    <2> QED
      BY <2>1, <2>2, <2>3
  <1>4. w \in Workers
    <2>1. i \in Nat /\ 0 \in 0 .. MaxAsks /\ 0 \in Nat
      BY <1>3, SwitchBounds
    <2> QED
      BY <1>1, <1>3, <2>1 DEF Workers
  <1>5. worker = None /\ \A j \in DOMAIN queue : ~EndAt(j)
    BY <1>2 DEF Held
  <1>6. (\A j \in DOMAIN queue : ~AskAt(j)) /\ (\A d \in DOMAIN stack : ~AskOn(d))
    BY <1>5 DEF OneQuestion, Open, WorkerIs
  <1>7. /\ w.n = ops + 1 /\ w.op = op /\ w.i = i /\ w.gen = list.gen /\ w.pc = "begin" /\ w.k = 0
        /\ w.waits = None
    BY <1>1
  <1>8. TypeOK'
    BY <1>2, <1>3, <1>4 DEF TypeOK
  <1>9. Shape'
    BY <1>2, <1>3, <1>7 DEF Shape
  <1>10. Held'
    BY <1>2, <1>3, <1>5, <1>7 DEF Held, EndAt
  <1>11. Named'
    <2>1. \A x \in Promises : Issued(x) => Issued(x)'
      BY <1>2, <1>3, <1>5, <1>7 DEF Issued, Promises
    <2>2. (\A j \in DOMAIN queue : queue[j].do \in {"ask", "close"} => Issued(queue[j].p))'
      BY <1>2, <2>1, PromisesNamed DEF Named
    <2>3. (\A d \in DOMAIN stack : stack[d].fade = "out" => Issued(stack[d].sets[1]))'
      BY <1>2, <2>1, PromisesNamed DEF Named
    <2> QED
      BY <1>2, <1>7, <2>2, <2>3 DEF Named, WorkerIs
  <1>12. OneQuestion' /\ Cleared'
    BY <1>2, <1>6, <1>7 DEF OneQuestion, Cleared, WorkerIs, AskAt, AskOn
  <1> QED
    BY <1>8, <1>9, <1>10, <1>11, <1>12

\* Whichever task the main thread runs.
LEMMA Runs == ASSUME SwitchInv, RunTask PROVE SwitchInv'
  <1>1. CASE Head(queue).do = "open" /\ RunOpen
    BY <1>1, Opening
  <1>2. CASE Head(queue).do = "close" /\ RunClose(Head(queue))
    BY <1>2, Closing
  <1>3. CASE Head(queue).do = "ask" /\ RunAsk(Head(queue))
    BY <1>3, Asked
  <1>4. CASE Head(queue).do = "icon" /\ RunIcon(Head(queue))
    BY <1>4, Pictures
  <1>5. CASE Head(queue).do = "end" /\ RunEnd
    BY <1>5, Over
  <1> QED
    BY <1>1, <1>2, <1>3, <1>4, <1>5 DEF RunTask

\* A step that changes nothing keeps the invariant.
LEMMA Stutters == ASSUME SwitchInv, UNCHANGED vars PROVE SwitchInv'
  <1> USE DEF SwitchInv, vars
  <1>1. TypeOK' /\ Shape'
    BY DEF TypeOK, Shape
  <1>2. Held' /\ Named'
    BY DEF Held, Named, EndAt, Issued, WorkerIs
  <1>3. OneQuestion'
    BY DEF OneQuestion, Open, AskAt, AskOn, Fits, Given, Clearing, WorkerIs
  <1>4. Cleared'
    BY DEF Cleared, Given, Yes
  <1> QED
    BY <1>1, <1>2, <1>3, <1>4

\* Every step keeps the invariant.
LEMMA NextSwitch == SwitchInv /\ [Next]_vars => SwitchInv'
  <1> SUFFICES ASSUME SwitchInv, [Next]_vars PROVE SwitchInv'
    OBVIOUS
  <1>1. CASE MainStep
    <2>1. CASE FadedIn
      BY <2>1, FadesIn
    <2>2. CASE FadedOut
      <3>1. PICK d \in DOMAIN stack :
               /\ main = "loop" /\ stack[d].fade = "out"
               /\ \/ /\ stack' = Without(d)
                     /\ SetPromise(stack[d].sets[1], stack[d].sets[2])
                     /\ UNCHANGED <<main, queue, progress, running, list, tiles, loaders, ops,
                                    reloads, given, took>>
                  \/ ~Waited(stack[d].sets[1]) /\ Off
        BY <2>2 DEF FadedOut
      <3> QED
        BY <3>1, FadesOut, OffSwitch
    <2>3. CASE RunTask
      BY <2>3, Runs
    <2>4. CASE ProcessEnds
      BY <2>4, OffSwitch DEF ProcessEnds
    <2> QED
      BY <1>1, <2>1, <2>2, <2>3, <2>4 DEF MainStep
  <1>2. CASE WorkerStep
    BY <1>2, Begins, AnsweredIs, Works, ProgressCloses, Reports, Ends DEF WorkerStep
  <1>3. CASE Person
    <2>1. CASE Launch \/ Reload
      BY <2>1, Reads
    <2>2. CASE Quit
      BY <2>2, Quits
    <2>3. CASE \E op \in Ops : \E i \in 1 .. list.count : Start(op, i)
      BY <2>3, Starts
    <2>4. CASE \E button \in Buttons : Press(button)
      BY <2>4, Presses
    <2> QED
      BY <1>3, <2>1, <2>2, <2>3, <2>4 DEF Person
  <1>4. CASE \E l \in loaders : LoadIcon(l)
    BY <1>4, IconLoads
  <1>5. CASE UNCHANGED vars
    BY <1>5, Stutters
  <1> QED
    BY <1>1, <1>2, <1>3, <1>4, <1>5 DEF Next

\* The invariant holds throughout.
LEMMA SwitchIsInvariant == Spec => []SwitchInv
  <1>1. Init => SwitchInv
    BY InitSwitch
  <1>2. SwitchInv /\ [Next]_vars => SwitchInv'
    BY NextSwitch
  <1> QED
    BY <1>1, <1>2, PTL DEF Spec

-----------------------------------------------------------------------------
(***************************************************************************)
(* What follows.                                                           *)
(***************************************************************************)

\* Every variable has its type: no operation is started beyond those there are names for,
\* and no promise is named that was not made.
THEOREM TypeCorrect == Spec => []TypeOK
  <1>1. SwitchInv => TypeOK
    BY DEF SwitchInv
  <1> QED
    BY <1>1, SwitchIsInvariant, PTL

\* The self test works on a title when both its questions got a yes.
LEMMA TwoYeses ==
    ASSUME SwitchInv, WorkerIs("work"), worker.op = "selftest"
    PROVE  Cardinality({t \in given : t[2] = "yes"}) = 2
  <1> DEFINE first == <<<<ops, 1>>, "yes">>
             second == <<<<ops, 2>>, "yes">>
  <1>1. worker # None /\ worker.k = 2 /\ first \in given /\ second \in given
    BY DEF SwitchInv, Cleared, WorkerIs, Yes
  <1>2. given \subseteq Promises \X Buttons /\ \A t \in given : t[1][1] = ops /\ t[1][2] \in 1 .. 2
    BY <1>1 DEF SwitchInv, TypeOK, Cleared
  <1>3. \A t \in given : t[2] = "yes" => t = first \/ t = second
    <2> SUFFICES ASSUME NEW t \in given, t[2] = "yes" PROVE t = first \/ t = second
      OBVIOUS
    <2>1. t = <<t[1], t[2]>> /\ t[1] = <<t[1][1], t[1][2]>>
      BY <1>2 DEF Promises
    <2>2. t[1][1] = ops /\ (t[1][2] = 1 \/ t[1][2] = 2)
      BY <1>2
    <2> QED
      BY <2>1, <2>2
  <1>4. {t \in given : t[2] = "yes"} = {first, second}
    BY <1>1, <1>3
  <1>5. first # second
    <2>1. first[1][2] = 1 /\ second[1][2] = 2
      OBVIOUS
    <2> QED
      BY <2>1
  <1>6. Cardinality({first, second}) = 2
    <2>1. PICK S, x : S = {first} /\ x = second
      OBVIOUS
    <2>2. IsFiniteSet(S) /\ Cardinality(S) = 1
      BY <2>1, FS_Singleton
    <2>3. {first, second} = S \cup {x} /\ x \notin S
      BY <1>5, <2>1
    <2>4. Cardinality(S \cup {x}) = Cardinality(S) + 1
      BY <2>2, <2>3, FS_AddElement
    <2> QED
      BY <2>2, <2>3, <2>4
  <1> QED
    BY <1>4, <1>6

\* What the worker takes for an answer the person pressed on that very question, and the
\* self test clears a save only after two yeses (ops.cpp:139-142, ui_backend.cpp:40-45).
THEOREM AnswersGiven == Spec => []AnswersAreGiven
  <1>1. SwitchInv => AnswersAreGiven
    <2> SUFFICES ASSUME SwitchInv PROVE AnswersAreGiven
      OBVIOUS
    <2>1. took \subseteq Promises \X Answers /\ \A t \in took : Given(t[1], t[2])
      BY DEF SwitchInv, TypeOK, Cleared
    <2>2. \A t \in took : t \in given \/ (t[2] \in {"no", "neither"} /\ <<t[1], "B">> \in given)
      <3> SUFFICES ASSUME NEW t \in took
                   PROVE  t \in given \/ (t[2] \in {"no", "neither"} /\ <<t[1], "B">> \in given)
        OBVIOUS
      <3>1. t = <<t[1], t[2]>>
        BY <2>1
      <3> QED
        BY <2>1, <3>1 DEF Given
    <2> QED
      BY <2>2, TwoYeses DEF AnswersAreGiven
  <1> QED
    BY <1>1, SwitchIsInvariant, PTL

\* The list an operation was started on is the list it works as long as the loop runs, and
\* there is no second operation beside it (ops.cpp:17-19, main_screen.cpp:120-126).
THEOREM TheListIsHeld == Spec => []ListHeld
  <1>1. SwitchInv => ListHeld
    <2> SUFFICES ASSUME SwitchInv, main = "loop" PROVE ListHeld
      BY DEF ListHeld
    <2>1. worker # None => running /\ worker.gen = list.gen /\ worker.i <= list.count
      BY DEF SwitchInv, Held
    <2> DEFINE ends == {k \in DOMAIN queue : queue[k].do = "end"}
    <2>2. CASE worker # None
      <3>1. ends = {}
        BY <2>2 DEF SwitchInv, Held, EndAt
      <3>2. Cardinality(ends) = 0
        BY <3>1, FS_EmptySet
      <3> QED
        BY <2>1, <2>2, <3>2 DEF ListHeld
    <2>3. CASE worker = None /\ ends = {}
      <3>1. Cardinality(ends) = 0
        BY <2>3, FS_EmptySet
      <3> QED
        BY <2>3, <3>1 DEF ListHeld
    <2>4. CASE worker = None /\ ends # {}
      <3>1. PICK k : k \in ends
        BY <2>4
      <3>2. \A j \in ends : j = k
        BY <3>1 DEF SwitchInv, Held, EndAt
      <3>3. ends = {k}
        BY <3>1, <3>2
      <3>4. Cardinality(ends) = 1
        BY <3>3, FS_Singleton
      <3> QED
        BY <2>4, <3>4 DEF ListHeld
    <2> QED
      BY <2>2, <2>3, <2>4
  <1> QED
    BY <1>1, SwitchIsInvariant, PTL

\* A step keeps the icons on their tiles: a picture that comes late finds another generation.
LEMMA IconsStay ==
    ASSUME SwitchInv, IconsOnTheirTiles, [Next]_vars
    PROVE  IconsOnTheirTiles'
  <1>1. CASE tiles' = tiles /\ list'.gen = list.gen
    BY <1>1 DEF IconsOnTheirTiles
  <1>2. CASE Rebuild
    BY <1>2, Rebuilt DEF IconsOnTheirTiles, SwitchInv
  <1>3. CASE Off
    BY <1>3 DEF IconsOnTheirTiles, Off
  <1>4. CASE RunTask /\ Head(queue).do = "icon" /\ RunIcon(Head(queue))
    <2>1. PICK g, i : g = Head(queue).gen /\ i = Head(queue).i
      OBVIOUS
    <2>2. list' = list
      BY <1>4 DEF RunIcon
    <2>3. CASE tiles' = tiles
      BY <2>2, <2>3 DEF IconsOnTheirTiles
    <2>4. CASE g = list.gen /\ tiles' = [tiles EXCEPT ![i] = <<g, i>>]
      BY <2>2, <2>4 DEF IconsOnTheirTiles
    <2> QED
      BY <1>4, <2>1, <2>3, <2>4 DEF RunIcon, Current
  <1>5. CASE Quit
    <2>1. list'.gen = list.gen /\ tiles' = tiles
      BY <1>5 DEF Quit, SwitchInv, TypeOK
    <2> QED
      BY <2>1 DEF IconsOnTheirTiles
  <1>6. CASE MainStep
    <2>1. CASE FadedIn
      BY <1>1, <2>1 DEF FadedIn
    <2>2. CASE FadedOut
      BY <1>1, <1>3, <2>2 DEF FadedOut
    <2>3. CASE RunTask
      BY <1>1, <1>2, <1>4, <2>3 DEF RunTask, RunOpen, RunClose, RunAsk, RunEnd
    <2> QED
      BY <1>3, <1>6, <2>1, <2>2, <2>3 DEF MainStep, ProcessEnds
  <1>7. CASE WorkerStep
    <2>1. UNCHANGED <<list, tiles>> \/ Off
      BY <1>7 DEF WorkerStep, Begin, Answered, ProgressOpen, Work, ProgressClose, Closed, Report,
                  End, WorkerKeeps
    <2> QED
      BY <1>1, <1>3, <2>1
  <1>8. CASE Person
    <2>1. Rebuild \/ Quit \/ UNCHANGED <<list, tiles>>
      BY <1>8 DEF Person, Launch, Reload, Start, Press
    <2> QED
      BY <1>1, <1>2, <1>5, <2>1
  <1>9. CASE \E l \in loaders : LoadIcon(l)
    BY <1>1, <1>9 DEF LoadIcon
  <1>10. CASE UNCHANGED vars
    BY <1>1, <1>10 DEF vars
  <1> QED
    BY <1>6, <1>7, <1>8, <1>9, <1>10 DEF Next

\* A tile shows its own title's icon, whichever of the reading threads brings it, however
\* late (main_screen.cpp:139-141, 241-244).
THEOREM IconsAreTheirOwn == Spec => []IconsOnTheirTiles
  <1>1. Init => IconsOnTheirTiles
    BY DEF Init, IconsOnTheirTiles
  <1>2. SwitchInv /\ IconsOnTheirTiles /\ [Next]_vars => IconsOnTheirTiles'
    BY IconsStay
  <1> QED
    BY <1>1, <1>2, SwitchIsInvariant, PTL DEF Spec

=============================================================================
