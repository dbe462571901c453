--------------------------- MODULE ApiCallsProofs ---------------------------
(***************************************************************************)
(* Theorems of ApiCalls for buffers and bodies of any sizes, any number of *)
(* calls and any ceiling: whose answer a caller is told, what it is told   *)
(* of an answer that came whole, and what goes over the wire once.         *)
(***************************************************************************)
EXTENDS ApiCalls, FiniteSetTheorems, TLAPS

-----------------------------------------------------------------------------
(***************************************************************************)
(* The invariant.                                                          *)
(***************************************************************************)

SameRequest(m, h) == m.call = h.call /\ m.attempt = h.attempt

\* A request of the call that is on left the client in an attempt that is past sending.
Sent(m) ==
    m.op = call.op /\ m.attempt <= call.attempt
        /\ (call.pc \in {"open", "send"} => m.attempt < call.attempt)

\* Every attempt is sent once at most, and handled once at most when it is.
Numbered ==
    /\ calls = IF call = None THEN 0 ELSE call.n
    /\ \A m \in wire \cup handled : /\ m.call <= calls
                                    /\ m.call = calls => Sent(m)
                                    /\ m.attempt <= MaxAttempts(m.op)
    /\ \A m, k \in wire \cup handled : m.call = k.call => m.op = k.op
    /\ \A h, k \in handled : SameRequest(h, k) => h = k
    /\ \A m \in wire, h \in handled : ~SameRequest(m, h)

\* An answer to the request in hand; what it says that means anything the server said.
Ours(c, a) ==
    /\ a.call = c.n /\ a.attempt = c.attempt
    /\ a.says # None =>
          /\ a.of >= 1 /\ (a.says = "asked" <=> a.status = 200)
          /\ [call |-> a.call, attempt |-> a.attempt, op |-> c.op, status |-> a.status] \in handled

PartOf(a, i) == [call |-> a.call, attempt |-> a.attempt, i |-> i, of |-> a.of,
                 says |-> a.says, status |-> a.status]

Holds(buf, a) == \A i \in DOMAIN buf : buf[i] = PartOf(a, i)

UpTo(n, room) == IF n <= room THEN n ELSE room

\* Before the headers there is nothing of an answer, ...
Unread(c) ==
    /\ c.status = 0 /\ c.sha = 0 /\ c.got = 0 /\ c.sink_err = "ok" /\ ~c.truncated
    /\ c.ok = <<>> /\ c.err = <<>> /\ c.out = <<>>

\* ... and after them the buffers hold the parts that came, from the first on.
Read(c, a) ==
    /\ a \in Answers /\ Ours(c, a)
    /\ c.status = a.status /\ c.sha \in {0, c.attempt} /\ c.got <= a.of
    /\ Holds(c.ok, a) /\ Holds(c.err, a) /\ Holds(c.out, a)
    /\ c.out # <<>> => c.status = 200 /\ c.op = "download"
    /\ IF c.status # 200 THEN Len(c.err) = UpTo(c.got, ErrorRoom)
       ELSE IF c.op = "download" THEN c.sink_err = "ok" => Len(c.out) = c.got
       ELSE Len(c.ok) = UpTo(c.got, JsonRoom) /\ (c.truncated <=> c.got > JsonRoom)

Whole(c, a) == c.got = a.of \/ a.framing = "close"

\* Where a call is, and what it can have come to.
Goes(c) ==
    /\ c.attempt <= MaxAttempts(c.op)
    /\ c.pc = "ask" => c.attempt < MaxAttempts(c.op)
    /\ c.pc \notin {"ask", "done"} => c.attempt >= 1
    /\ c.pc \in {"open", "send", "wait"} => c.heard = None
    /\ c.pc = "body" => c.heard # None /\ c.sink_err = "ok"
    /\ c.r # "backend_error" /\ c.sink_err # "backend_error"
    /\ c.r = "ok" => c.pc \in {"end", "done"} /\ c.heard # None /\ c.sink_err = "ok"
                       /\ Whole(c, c.heard)
    /\ c.pc = "done" => c.result = Outcome(c) \/ (c.result = "invalid_request" /\ c.heard = None)

Heard(c) == IF c.heard = None THEN Unread(c) ELSE Read(c, c.heard)

\* The answer on the line is for the request that waits for it.
Listening ==
    /\ line # None => Busy("wait") \/ Busy("body")
    /\ line # None => Ours(call, line)
    /\ Busy("body") => line = call.heard

CallInv ==
    /\ TypeOK /\ Numbered /\ Listening
    /\ call # None => Goes(call) /\ Heard(call)

-----------------------------------------------------------------------------
(***************************************************************************)
(* What the operators give.                                                *)
(***************************************************************************)

\* A code that is found is one of the results a call can have, and so is what a status says.
LEMMA ParseErrorIsError ==
    ASSUME NEW buf, NEW status
    PROVE  ParseError(buf, status) \in Results
  BY DEF ParseError, FromStatus, Codes, Results, Errors

\* A call comes to one of its results.
LEMMA OutcomeIsResult ==
    ASSUME NEW c \in CallType
    PROVE  Outcome(c) \in Results
  <1>1. c.r \in Results /\ c.op \in Ops
    BY DEF CallType
  <1>2. "ok" \in Results /\ "parse_error" \in Results
    BY DEF Results, Errors
  <1> QED
    BY <1>1, <1>2, ParseErrorIsError
       DEF Outcome, LatestSays, DownloadSays, UploadSays, PairSays, RevokeSays, Ops

\* The outcome is read off the backend's result, the status and the two buffers.
LEMMA SameOutcome ==
    ASSUME NEW c, NEW d, d.r = c.r, d.op = c.op, d.status = c.status, d.ok = c.ok,
           d.err = c.err, d.truncated = c.truncated
    PROVE  Outcome(d) = Outcome(c)
  BY DEF Outcome, LatestSays, DownloadSays, UploadSays, PairSays, RevokeSays

\* There is at least one attempt, and never more than the ceiling.
LEMMA AttemptsAre ==
    ASSUME NEW op
    PROVE  MaxAttempts(op) \in 1 .. Ceiling /\ Ceiling \in Nat
  BY ApiBounds DEF MaxAttempts

\* What a call sees of the server is not undone: handled only grows.
LEMMA HeardStays ==
    ASSUME handled \subseteq handled', NEW c
    PROVE  /\ \A a : Ours(c, a) => Ours(c, a)'
           /\ Heard(c) => Heard(c)'
  BY DEF Ours, Heard, Read, Unread, Holds, PartOf, UpTo

\* A call goes on with what it had heard, as long as nothing of that is touched.
LEMMA HeardOn ==
    ASSUME NEW c, NEW d, Heard(c), d.n = c.n, d.attempt = c.attempt, d.op = c.op,
           d.status = c.status, d.sha = c.sha, d.got = c.got, d.sink_err = c.sink_err,
           d.truncated = c.truncated, d.ok = c.ok, d.err = c.err, d.out = c.out,
           d.heard = c.heard
    PROVE  Heard(d)
  BY DEF Heard, Read, Unread, Ours

\* Before the first launch there is no call.
LEMMA InitCall == Init => CallInv
  <1> SUFFICES ASSUME Init PROVE CallInv
    OBVIOUS
  <1>1. TypeOK
    BY ApiBounds DEF Init, TypeOK
  <1>2. Numbered /\ Listening
    BY DEF Init, Numbered, Listening, Busy
  <1> QED
    BY <1>1, <1>2 DEF CallInv, Init

-----------------------------------------------------------------------------
(***************************************************************************)
(* The client's steps: the call goes on, and the wire is left alone.       *)
(***************************************************************************)

\* What a step of the client has to keep.
LEMMA ClientGoes ==
    ASSUME CallInv, call # None, UNCHANGED <<wire, device, handled, calls>>,
           NEW d \in CallType, call' = d, d.n = call.n, d.op = call.op,
           \/ d.attempt = call.attempt /\ (d.pc \in {"open", "send"} => call.pc \in {"open", "send"})
           \/ d.attempt = call.attempt + 1,
           Goes(d), Heard(d),
           line' = line \/ line' = None,
           line' # None => d.pc \in {"wait", "body"} /\ d.attempt = call.attempt,
           d.pc = "body" => line' = d.heard
    PROVE  CallInv'
  <1> USE DEF CallInv
  <1>1. d # None /\ call \in CallType
    BY NoneIsNothing DEF TypeOK
  <1>2. TypeOK'
    BY DEF TypeOK
  <1>3. Numbered'
    <2>1. \A m \in wire \cup handled : m.attempt \in Nat
      BY ApiBounds DEF TypeOK
    <2>2. call.attempt \in Nat /\ d.attempt \in Nat
      BY <1>1, ApiBounds DEF CallType
    <2>3. \A m \in wire \cup handled : m.call = calls => Sent(m)'
      BY <1>1, <2>1, <2>2 DEF Numbered, Sent
    <2>4. calls' = IF call' = None THEN 0 ELSE call'.n
      BY <1>1 DEF Numbered
    <2> QED
      BY <2>3, <2>4 DEF Numbered, SameRequest
  <1>4. Listening'
    <2>1. \A a : Ours(call, a) /\ d.attempt = call.attempt => Ours(d, a)
      BY DEF Ours
    <2>2. \A a : Ours(d, a) => Ours(d, a)'
      BY HeardStays
    <2>3. line' # None => Ours(d, line')
      BY <2>1 DEF Listening
    <2>4. line' # None => Ours(call, line)'
      BY <2>2, <2>3
    <2> QED
      BY <1>1, <2>4 DEF Listening, Busy
  <1>5. Goes(call)' /\ Heard(call)'
    <2>1. Heard(d)'
      BY HeardStays
    <2> QED
      BY <2>1
  <1> QED
    BY <1>2, <1>3, <1>4, <1>5

\* A request that is over for the backend: the four ways without an answer to read.
LEMMA GivesUp ==
    ASSUME CallInv, call # None, call.pc \in {"open", "send", "wait", "body"},
           UNCHANGED <<wire, device, handled, calls>>,
           NEW r \in Results, call' = Over(call, r), r \notin {"ok", "backend_error"},
           line' = None \/ (line' = line /\ call.pc \in {"open", "send"})
    PROVE  CallInv'
  <1>1. call \in CallType /\ Goes(call) /\ Heard(call)
    BY DEF CallInv, TypeOK
  <1>2. PICK d : d = [call EXCEPT !.pc = "end", !.r = r]
    OBVIOUS
  <1>3. /\ d \in CallType /\ call' = d /\ d.pc = "end" /\ d.r = r
        /\ d.n = call.n /\ d.op = call.op /\ d.attempt = call.attempt /\ d.heard = call.heard
        /\ d.status = call.status /\ d.sha = call.sha /\ d.got = call.got
        /\ d.sink_err = call.sink_err /\ d.truncated = call.truncated
        /\ d.ok = call.ok /\ d.err = call.err /\ d.out = call.out
    BY <1>1, <1>2 DEF CallType, PCs, Over
  <1>4. Goes(d)
    BY <1>1, <1>3 DEF Goes
  <1>5. Heard(d)
    BY <1>1, <1>3, HeardOn
  <1>6. line' = None
    BY DEF CallInv, Listening, Busy
  <1> QED
    BY <1>3, <1>4, <1>5, <1>6, ClientGoes

\* A call begins when none is on, or is refused at once.
LEMMA Begins ==
    ASSUME CallInv, NEW op \in Ops, NEW net \in Backends, Begin(op, net) \/ BadRequest(op, net)
    PROVE  CallInv'
  <1> USE DEF CallInv
  <1>1. PICK d : d = call'
    OBVIOUS
  <1>2. /\ call = None \/ call.pc = "done"
        /\ calls' = calls + 1 /\ calls < MaxCalls
        /\ UNCHANGED <<wire, line, device, handled>>
    BY DEF Begin, BadRequest, Running
  <1>3. calls' \in 1 .. MaxCalls /\ calls \in Nat /\ calls' = calls + 1 /\ calls < MaxCalls
    BY <1>2, ApiBounds DEF TypeOK, Begin, BadRequest
  <1>4. Fresh(op, net) \in CallType
    <2>1. 0 \in 0 .. Ceiling /\ 0 \in 0 .. MaxParts
      BY ApiBounds
    <2>2. <<>> \in Seq(Parts)
      OBVIOUS
    <2>3. calls + 1 \in 1 .. MaxCalls
      BY <1>3
    <2> QED
      BY <2>1, <2>2, <2>3 DEF Fresh, CallType, PCs, Results, Errors
  <1>5. /\ d \in CallType /\ d.n = calls + 1 /\ d.op = op /\ d.attempt = 0 /\ d.heard = None
        /\ d.r = "network_error" /\ Unread(d)
        /\ \/ d.pc = "ask"
           \/ d.pc = "done" /\ d.result = "invalid_request"
    <2>1. CASE Begin(op, net)
      <3>1. d = Fresh(op, net)
        BY <1>1, <2>1 DEF Begin
      <3> QED
        BY <1>4, <3>1 DEF Fresh, Unread
    <2>2. CASE BadRequest(op, net)
      <3>1. d = [Fresh(op, net) EXCEPT !.pc = "done", !.result = "invalid_request"]
        BY <1>1, <2>2 DEF BadRequest
      <3>2. d \in CallType
        BY <1>4, <3>1 DEF CallType, PCs, Results, Errors
      <3> QED
        BY <3>1, <3>2 DEF Fresh, Unread
    <2> QED
      BY <2>1, <2>2
  <1>6. Goes(d) /\ Heard(d)
    <2>1. 0 < MaxAttempts(op) /\ 0 <= MaxAttempts(op)
      BY AttemptsAre
    <2>2. Goes(d)
      BY <1>5, <2>1 DEF Goes, Unread
    <2>3. Heard(d)
      BY <1>5 DEF Heard
    <2> QED
      BY <2>2, <2>3
  <1>7. line = None
    BY <1>2 DEF Listening, Busy
  <1>8. d # None
    BY <1>5, NoneIsNothing
  <1>9. TypeOK'
    <2>1. calls' \in 0 .. MaxCalls
      BY <1>3
    <2> QED
      BY <1>1, <1>2, <1>5, <2>1 DEF TypeOK
  <1>10. Numbered'
    <2>1. \A m \in wire \cup handled : m.call <= calls /\ m.call \in Nat
      BY ApiBounds DEF Numbered, TypeOK
    <2>2. \A m \in wire \cup handled : m.call <= calls' /\ m.call # calls'
      BY <1>3, <2>1
    <2>3. calls' = IF call' = None THEN 0 ELSE call'.n
      BY <1>1, <1>3, <1>5, <1>8
    <2> QED
      BY <1>2, <2>2, <2>3 DEF Numbered, SameRequest
  <1>11. Listening'
    BY <1>1, <1>2, <1>5, <1>7 DEF Listening, Busy
  <1>12. Heard(d)'
    BY <1>2, <1>6, HeardStays
  <1> QED
    BY <1>1, <1>6, <1>9, <1>10, <1>11, <1>12

\* The next attempt: nothing of the one before is left to be read.
LEMMA Asks == ASSUME CallInv, Ask PROVE CallInv'
  <1>1. /\ call # None /\ call.pc = "ask" /\ call \in CallType /\ Goes(call) /\ line = None
        /\ UNCHANGED <<wire, line, device, handled, calls>>
    BY DEF CallInv, TypeOK, Ask, Busy, Listening
  <1>2. PICK n : n = call.attempt + 1
    OBVIOUS
  <1>3. n \in 1 .. MaxAttempts(call.op) /\ n \in 0 .. Ceiling /\ n >= 1
    <2>1. call.attempt \in Nat /\ call.attempt < MaxAttempts(call.op)
      BY <1>1, ApiBounds DEF Goes, CallType
    <2> QED
      BY <1>2, <2>1, AttemptsAre
  <1>4. PICK d : d = call'
    OBVIOUS
  <1>5. d = [Reset(call) EXCEPT !.attempt = n, !.pc = "open"]
    BY <1>2, <1>4 DEF Ask, AttemptAfter
  <1>6. /\ Reset(call) \in CallType /\ Reset(call).n = call.n /\ Reset(call).op = call.op
        /\ Reset(call).r = call.r /\ Reset(call).heard = None
        /\ Reset(call).attempt = call.attempt
        /\ Unread(Reset(call))
    <2>1. 0 \in 0 .. MaxParts /\ <<>> \in Seq(Parts)
      BY ApiBounds
    <2>2. Reset(call) \in CallType
      BY <1>1, <2>1 DEF Reset, CallType
    <2>3. /\ Reset(call).n = call.n /\ Reset(call).op = call.op /\ Reset(call).r = call.r
          /\ Reset(call).attempt = call.attempt /\ Reset(call).heard = None
      BY <1>1 DEF Reset, CallType
    <2>4. /\ Reset(call).status = 0 /\ Reset(call).sha = 0 /\ Reset(call).got = 0
          /\ Reset(call).sink_err = "ok" /\ ~Reset(call).truncated
      BY <1>1 DEF Reset, CallType
    <2>5. Reset(call).ok = <<>> /\ Reset(call).err = <<>> /\ Reset(call).out = <<>>
      <3>1. Reset(call).ok = <<>> /\ Reset(call).err = <<>> /\ Reset(call).out = call.out
        BY <1>1 DEF Reset, CallType
      <3>2. CASE call.op = "download"
        <4>1. call.attempt \in Nat /\ call.attempt < 1
          BY <1>1, <3>2, ApiBounds DEF Goes, MaxAttempts, CallType
        <4>2. call.heard = None
          <5> SUFFICES ASSUME call.heard # None PROVE FALSE
            OBVIOUS
          <5>1. call.heard.attempt \in 1 .. Ceiling /\ call.heard.attempt = call.attempt
            BY <1>1 DEF CallInv, Heard, Read, Ours, Answers
          <5> QED
            BY <4>1, <5>1, ApiBounds
        <4> QED
          BY <1>1, <3>1, <4>2 DEF CallInv, Heard, Unread
      <3>3. CASE call.op # "download"
        BY <1>1, <3>1, <3>3 DEF CallInv, Heard, Unread, Read
      <3> QED
        BY <3>1, <3>2, <3>3
    <2> QED
      BY <2>2, <2>3, <2>4, <2>5 DEF Unread
  <1>7. /\ d \in CallType /\ d.pc = "open" /\ d.n = call.n /\ d.op = call.op /\ d.attempt = n
        /\ d.r = call.r /\ d.heard = None /\ Unread(d)
    BY <1>3, <1>5, <1>6 DEF CallType, PCs, Unread
  <1>8. Goes(d)
    <2>1. n <= MaxAttempts(d.op)
      BY <1>3, <1>7, AttemptsAre
    <2> QED
      BY <1>1, <1>3, <1>7, <2>1 DEF Goes, Unread
  <1>9. Heard(d)
    BY <1>7 DEF Heard
  <1> QED
    BY <1>1, <1>2, <1>4, <1>7, <1>8, <1>9, ClientGoes

\* What the two backends call a request that did not come back.
LEMMA FailuresAre ==
    ASSUME NEW net, NEW r \in Refusals(net) \cup NoConnection(net) \cup Broken \cup {"io_error"}
    PROVE  r \in Results /\ r \notin {"ok", "backend_error"}
  BY DEF Refusals, NoConnection, Broken, PosixRefusals, CurlRefusals, PosixNoConnection,
         CurlNoConnection, Results, Errors

\* The connection, and the request that leaves on it.
LEMMA Opens == ASSUME CallInv, Refuse \/ Connect PROVE CallInv'
  <1>1. /\ call # None /\ call.pc = "open" /\ call \in CallType /\ Goes(call) /\ Heard(call)
        /\ line = None
        /\ UNCHANGED <<wire, line, device, handled, calls>>
    BY DEF CallInv, TypeOK, Refuse, Connect, Busy, Listening
  <1>2. CASE call' = [call EXCEPT !.pc = "send"]
    <2>1. PICK d : d = [call EXCEPT !.pc = "send"]
      OBVIOUS
    <2>2. /\ d \in CallType /\ call' = d /\ d.pc = "send" /\ d.r = call.r
          /\ d.n = call.n /\ d.op = call.op /\ d.attempt = call.attempt /\ d.heard = call.heard
          /\ d.status = call.status /\ d.sha = call.sha /\ d.got = call.got
          /\ d.sink_err = call.sink_err /\ d.truncated = call.truncated
          /\ d.ok = call.ok /\ d.err = call.err /\ d.out = call.out
      BY <1>1, <1>2, <2>1 DEF CallType, PCs
    <2>3. Goes(d) /\ Heard(d)
      BY <1>1, <2>2, HeardOn DEF Goes
    <2> QED
      BY <1>1, <2>2, <2>3, ClientGoes
  <1>3. CASE \E r \in Refusals(call.net) \cup NoConnection(call.net) : call' = Over(call, r)
    BY <1>1, <1>3, GivesUp, FailuresAre
  <1> QED
    BY <1>2, <1>3 DEF Refuse, Connect

\* The request leaves whole, or it breaks off and the server never has it whole.
LEMMA Sends == ASSUME CallInv, Send \/ BodyReadFails PROVE CallInv'
  <1> USE DEF CallInv
  <1>1. /\ call # None /\ call.pc = "send" /\ call \in CallType /\ Goes(call) /\ Heard(call)
        /\ line = None /\ line' = line /\ UNCHANGED <<device, handled, calls>>
    BY DEF TypeOK, Send, BodyReadFails, Busy, Listening
  <1>2. CASE wire' = wire /\ \E r \in Broken \cup {"io_error"} : call' = Over(call, r)
    BY <1>1, <1>2, GivesUp, FailuresAre
  <1>3. CASE call' = [call EXCEPT !.pc = "wait"] /\ wire' = wire \cup {Request}
    <2>1. PICK d : d = [call EXCEPT !.pc = "wait"]
      OBVIOUS
    <2>2. /\ d \in CallType /\ call' = d /\ d.pc = "wait" /\ d.r = call.r
          /\ d.n = call.n /\ d.op = call.op /\ d.attempt = call.attempt /\ d.heard = call.heard
          /\ d.status = call.status /\ d.sha = call.sha /\ d.got = call.got
          /\ d.sink_err = call.sink_err /\ d.truncated = call.truncated
          /\ d.ok = call.ok /\ d.err = call.err /\ d.out = call.out
      BY <1>1, <1>3, <2>1 DEF CallType, PCs
    <2>3. Goes(d) /\ Heard(d) /\ d # None
      BY <1>1, <2>2, HeardOn, NoneIsNothing DEF Goes
    <2>4. PICK q : q = Request
      OBVIOUS
    <2>5. q.call = call.n /\ q.attempt = call.attempt /\ q.op = call.op
      BY <2>4 DEF Request
    <2>6. q \in [call: 1 .. MaxCalls, attempt: 1 .. Ceiling, op: Ops]
      <3>1. call.attempt \in 1 .. Ceiling
        <4>1. call.attempt \in 0 .. Ceiling /\ call.attempt >= 1
          BY <1>1 DEF Goes, CallType
        <4> QED
          BY <4>1, ApiBounds
      <3> QED
        BY <1>1, <2>4, <3>1 DEF CallType, Request
    <2>7. TypeOK'
      BY <1>1, <1>3, <2>2, <2>4, <2>6 DEF TypeOK
    <2>8. wire' = wire \cup {q} /\ call.n = calls /\ calls \in Nat /\ call.attempt \in Nat
      BY <1>1, <1>3, <2>4, ApiBounds DEF Numbered, CallType, TypeOK
    <2>9. \A m \in wire \cup handled :
             /\ m.call <= calls /\ m.attempt <= MaxAttempts(m.op) /\ m.attempt \in Nat
             /\ m.call = calls => m.op = q.op /\ m.attempt < q.attempt
      BY <1>1, <2>5, ApiBounds DEF Numbered, Sent, TypeOK
    <2>10. Numbered'
      <3>1. \A m \in wire \cup handled : m.call = calls => Sent(m)'
        BY <2>2, <2>5, <2>8, <2>9 DEF Sent
      <3>2. Sent(q)' /\ q.call = calls /\ q.attempt <= MaxAttempts(q.op)
        BY <1>1, <2>2, <2>5, <2>8 DEF Sent, Goes
      <3>3. \A m \in wire \cup handled : ~SameRequest(m, q) /\ (m.call = q.call => m.op = q.op)
        BY <2>5, <2>8, <2>9 DEF SameRequest
      <3>4. \A m \in wire' \cup handled' : m = q \/ m \in wire \cup handled
        BY <1>1, <2>8
      <3>5. (\A m \in wire \cup handled : /\ m.call <= calls
                                          /\ m.call = calls => Sent(m)
                                          /\ m.attempt <= MaxAttempts(m.op))'
        BY <1>1, <2>8, <2>9, <3>1, <3>2, <3>4
      <3>6. (\A m, k \in wire \cup handled : m.call = k.call => m.op = k.op)'
        BY <3>3, <3>4 DEF Numbered
      <3>7. (\A m \in wire, h \in handled : ~SameRequest(m, h))'
        BY <1>1, <2>8, <3>3 DEF Numbered, SameRequest
      <3>8. (\A h, k \in handled : SameRequest(h, k) => h = k)'
        BY <1>1 DEF Numbered, SameRequest
      <3>9. calls' = IF call' = None THEN 0 ELSE call'.n
        BY <1>1, <2>2, <2>3, <2>8
      <3> QED
        BY <3>5, <3>6, <3>7, <3>8, <3>9 DEF Numbered
    <2>11. Listening'
      BY <1>1, <2>2 DEF Listening, Busy
    <2>12. Heard(d)'
      BY <1>1, <2>3, HeardStays
    <2> QED
      BY <2>2, <2>3, <2>7, <2>10, <2>11, <2>12
  <1> QED
    BY <1>1, <1>2, <1>3 DEF Send, BodyReadFails

\* The status line and the headers of the answer on the line.
LEMMA Hears == ASSUME CallInv, Headers PROVE CallInv'
  <1> USE DEF CallInv
  <1>1. /\ call # None /\ call.pc = "wait" /\ call \in CallType /\ Goes(call) /\ Heard(call)
        /\ line \in Answers /\ line # None /\ Ours(call, line)
        /\ UNCHANGED <<wire, line, device, handled, calls>>
    BY DEF TypeOK, Headers, Busy, Listening
  <1>2. call.heard = None /\ Unread(call)
    BY <1>1 DEF Goes, Heard
  <1>3. PICK a : a = line
    OBVIOUS
  <1>4. PICK d : d = call'
    OBVIOUS
  <1>5. d = [call EXCEPT !.status = a.status, !.sha = IF a.sha THEN call.attempt ELSE call.sha,
                         !.pc = "body", !.got = 0, !.heard = a]
    BY <1>3, <1>4 DEF Headers, HeadersOf
  <1>6. /\ a.status \in Statuses /\ a.of \in 0 .. MaxParts /\ 0 \in 0 .. MaxParts /\ 0 <= a.of
        /\ call.attempt \in 1 .. Ceiling
    <2>1. call.attempt \in 0 .. Ceiling /\ call.attempt >= 1
      BY <1>1 DEF Goes, CallType
    <2>2. a.status \in Statuses /\ a.of \in 0 .. MaxParts
      BY <1>1, <1>3 DEF Answers
    <2> QED
      BY <2>1, <2>2, ApiBounds
  <1>7. /\ d \in CallType /\ d.pc = "body" /\ d.r = call.r
        /\ d.n = call.n /\ d.op = call.op /\ d.attempt = call.attempt /\ d.heard = a
        /\ d.status = a.status /\ d.sha \in {0, call.attempt} /\ d.got = 0
        /\ d.sink_err = "ok" /\ ~d.truncated
        /\ d.ok = <<>> /\ d.err = <<>> /\ d.out = <<>>
    <2>1. d \in CallType
      BY <1>1, <1>2, <1>3, <1>5, <1>6 DEF CallType, PCs, Unread
    <2> QED
      BY <1>1, <1>2, <1>5, <2>1 DEF CallType, Unread
  <1>8. Goes(d)
    BY <1>1, <1>3, <1>7 DEF Goes
  <1>9. Heard(d)
    <2>1. a \in Answers /\ Ours(d, a) /\ a # None
      BY <1>1, <1>3, <1>7 DEF Ours
    <2>2. UpTo(0, ErrorRoom) = 0 /\ UpTo(0, JsonRoom) = 0 /\ ~(0 > JsonRoom)
      BY ApiBounds DEF UpTo
    <2> QED
      BY <1>6, <1>7, <2>1, <2>2 DEF Heard, Read, Holds
  <1> QED
    BY <1>1, <1>3, <1>4, <1>7, <1>8, <1>9, ClientGoes

\* One part more in a buffer: at its place, or dropped when there is no room.
LEMMA PartAppended ==
    ASSUME NEW a, NEW got \in Nat, NEW room \in Nat, NEW buf \in Seq(Parts),
           PartOf(a, got + 1) \in Parts, Holds(buf, a), Len(buf) = UpTo(got, room)
    PROVE  /\ AppendPart(buf, PartOf(a, got + 1), room) \in Seq(Parts)
           /\ Holds(AppendPart(buf, PartOf(a, got + 1), room), a)
           /\ Len(AppendPart(buf, PartOf(a, got + 1), room)) = UpTo(got + 1, room)
           /\ Len(buf) >= room <=> got + 1 > room
  <1>1. PICK p : p = PartOf(a, got + 1)
    OBVIOUS
  <1>2. CASE got < room
    <2>1. Len(buf) = got /\ AppendPart(buf, p, room) = Append(buf, p)
      BY <1>2 DEF UpTo, AppendPart
    <2>2. Append(buf, p) \in Seq(Parts) /\ Len(Append(buf, p)) = got + 1
      BY <1>1, <2>1
    <2>3. Holds(Append(buf, p), a)
      <3>1. \A i \in DOMAIN Append(buf, p) : i \in DOMAIN buf \/ i = got + 1
        BY <1>1, <2>1, <2>2
      <3>2. Append(buf, p)[got + 1] = PartOf(a, got + 1)
        BY <1>1, <2>1
      <3>3. \A i \in DOMAIN buf : Append(buf, p)[i] = buf[i]
        BY <1>1
      <3> QED
        BY <3>1, <3>2, <3>3 DEF Holds
    <2>4. UpTo(got + 1, room) = got + 1 /\ ~(Len(buf) >= room) /\ ~(got + 1 > room)
      BY <1>2, <2>1 DEF UpTo
    <2> QED
      BY <1>1, <2>1, <2>2, <2>3, <2>4
  <1>3. CASE got >= room
    <2>1. Len(buf) = room
      BY <1>3 DEF UpTo
    <2>2. AppendPart(buf, p, room) = buf
      BY <2>1 DEF AppendPart
    <2>3. UpTo(got + 1, room) = room /\ got + 1 > room
      BY <1>3 DEF UpTo
    <2> QED
      BY <1>1, <2>1, <2>2, <2>3
  <1> QED
    BY <1>2, <1>3

Refused(c)       == [c EXCEPT !.sink_err = "io_error"]
ToSink(c, part)  == [c EXCEPT !.out = Append(c.out, part)]
ToBody(c, part)  == [c EXCEPT !.ok = AppendPart(c.ok, part, JsonRoom),
                              !.truncated = c.truncated \/ Len(c.ok) >= JsonRoom]
ToError(c, part) == [c EXCEPT !.err = AppendPart(c.err, part, ErrorRoom)]

\* A part of the body that is on the line: which buffer it goes to, or why it cannot.
LEMMA PartWritten ==
    ASSUME NEW c \in CallType, c.status # 0, NEW part, NEW full \in BOOLEAN
    PROVE  \/ /\ c.status = 200 /\ c.op = "download"
              /\ BodyWrite(c, part, full) \in {Refused(c), ToSink(c, part)}
           \/ /\ c.status = 200 /\ c.op # "download"
              /\ BodyWrite(c, part, full) = ToBody(c, part)
           \/ c.status # 200 /\ BodyWrite(c, part, full) = ToError(c, part)
  BY DEF BodyWrite, CallType, Refused, ToSink, ToBody, ToError

\* A part of the body is where it belongs, or the request is over.
LEMMA Parted == ASSUME CallInv, BodyPart PROVE CallInv'
  <1> USE DEF CallInv
  <1>1. /\ call # None /\ call.pc = "body" /\ call \in CallType /\ Goes(call) /\ Heard(call)
        /\ UNCHANGED <<wire, device, handled, calls>>
    BY DEF TypeOK, BodyPart, Busy
  <1>2. PICK a : a = line
    OBVIOUS
  <1>3. /\ a = call.heard /\ a # None /\ Read(call, a) /\ a \in Answers /\ call.got < a.of
        /\ call.sink_err = "ok" /\ call.r # "ok" /\ call.attempt >= 1
    BY <1>1, <1>2 DEF Goes, Heard, Listening, Read, BodyPart, Busy
  <1>4. PICK n : n = call.got + 1
    OBVIOUS
  <1>5. /\ call.got \in Nat /\ n \in Nat /\ n \in 0 .. MaxParts /\ n <= a.of
        /\ n \in 1 .. MaxParts /\ a.of \in 1 .. MaxParts
        /\ JsonRoom \in Nat /\ ErrorRoom \in Nat
    <2>1. call.got \in 0 .. MaxParts /\ a.of \in 0 .. MaxParts
      BY <1>1, <1>3 DEF CallType, Answers
    <2> QED
      BY <1>3, <1>4, <2>1, ApiBounds
  <1>6. PICK part : part = PartOf(a, n)
    OBVIOUS
  <1>7. part \in Parts
    BY <1>3, <1>5, <1>6 DEF PartOf, Parts, Answers
  <1>8. PICK c : c = [call EXCEPT !.got = n]
    OBVIOUS
  <1>9. /\ c \in CallType /\ c.got = n /\ c.n = call.n /\ c.op = call.op
        /\ c.attempt = call.attempt /\ c.pc = "body" /\ c.r = call.r /\ c.status = call.status
        /\ c.sha = call.sha /\ c.ok = call.ok /\ c.err = call.err /\ c.out = call.out
        /\ c.sink_err = "ok" /\ c.truncated = call.truncated /\ c.heard = a
    BY <1>1, <1>3, <1>5, <1>8 DEF CallType
  <1>10. c.status = a.status /\ a.status \in Statuses /\ c.status # 0
    BY <1>3, <1>9 DEF Read, Answers, Statuses
  <1>11. PICK full \in BOOLEAN :
            LET d == BodyWrite(c, part, full)
            IN IF d.sink_err = "ok" THEN call' = d /\ line' = line
               ELSE call' = Over(d, d.sink_err) /\ line' = None
    <2>1. /\ part = [call |-> line.call, attempt |-> line.attempt, i |-> call.got + 1,
                     of |-> line.of, says |-> line.says, status |-> line.status]
          /\ c = [call EXCEPT !.got = @ + 1]
      BY <1>1, <1>2, <1>4, <1>6, <1>8 DEF PartOf, CallType
    <2> QED
      BY <2>1 DEF BodyPart
  <1>12. \A d : Ours(call, a) /\ d.n = call.n /\ d.attempt = call.attempt /\ d.op = call.op => Ours(d, a)
    BY DEF Ours
  <1>13. CASE /\ c.status = 200 /\ c.op = "download"
              /\ BodyWrite(c, part, full) = Refused(c)
    <2>1. PICK d : d = call'
      OBVIOUS
    <2>2. /\ d = [c EXCEPT !.sink_err = "io_error", !.pc = "end", !.r = "io_error"]
          /\ line' = None
      <3>1. [c EXCEPT !.sink_err = "io_error"].sink_err = "io_error"
        BY <1>9 DEF CallType
      <3> QED
        BY <1>11, <1>13, <2>1, <3>1 DEF Over, Refused
    <2>3. /\ d \in CallType /\ d.got = n /\ d.n = call.n /\ d.op = call.op
          /\ d.attempt = call.attempt /\ d.pc = "end" /\ d.r = "io_error"
          /\ d.status = call.status /\ d.sha = call.sha /\ d.ok = call.ok /\ d.err = call.err
          /\ d.out = call.out /\ d.sink_err = "io_error" /\ d.heard = a
      BY <1>9, <2>2 DEF CallType, PCs, Results, Errors
    <2>4. Goes(d)
      BY <1>1, <1>3, <2>3 DEF Goes
    <2>5. Heard(d)
      BY <1>3, <1>5, <1>9, <1>12, <1>13, <2>3 DEF Heard, Read
    <2> QED
      BY <1>1, <2>1, <2>2, <2>3, <2>4, <2>5, ClientGoes
  <1>14. CASE /\ c.status = 200 /\ c.op = "download"
              /\ BodyWrite(c, part, full) = ToSink(c, part)
    <2>1. PICK d : d = call'
      OBVIOUS
    <2>2. PICK buf : buf = Append(c.out, part)
      OBVIOUS
    <2>3. c.out \in Seq(Parts) /\ Len(c.out) = call.got /\ Holds(c.out, a)
      BY <1>3, <1>9, <1>14 DEF Read, CallType
    <2>4. buf \in Seq(Parts) /\ Len(buf) = n /\ Holds(buf, a) /\ buf # <<>>
      <3>1. buf \in Seq(Parts) /\ Len(buf) = n /\ buf # <<>>
        BY <1>4, <1>5, <1>7, <2>2, <2>3
      <3>2. \A i \in DOMAIN buf : i \in DOMAIN c.out \/ i = n
        BY <1>4, <1>5, <2>3, <3>1
      <3>3. buf[n] = PartOf(a, n) /\ \A i \in DOMAIN c.out : buf[i] = c.out[i]
        BY <1>4, <1>6, <1>7, <2>2, <2>3
      <3> QED
        BY <2>3, <3>1, <3>2, <3>3 DEF Holds
    <2>5. d = [c EXCEPT !.out = buf] /\ line' = line
      <3>1. [c EXCEPT !.out = buf].sink_err = "ok"
        BY <1>9 DEF CallType
      <3> QED
        BY <1>11, <1>14, <2>1, <2>2, <3>1 DEF ToSink
    <2>6. /\ d \in CallType /\ d.got = n /\ d.n = call.n /\ d.op = call.op
          /\ d.attempt = call.attempt /\ d.pc = "body" /\ d.r = call.r
          /\ d.status = call.status /\ d.sha = call.sha /\ d.ok = call.ok /\ d.err = call.err
          /\ d.out = buf /\ d.sink_err = "ok" /\ d.heard = a
      BY <1>9, <2>4, <2>5 DEF CallType
    <2>7. Goes(d)
      BY <1>1, <1>3, <2>6 DEF Goes
    <2>8. Heard(d)
      BY <1>3, <1>5, <1>9, <1>12, <1>14, <2>4, <2>6 DEF Heard, Read
    <2> QED
      BY <1>1, <1>2, <1>3, <2>1, <2>5, <2>6, <2>7, <2>8, ClientGoes
  <1>15. CASE /\ c.status = 200 /\ c.op # "download"
              /\ BodyWrite(c, part, full) = ToBody(c, part)
    <2>1. PICK d : d = call'
      OBVIOUS
    <2>2. PICK buf : buf = AppendPart(c.ok, part, JsonRoom)
      OBVIOUS
    <2>3. /\ c.ok \in Seq(Parts) /\ Len(c.ok) = UpTo(call.got, JsonRoom) /\ Holds(c.ok, a)
          /\ c.truncated \in BOOLEAN /\ (c.truncated <=> call.got > JsonRoom)
      BY <1>3, <1>9, <1>15 DEF Read, CallType
    <2>4. /\ buf \in Seq(Parts) /\ Len(buf) = UpTo(n, JsonRoom) /\ Holds(buf, a)
          /\ Len(c.ok) >= JsonRoom <=> n > JsonRoom
      BY <1>4, <1>5, <1>6, <1>7, <2>2, <2>3, PartAppended
    <2>5. PICK cut \in BOOLEAN :
             (cut <=> n > JsonRoom) /\ cut = (c.truncated \/ Len(c.ok) >= JsonRoom)
      <3>1. (c.truncated \/ Len(c.ok) >= JsonRoom) <=> n > JsonRoom
        BY <1>4, <1>5, <2>3, <2>4
      <3>2. (c.truncated \/ Len(c.ok) >= JsonRoom) \in BOOLEAN
        OBVIOUS
      <3> QED
        BY <3>1, <3>2, Zenon
    <2>6. d = [c EXCEPT !.ok = buf, !.truncated = cut] /\ line' = line
      <3>1. [c EXCEPT !.ok = buf, !.truncated = cut].sink_err = "ok"
        BY <1>9 DEF CallType
      <3> QED
        BY <1>11, <1>15, <2>1, <2>2, <2>5, <3>1 DEF ToBody
    <2>7. /\ d \in CallType /\ d.got = n /\ d.n = call.n /\ d.op = call.op
          /\ d.attempt = call.attempt /\ d.pc = "body" /\ d.r = call.r
          /\ d.status = call.status /\ d.sha = call.sha /\ d.ok = buf /\ d.err = call.err
          /\ d.out = call.out /\ d.sink_err = "ok" /\ d.heard = a
          /\ d.truncated <=> n > JsonRoom
      BY <1>9, <2>4, <2>5, <2>6 DEF CallType
    <2>8. Goes(d)
      BY <1>1, <1>3, <2>7 DEF Goes
    <2>9. Heard(d)
      BY <1>3, <1>5, <1>9, <1>12, <1>15, <2>4, <2>5, <2>7 DEF Heard, Read
    <2> QED
      BY <1>1, <1>2, <1>3, <2>1, <2>6, <2>7, <2>8, <2>9, ClientGoes
  <1>16. CASE c.status # 200 /\ BodyWrite(c, part, full) = ToError(c, part)
    <2>1. PICK d : d = call'
      OBVIOUS
    <2>2. PICK buf : buf = AppendPart(c.err, part, ErrorRoom)
      OBVIOUS
    <2>3. c.err \in Seq(Parts) /\ Len(c.err) = UpTo(call.got, ErrorRoom) /\ Holds(c.err, a)
      BY <1>3, <1>9, <1>16 DEF Read, CallType
    <2>4. buf \in Seq(Parts) /\ Len(buf) = UpTo(n, ErrorRoom) /\ Holds(buf, a)
      BY <1>4, <1>5, <1>6, <1>7, <2>2, <2>3, PartAppended
    <2>5. d = [c EXCEPT !.err = buf] /\ line' = line
      <3>1. [c EXCEPT !.err = buf].sink_err = "ok"
        BY <1>9 DEF CallType
      <3> QED
        BY <1>11, <1>16, <2>1, <2>2, <3>1 DEF ToError
    <2>6. /\ d \in CallType /\ d.got = n /\ d.n = call.n /\ d.op = call.op
          /\ d.attempt = call.attempt /\ d.pc = "body" /\ d.r = call.r
          /\ d.status = call.status /\ d.sha = call.sha /\ d.ok = call.ok /\ d.err = buf
          /\ d.out = call.out /\ d.sink_err = "ok" /\ d.heard = a
      BY <1>9, <2>4, <2>5 DEF CallType
    <2>7. Goes(d)
      BY <1>1, <1>3, <2>6 DEF Goes
    <2>8. Heard(d)
      BY <1>3, <1>5, <1>9, <1>12, <1>16, <2>4, <2>6 DEF Heard, Read
    <2> QED
      BY <1>1, <1>2, <1>3, <2>1, <2>5, <2>6, <2>7, <2>8, ClientGoes
  <1> QED
    BY <1>9, <1>10, <1>13, <1>14, <1>15, <1>16, PartWritten

\* The body is over, or the connection is.
LEMMA Finishes == ASSUME CallInv, EndOfBody \/ Lost PROVE CallInv'
  <1>1. /\ call # None /\ call.pc \in {"wait", "body"} /\ call \in CallType
        /\ Goes(call) /\ Heard(call) /\ line' = None
        /\ UNCHANGED <<wire, device, handled, calls>>
    BY DEF CallInv, TypeOK, EndOfBody, Lost, Busy
  <1>2. CASE Lost
    <2>1. PICK r \in Broken : call' = Over(call, r)
      BY <1>2 DEF Lost
    <2>2. r \in Results /\ r \notin {"ok", "backend_error"}
      BY FailuresAre
    <2> QED
      BY <1>1, <2>1, <2>2, GivesUp
  <1>3. CASE EndOfBody
    <2>1. /\ call.pc = "body" /\ call.heard = line /\ call.heard # None /\ call.sink_err = "ok"
          /\ Whole(call, call.heard)
      BY <1>1, <1>3 DEF EndOfBody, CallInv, Listening, Goes, Busy, Whole
    <2>2. PICK d : d = [call EXCEPT !.pc = "end", !.r = "ok"]
      OBVIOUS
    <2>3. /\ d \in CallType /\ call' = d /\ d.pc = "end" /\ d.r = "ok"
          /\ d.n = call.n /\ d.op = call.op /\ d.attempt = call.attempt /\ d.heard = call.heard
          /\ d.status = call.status /\ d.sha = call.sha /\ d.got = call.got
          /\ d.sink_err = call.sink_err /\ d.truncated = call.truncated
          /\ d.ok = call.ok /\ d.err = call.err /\ d.out = call.out
      BY <1>1, <1>3, <2>2 DEF EndOfBody, Over, CallType, PCs, Results
    <2>4. Goes(d)
      BY <1>1, <2>1, <2>3 DEF Goes, Whole
    <2>5. Heard(d)
      BY <1>1, <2>3, HeardOn
    <2> QED
      BY <1>1, <2>3, <2>4, <2>5, ClientGoes
  <1> QED
    BY <1>2, <1>3

\* The request came back: the call tries again, or tells what it came to.
LEMMA Returns == ASSUME CallInv, Return PROVE CallInv'
  <1>1. /\ call # None /\ call.pc = "end" /\ call \in CallType /\ Goes(call) /\ Heard(call)
        /\ line = None
        /\ UNCHANGED <<wire, line, device, handled, calls>>
    BY DEF CallInv, TypeOK, Return, Busy, Listening
  <1>2. CASE Again(call)
    <2>1. PICK d : d = [call EXCEPT !.pc = "ask"]
      OBVIOUS
    <2>2. /\ d \in CallType /\ call' = d /\ d.pc = "ask" /\ d.r = call.r
          /\ d.n = call.n /\ d.op = call.op /\ d.attempt = call.attempt /\ d.heard = call.heard
          /\ d.status = call.status /\ d.sha = call.sha /\ d.got = call.got
          /\ d.sink_err = call.sink_err /\ d.truncated = call.truncated
          /\ d.ok = call.ok /\ d.err = call.err /\ d.out = call.out
      BY <1>1, <1>2, <2>1 DEF Return, CallType, PCs
    <2>3. Goes(d)
      BY <1>1, <1>2, <2>2 DEF Goes, Again, Retryable
    <2>4. Heard(d)
      BY <1>1, <2>2, HeardOn
    <2> QED
      BY <1>1, <2>2, <2>3, <2>4, ClientGoes
  <1>3. CASE ~Again(call)
    <2>1. PICK r : r = Outcome(call)
      OBVIOUS
    <2>2. r \in Results
      BY <1>1, <2>1, OutcomeIsResult
    <2>3. PICK d : d = [call EXCEPT !.pc = "done", !.result = r]
      OBVIOUS
    <2>4. /\ d \in CallType /\ call' = d /\ d.pc = "done" /\ d.r = call.r /\ d.result = r
          /\ d.n = call.n /\ d.op = call.op /\ d.attempt = call.attempt /\ d.heard = call.heard
          /\ d.status = call.status /\ d.sha = call.sha /\ d.got = call.got
          /\ d.sink_err = call.sink_err /\ d.truncated = call.truncated
          /\ d.ok = call.ok /\ d.err = call.err /\ d.out = call.out
      BY <1>1, <1>3, <2>1, <2>2, <2>3 DEF Return, CallType, PCs
    <2>5. Outcome(d) = Outcome(call)
      BY <2>4, SameOutcome
    <2>6. Goes(d)
      BY <1>1, <2>1, <2>4, <2>5 DEF Goes, Whole
    <2>7. Heard(d)
      BY <1>1, <2>4, HeardOn
    <2> QED
      BY <1>1, <2>4, <2>6, <2>7, ClientGoes
  <1> QED
    BY <1>2, <1>3

-----------------------------------------------------------------------------
(***************************************************************************)
(* The steps of the others: the wire, the server and what is in between.   *)
(***************************************************************************)

\* Requests leave the wire, and an answer comes down it or none.
LEMMA WireStep ==
    ASSUME CallInv, wire' \subseteq wire, line' = line \/ line' \in Answers,
           UNCHANGED <<call, device, handled, calls>>,
           line' # line => Busy("wait") /\ Ours(call, line')
    PROVE  CallInv'
  <1> USE DEF CallInv
  <1>1. TypeOK'
    BY DEF TypeOK
  <1>2. Numbered'
    BY DEF Numbered, Sent, SameRequest
  <1>3. \A c, a : Ours(c, a) => Ours(c, a)'
    BY HeardStays
  <1>4. Listening'
    <2>1. line' # None => Ours(call, line')
      BY DEF Listening
    <2>2. line' # None => Ours(call, line)'
      BY <1>3, <2>1
    <2> QED
      BY <2>2 DEF Listening, Busy
  <1>5. \A c : Heard(c) => Heard(c)'
    BY HeardStays
  <1>6. call # None => Goes(call) /\ Heard(call)'
    BY <1>5
  <1> QED
    BY <1>1, <1>2, <1>4, <1>6

\* A request that is lost, and one that something in between answers.
LEMMA Between ==
    ASSUME CallInv, NEW m \in wire, PortalAnswers(m) \/ Vanish(m)
    PROVE  CallInv'
  <1>1. wire' \subseteq wire /\ UNCHANGED <<call, device, handled, calls>>
    BY DEF PortalAnswers, Vanish
  <1>2. CASE Vanish(m)
    <2>1. line' = line
      BY <1>2 DEF Vanish
    <2> QED
      BY <1>1, <2>1, WireStep
  <1>3. CASE PortalAnswers(m)
    <2>1. PICK status \in {200, 404, 502}, of \in 0 .. MaxParts, framing \in {"length", "close"} :
             Deliver(m, Answer(m, status, None, of, FALSE, framing))
      BY <1>3 DEF PortalAnswers
    <2>2. PICK a : a = Answer(m, status, None, of, FALSE, framing)
      OBVIOUS
    <2>3. a \in Answers /\ a.says = None /\ a.call = m.call /\ a.attempt = m.attempt
      BY <2>2 DEF Answer, Answers, Statuses, CallInv, TypeOK
    <2>4. line' # line => Busy("wait") /\ Ours(call, a) /\ line' = a
      BY <2>1, <2>2, <2>3 DEF Deliver, Ours
    <2>5. line' = line \/ line' \in Answers
      BY <2>3, <2>4
    <2> QED
      BY <1>1, <2>4, <2>5, WireStep
  <1> QED
    BY <1>2, <1>3

\* What the server says is a status and what goes with it.
LEMMA ServerSaysIs ==
    ASSUME TypeOK, NEW op, NEW s \in ServerSays(op)
    PROVE  /\ s[1] \in Statuses /\ s[2] \in Codes \cup {"asked", None}
           /\ s[2] # None => (s[2] = "asked" <=> s[1] = 200)
           /\ s[2] # None => ~(op = "revoke" /\ s[1] = 200)
  BY DEF TypeOK, ServerSays, Statuses, Codes

\* The server handles a request: it is the first and the last time.
LEMMA Handles == ASSUME CallInv, NEW m \in wire, Handle(m) PROVE CallInv'
  <1> USE DEF CallInv
  <1>1. PICK s \in ServerSays(m.op), of \in 0 .. MaxParts, framing \in {"length", "close"} :
           /\ of = 0 <=> m.op = "revoke" /\ s[1] = 200
           /\ Deliver(m, Answer(m, s[1], s[2], of, m.op = "download" /\ s[1] = 200, framing))
           /\ handled' = handled \cup {[call |-> m.call, attempt |-> m.attempt, op |-> m.op,
                                        status |-> s[1]]}
           /\ device' = IF m.op = "revoke" /\ s[1] = 200 THEN "gone" ELSE device
    BY DEF Handle
  <1>2. wire' = wire \ {m} /\ UNCHANGED <<call, calls>>
    BY DEF Handle
  <1>3. PICK h : h = [call |-> m.call, attempt |-> m.attempt, op |-> m.op, status |-> s[1]]
    OBVIOUS
  <1>4. /\ h.call = m.call /\ h.attempt = m.attempt /\ h.op = m.op /\ h.status = s[1]
        /\ handled' = handled \cup {h}
    BY <1>1, <1>3
  <1>5. m \in [call: 1 .. MaxCalls, attempt: 1 .. Ceiling, op: Ops]
    BY DEF TypeOK
  <1>6. PICK sha \in BOOLEAN : sha = (m.op = "download" /\ s[1] = 200)
    OBVIOUS
  <1>7. PICK a : a = Answer(m, s[1], s[2], of, sha, framing)
    OBVIOUS
  <1>8. /\ a \in Answers /\ a.call = m.call /\ a.attempt = m.attempt /\ a.of = of
        /\ a.status = s[1] /\ a.says = s[2]
    BY <1>5, <1>7, ServerSaysIs DEF Answer, Answers
  <1>9. /\ line' = IF Busy("wait") /\ line = None /\ call.n = m.call /\ call.attempt = m.attempt
                   THEN a ELSE line
    BY <1>1, <1>6, <1>7 DEF Deliver
  <1>10. TypeOK'
    <2>1. h \in [call: 1 .. MaxCalls, attempt: 1 .. Ceiling, op: Ops, status: Statuses]
      BY <1>3, <1>5, ServerSaysIs
    <2>2. line' = None \/ line' \in Answers
      BY <1>8, <1>9 DEF TypeOK
    <2>3. device' \in {"live", "gone"}
      BY <1>1 DEF TypeOK
    <2> QED
      BY <1>2, <1>4, <2>1, <2>2, <2>3 DEF TypeOK
  <1>11. Numbered'
    <2>1. \A k \in wire' : k \in wire /\ k # m
      BY <1>2
    <2>2. \A k \in wire : SameRequest(k, m) => k = m
      <3> SUFFICES ASSUME NEW k \in wire, SameRequest(k, m) PROVE k = m
        OBVIOUS
      <3>1. k.op = m.op /\ k.call = m.call /\ k.attempt = m.attempt
        BY DEF Numbered, SameRequest
      <3>2. k \in [call: 1 .. MaxCalls, attempt: 1 .. Ceiling, op: Ops]
        BY DEF TypeOK
      <3> QED
        BY <1>5, <3>1, <3>2
    <2>3. \A k \in wire : (Sent(k) <=> Sent(k)') /\ (Sent(k) <=> k.op = call.op
             /\ k.attempt <= call.attempt
             /\ (call.pc \in {"open", "send"} => k.attempt < call.attempt))
      BY <1>2 DEF Sent
    <2>4. \A g \in handled' : g \in handled \/ g = h
      BY <1>4
    <2>5. (\A k \in wire \cup handled : /\ k.call <= calls
                                        /\ k.call = calls => Sent(k)
                                        /\ k.attempt <= MaxAttempts(k.op))'
      <3>1. \A k \in wire \cup handled : /\ k.call <= calls
                                         /\ k.call = calls => Sent(k)'
                                         /\ k.attempt <= MaxAttempts(k.op)
        BY <1>2 DEF Numbered, Sent
      <3>2. Sent(m)' => Sent(h)'
        BY <1>2, <1>4 DEF Sent
      <3> QED
        BY <1>2, <1>4, <2>1, <2>4, <3>1, <3>2
    <2>6. (\A k, g \in wire \cup handled : k.call = g.call => k.op = g.op)'
      <3>1. \A k, g \in wire \cup handled : k.call = g.call => k.op = g.op
        BY DEF Numbered
      <3> QED
        BY <1>4, <2>1, <2>4, <3>1
    <2>7. (\A g, k \in handled : SameRequest(g, k) => g = k)'
      <3>1. \A g \in handled : ~SameRequest(m, g)
        BY DEF Numbered
      <3>2. \A g \in handled : ~SameRequest(h, g) /\ ~SameRequest(g, h)
        BY <1>4, <3>1 DEF SameRequest
      <3> QED
        BY <2>4, <3>2 DEF Numbered
    <2>8. (\A k \in wire, g \in handled : ~SameRequest(k, g))'
      <3>1. \A k \in wire' : ~SameRequest(k, h)
        BY <1>4, <2>1, <2>2 DEF SameRequest
      <3> QED
        BY <2>1, <2>4, <3>1 DEF Numbered
    <2> QED
      BY <1>2, <2>5, <2>6, <2>7, <2>8 DEF Numbered
  <1>12. handled \subseteq handled'
    BY <1>4
  <1>13. Listening'
    <2>1. CASE line' = line
      <3>1. \A c, x : Ours(c, x) => Ours(c, x)'
        BY <1>12, HeardStays
      <3>2. line' # None => Ours(call, line)'
        BY <1>2, <2>1, <3>1 DEF Listening
      <3> QED
        BY <1>2, <2>1, <3>2 DEF Listening, Busy
    <2>2. CASE line' = a /\ Busy("wait") /\ call.n = m.call /\ call.attempt = m.attempt
      <3>1. call.op = m.op
        BY <2>2 DEF Numbered, Sent, Busy
      <3>2. [call |-> a.call, attempt |-> a.attempt, op |-> call.op, status |-> a.status] \in handled'
        BY <1>3, <1>4, <1>8, <3>1
      <3>3. a.says # None => a.of >= 1 /\ (a.says = "asked" <=> a.status = 200)
        <4>1. a.says # None => of # 0 /\ (s[2] = "asked" <=> s[1] = 200)
          BY <1>1, <1>8, ServerSaysIs
        <4>2. of \in Nat
          BY ApiBounds
        <4> QED
          BY <1>8, <4>1, <4>2
      <3>4. \A c : c.n = call.n /\ c.attempt = call.attempt /\ c.op = call.op => Ours(c, a)'
        BY <1>8, <2>2, <3>2, <3>3 DEF Ours
      <3>5. Ours(call, line)'
        BY <1>2, <2>2, <3>4
      <3> QED
        BY <1>2, <2>2, <3>5 DEF Listening, Busy
    <2> QED
      BY <1>9, <2>1, <2>2
  <1>14. call # None => Goes(call)' /\ Heard(call)'
    <2>1. \A c : Heard(c) => Heard(c)'
      BY <1>12, HeardStays
    <2> QED
      BY <1>2, <2>1
  <1> QED
    BY <1>2, <1>10, <1>11, <1>13, <1>14

\* Every step keeps the invariant.
LEMMA NextCall == CallInv /\ [Next]_vars => CallInv'
  <1> SUFFICES ASSUME CallInv, [Next]_vars PROVE CallInv'
    OBVIOUS
  <1>1. CASE \E op \in Ops, net \in Backends : Begin(op, net) \/ BadRequest(op, net)
    BY <1>1, Begins
  <1>2. CASE ClientStep
    BY <1>2, Asks, Opens, Sends, Hears, Parted, Finishes, Returns DEF ClientStep
  <1>3. CASE Environment
    BY <1>3, Handles, Between DEF Environment
  <1>4. CASE UNCHANGED vars
    <2>1. wire' \subseteq wire /\ line' = line /\ UNCHANGED <<call, device, handled, calls>>
      BY <1>4 DEF vars
    <2> QED
      BY <2>1, WireStep
  <1> QED
    BY <1>1, <1>2, <1>3, <1>4 DEF Next

\* The invariant holds throughout.
LEMMA CallIsInvariant == Spec => []CallInv
  <1>1. Init => CallInv
    BY InitCall
  <1>2. CallInv /\ [Next]_vars => CallInv'
    BY NextCall
  <1> QED
    BY <1>1, <1>2, PTL DEF Spec

-----------------------------------------------------------------------------
(***************************************************************************)
(* What follows.                                                           *)
(***************************************************************************)

\* Every variable has its type: no attempt beyond the ceiling is made, and no more calls
\* are on at a time than one.
THEOREM TypeCorrect == Spec => []TypeOK
  <1>1. CallInv => TypeOK
    BY DEF CallInv
  <1> QED
    BY <1>1, CallIsInvariant, PTL

\* A buffer with all of an answer says what the answer said, and one with another number
\* of parts says nothing.
LEMMA BufferSays ==
    ASSUME NEW a \in Answers, NEW buf \in Seq(Parts), Holds(buf, a)
    PROVE  Says(buf) = IF a.of >= 1 /\ Len(buf) = a.of THEN a.says ELSE None
  <1>1. CASE buf = <<>>
    <2>1. Len(buf) = 0 /\ Says(buf) = None
      BY <1>1 DEF Says
    <2>2. ~(a.of >= 1 /\ Len(buf) = a.of)
      BY <2>1
    <2> QED
      BY <2>1, <2>2
  <1>2. CASE buf # <<>>
    <2>1. 1 \in DOMAIN buf /\ Len(buf) >= 1
      BY <1>2
    <2>2. buf[1] = PartOf(a, 1)
      BY <2>1 DEF Holds
    <2>3. buf[1].of = a.of /\ buf[1].says = a.says
      BY <2>2 DEF PartOf
    <2>4. \A i \in DOMAIN buf : buf[i] = [buf[1] EXCEPT !.i = i]
      BY <2>2 DEF Holds, PartOf
    <2> QED
      BY <1>2, <2>1, <2>3, <2>4 DEF Says
  <1> QED
    BY <1>1, <1>2

\* What the caller is told is this attempt's answer, and its ok is the server's
\* (api.c:166-172).
THEOREM OkIsTheAnswer == Spec => []OkIsThisAnswers
  <1>1. CallInv => OneAnswer
    <2> SUFFICES ASSUME CallInv, call # None
                 PROVE  /\ \A buf \in {call.ok, call.err, call.out} : \A i \in DOMAIN buf :
                              buf[i].call = call.n /\ buf[i].attempt = call.attempt
                        /\ call.sha \in {0, call.attempt}
      BY DEF OneAnswer
    <2>1. CASE call.heard = None
      BY <2>1 DEF CallInv, Heard, Unread
    <2>2. CASE call.heard # None
      <3>1. PICK a : a = call.heard
        OBVIOUS
      <3>2. /\ Holds(call.ok, a) /\ Holds(call.err, a) /\ Holds(call.out, a)
            /\ a.call = call.n /\ a.attempt = call.attempt /\ call.sha \in {0, call.attempt}
        BY <2>2, <3>1 DEF CallInv, Heard, Read, Ours
      <3>3. ASSUME NEW buf, Holds(buf, a), NEW i \in DOMAIN buf
            PROVE  buf[i].call = call.n /\ buf[i].attempt = call.attempt
        <4>1. buf[i] = PartOf(a, i)
          BY <3>3 DEF Holds
        <4> QED
          BY <3>2, <4>1 DEF PartOf
      <3> QED
        BY <3>2, <3>3
    <2> QED
      BY <2>1, <2>2
  <1>2. CallInv => OkIsTheServersWord
    <2> SUFFICES ASSUME CallInv, call # None, call.pc = "done", call.op \in HasBody,
                        call.result = "ok"
                 PROVE  [call |-> call.n, attempt |-> call.attempt, op |-> call.op,
                         status |-> 200] \in handled
      BY DEF OkIsTheServersWord, Busy
    <2>1. call \in CallType /\ Goes(call) /\ Heard(call) /\ call.result = Outcome(call)
      BY DEF CallInv, TypeOK, Goes
    <2>2. call.status = 200 /\ Says(call.ok) = "asked" /\ call.r = "ok"
      <3>1. ParseError(call.err, call.status) # "ok"
        BY DEF ParseError, FromStatus, Codes
      <3> QED
        BY <2>1, <3>1 DEF Outcome, UploadSays, PairSays, HasBody
    <2>3. PICK a : a = call.heard
      OBVIOUS
    <2>4. a # None /\ a \in Answers /\ Ours(call, a) /\ a.status = 200 /\ Holds(call.ok, a)
      BY <2>1, <2>2, <2>3 DEF Goes, Heard, Read
    <2>5. a.says = "asked"
      BY <2>1, <2>2, <2>4, BufferSays, NoneIsNothing DEF CallType
    <2> QED
      BY <2>4, <2>5, NoneIsNothing DEF Ours
  <1>3. CallInv => OkIsThisAnswers
    BY <1>1, <1>2 DEF OkIsThisAnswers
  <1> QED
    BY <1>3, CallIsInvariant, PTL

\* An answer that came whole and fits is believed: a request the server accepted is
\* reported accepted, and the code it chose is the one the caller gets (net_curl.c:192-197).
THEOREM AnswersAreBelieved == Spec => []AnswerIsBelieved
  <1>1. CallInv => AnswerIsBelieved
    <2> SUFFICES ASSUME CallInv, call # None, call.pc = "done",
                        call.r \in {"ok", "backend_error"}, call.heard # None,
                        call.got = call.heard.of
                 PROVE  LET a == call.heard IN
                        /\ a.status = 200 /\ a.says = "asked" /\ a.of <= JsonRoom =>
                              call.result = "ok"
                        /\ a.status # 404 /\ a.says \in Codes /\ a.of <= ErrorRoom =>
                              call.result = a.says
      BY DEF AnswerIsBelieved, Busy
    <2>1. PICK a : a = call.heard
      OBVIOUS
    <2>2. /\ call \in CallType /\ Goes(call) /\ Read(call, a) /\ a \in Answers /\ Ours(call, a)
          /\ call.result = Outcome(call) /\ call.r = "ok" /\ call.sink_err = "ok"
          /\ call.op \in Ops /\ call.status = a.status /\ call.got = a.of
      BY <2>1 DEF CallInv, TypeOK, Goes, Heard, Read, CallType
    <2>3. a.of \in Nat /\ call.ok \in Seq(Parts) /\ call.err \in Seq(Parts)
      BY <2>2, ApiBounds DEF CallType, Answers
    <2>4. ASSUME a.status = 200, a.says = "asked", a.of <= JsonRoom PROVE call.result = "ok"
      <3>1. a.of >= 1
        BY <2>2, <2>4, NoneIsNothing DEF Ours
      <3>2. call.op # "download" => Len(call.ok) = a.of /\ ~call.truncated
        BY <2>2, <2>3, <2>4, ApiBounds DEF Read, UpTo
      <3>3. call.op # "download" => Says(call.ok) = "asked"
        BY <2>2, <2>3, <2>4, <3>1, <3>2, BufferSays DEF Read
      <3> QED
        BY <2>2, <2>4, <3>2, <3>3
           DEF Outcome, LatestSays, DownloadSays, UploadSays, PairSays, RevokeSays, Ops
    <2>5. ASSUME a.status # 404, a.says \in Codes, a.of <= ErrorRoom PROVE call.result = a.says
      <3>1. a.of >= 1 /\ a.status # 200
        BY <2>2, <2>5, NoneIsNothing DEF Ours, Codes
      <3>2. Len(call.err) = a.of
        BY <2>2, <2>3, <2>5, <3>1, ApiBounds DEF Read, UpTo
      <3>3. Says(call.err) = a.says
        BY <2>2, <2>3, <3>1, <3>2, BufferSays DEF Read
      <3>4. ParseError(call.err, call.status) = a.says
        BY <2>5, <3>3 DEF ParseError
      <3> QED
        BY <2>2, <2>5, <3>1, <3>4
           DEF Outcome, LatestSays, DownloadSays, UploadSays, PairSays, RevokeSays, Ops
    <2> QED
      BY <2>1, <2>4, <2>5
  <1> QED
    BY <1>1, CallIsInvariant, PTL

\* As many requests of a call are handled as there are attempts to it.
LEMMA HandledOnce ==
    ASSUME CallInv, NEW n, NEW op, \A h \in Handlings(n) : h.op = op
    PROVE  IsFiniteSet(Handlings(n)) /\ Cardinality(Handlings(n)) <= MaxAttempts(op)
  <1>1. PICK S : S = Handlings(n)
    OBVIOUS
  <1>2. /\ \A h \in S : h \in handled /\ h.call = n /\ h.op = op
        /\ \A h \in S : h.attempt \in 1 .. MaxAttempts(op)
    <2>1. \A h \in S : h \in handled /\ h.call = n /\ h.op = op
      BY <1>1 DEF Handlings
    <2>2. \A h \in handled : h.attempt \in Nat /\ h.attempt >= 1 /\ h.attempt <= MaxAttempts(h.op)
      BY ApiBounds DEF CallInv, TypeOK, Numbered
    <2> QED
      BY <2>1, <2>2, AttemptsAre
  <1>3. PICK f : f = [h \in S |-> h.attempt]
    OBVIOUS
  <1>4. f \in [S -> 1 .. MaxAttempts(op)]
    BY <1>2, <1>3
  <1>5. \A h, k \in S : f[h] = f[k] => h = k
    BY <1>2, <1>3 DEF CallInv, Numbered, SameRequest
  <1>6. f \in Injection(S, 1 .. MaxAttempts(op))
    BY <1>4, <1>5 DEF Injection, IsInjective
  <1>7. /\ IsFiniteSet(1 .. MaxAttempts(op)) /\ Cardinality(1 .. MaxAttempts(op)) = MaxAttempts(op)
    BY AttemptsAre, FS_Interval
  <1>8. Cardinality(S) <= Cardinality(1 .. MaxAttempts(op)) /\ IsFiniteSet(S)
    BY <1>6, <1>7, FS_Injection
  <1> QED
    BY <1>1, <1>7, <1>8

\* What cannot be taken back goes over the wire once: a request with a body is handled
\* once at most, however the call ends, and a download writes one save from its
\* beginning (api.c:149-152, 37-39, 383-386).
THEOREM BodiesGoOnce == Spec => []BodiesMoveOnce
  <1>1. CallInv => SentAtMostOnce
    <2> SUFFICES ASSUME CallInv, NEW n \in 1 .. MaxCalls
                 PROVE  /\ Cardinality(Handlings(n)) <= Ceiling
                        /\ (\E h \in Handlings(n) : h.op \in HasBody \cup {"download"}) =>
                              Cardinality(Handlings(n)) = 1
      BY DEF SentAtMostOnce
    <2>1. CASE Handlings(n) = {}
      <3>1. Cardinality(Handlings(n)) = 0
        BY <2>1, FS_EmptySet
      <3> QED
        BY <2>1, <3>1, ApiBounds
    <2>2. CASE Handlings(n) # {}
      <3>1. PICK h \in handled : h.call = n
        BY <2>2 DEF Handlings
      <3>2. \A k \in Handlings(n) : k.op = h.op
        BY <3>1 DEF CallInv, Numbered, Handlings
      <3>3. IsFiniteSet(Handlings(n)) /\ Cardinality(Handlings(n)) <= MaxAttempts(h.op)
        BY <3>2, HandledOnce
      <3>4. MaxAttempts(h.op) \in Nat /\ MaxAttempts(h.op) <= Ceiling /\ Ceiling \in Nat
        BY AttemptsAre
      <3>5. h.op \in HasBody \cup {"download"} => MaxAttempts(h.op) = 1
        BY DEF MaxAttempts
      <3>6. h.op \in HasBody \cup {"download"} => Handlings(n) = {h}
        <4> SUFFICES ASSUME h.op \in HasBody \cup {"download"}, NEW k \in Handlings(n)
                     PROVE  k = h
          BY <3>1 DEF Handlings
        <4>1. k \in handled /\ k.call = n /\ k.op = h.op
          BY <3>2 DEF Handlings
        <4>2. /\ k.attempt \in Nat /\ k.attempt >= 1 /\ k.attempt <= 1
              /\ h.attempt \in Nat /\ h.attempt >= 1 /\ h.attempt <= 1
          BY <3>1, <3>5, <4>1, ApiBounds DEF CallInv, TypeOK, Numbered
        <4>3. k.attempt = h.attempt
          BY <4>2
        <4> QED
          BY <3>1, <4>1, <4>3 DEF CallInv, Numbered, SameRequest
      <3>7. h.op \in HasBody \cup {"download"} => Cardinality(Handlings(n)) = 1
        BY <3>6, FS_Singleton
      <3>8. Cardinality(Handlings(n)) <= Ceiling
        <4>1. Cardinality(Handlings(n)) \in Nat
          BY <3>3, FS_CardinalityType
        <4> QED
          BY <3>3, <3>4, <4>1
      <3> QED
        BY <3>2, <3>7, <3>8
    <2> QED
      BY <2>1, <2>2
  <1>2. CallInv => SinkOnlySave
    <2> SUFFICES ASSUME CallInv, call # None, call.op = "download"
                 PROVE  /\ \A i \in DOMAIN call.out : call.out[i].i = i /\ call.out[i].status = 200
                        /\ call.pc = "done" /\ call.result = "ok" /\ call.heard.framing = "length" =>
                              Len(call.out) = call.heard.of
      BY DEF SinkOnlySave
    <2>1. call \in CallType /\ Goes(call) /\ Heard(call)
      BY DEF CallInv, TypeOK
    <2>2. CASE call.heard = None
      <3>1. call.out = <<>>
        BY <2>1, <2>2 DEF Heard, Unread
      <3>2. ~(call.pc = "done" /\ call.result = "ok")
        BY <2>1, <2>2 DEF Goes, Outcome
      <3> QED
        BY <3>1, <3>2
    <2>3. CASE call.heard # None
      <3>1. PICK a : a = call.heard
        OBVIOUS
      <3>2. Read(call, a)
        BY <2>1, <2>3, <3>1 DEF Heard
      <3>3. \A i \in DOMAIN call.out : call.out[i].i = i /\ call.out[i].status = 200
        <4> SUFFICES ASSUME NEW i \in DOMAIN call.out
                     PROVE  call.out[i].i = i /\ call.out[i].status = 200
          OBVIOUS
        <4>1. call.out # <<>> /\ call.out[i] = PartOf(a, i) /\ call.status = a.status
          BY <3>2 DEF Read, Holds
        <4> QED
          BY <3>2, <4>1 DEF Read, PartOf
      <3>4. ASSUME call.pc = "done", call.result = "ok", a.framing = "length"
            PROVE  Len(call.out) = a.of
        <4>1. ParseError(call.err, call.status) # "ok"
          BY DEF ParseError, FromStatus, Codes
        <4>2. call.r = "ok" /\ call.status = 200
          BY <2>1, <3>4, <4>1 DEF Goes, Outcome, DownloadSays
        <4>3. call.got = a.of /\ call.sink_err = "ok"
          BY <2>1, <3>1, <3>4, <4>2 DEF Goes, Whole
        <4> QED
          BY <3>2, <4>2, <4>3 DEF Read
      <3> QED
        BY <3>1, <3>3, <3>4
    <2> QED
      BY <2>2, <2>3
  <1>3. CallInv => BodiesMoveOnce
    BY <1>1, <1>2 DEF BodiesMoveOnce
  <1> QED
    BY <1>3, CallIsInvariant, PTL

=============================================================================
