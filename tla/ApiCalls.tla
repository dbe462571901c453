------------------------------ MODULE ApiCalls ------------------------------
(***************************************************************************)
(* The calls of the API client (core/src/api.c) over the two network       *)
(* backends: the sockets of the desktop build (platform/posix/             *)
(* net_backend.c) and libcurl on the consoles (platform/common/            *)
(* net_curl.c).                                                            *)
(*                                                                         *)
(* A client makes one call at a time and a call makes up to Ceiling        *)
(* requests.  A request that was given up on is not gone: the server may   *)
(* still come to it, during a later attempt or a later call.  The answer   *)
(* may be cut anywhere, and may come from something in between (a proxy, a *)
(* captive portal) that never showed the request to the server.            *)
(*                                                                         *)
(* The server is seen through its answers only, except that it remembers   *)
(* whether the device is revoked, because DELETE /v1/devices/{id} changes  *)
(* what its own repetition is answered.                                    *)
(***************************************************************************)
EXTENDS Naturals, Sequences, FiniteSets

CONSTANTS
    None,          \* no call, no answer; what a body says that means nothing here
    Backends,      \* which network backends the client may have: "posix", "curl"
    Ceiling,       \* DAEMOON_RETRY_CEILING
    JsonRoom,      \* the parts a success buffer holds
    ErrorRoom,     \* the parts an error buffer holds
    MaxParts,      \* bound: the parts of an answer's body
    MaxCalls,      \* bound: calls made
    Portals        \* whether something in between may answer

ASSUME ApiBounds ==
    /\ Ceiling \in Nat \ {0} /\ MaxCalls \in Nat
    /\ JsonRoom \in Nat /\ ErrorRoom \in Nat /\ MaxParts \in Nat \ {0}
    /\ Backends \subseteq {"posix", "curl"}
    /\ Portals \in BOOLEAN

VARIABLES
    call,          \* the call the client is making, see CallType
    wire,          \* requests that left the client and nobody has handled
    line,          \* the answer coming down the open connection, None when there is none
    device,        \* whether the device the token belongs to is revoked on the server
    handled,       \* history: what the server handled, [call, attempt, status]
    calls          \* calls begun

vars == <<call, wire, line, device, handled, calls>>

Ops     == {"latest", "download", "upload", "pair", "revoke"}
HasBody == {"upload", "pair"}

MaxAttemptsBodies(op) == IF op = "download" THEN 1 ELSE Ceiling

MaxAttemptsDownload(op) == IF op \in HasBody THEN 1 ELSE Ceiling

\* An upload is one attempt because body_read is set; a download calls the backend
\* itself, once.
MaxAttempts(op) == IF op \in HasBody \/ op = "download" THEN 1 ELSE Ceiling

Errors == {"invalid_request", "unauthorized", "device_revoked", "not_found",
           "version_conflict", "share_expired", "pairing_expired", "internal_error", "io_error",
           "out_of_memory", "parse_error", "network_error", "timeout", "tls_error",
           "backend_error", "unsupported", "buffer_too_small"}
Results == Errors \cup {"ok"}

\* The k_errors rows a status falls back to, and those a transport failure retries.
FromStatus(status) ==
    CASE status = 400 -> "invalid_request"
      [] status = 401 -> "unauthorized"
      [] status = 404 -> "not_found"
      [] status = 409 -> "version_conflict"
      [] status = 410 -> "share_expired"
      [] OTHER        -> "internal_error"

Retryable == {"internal_error", "network_error", "timeout"}

-----------------------------------------------------------------------------
\* A part of a body: which request's answer it is of, its place, of how many, and what
\* the whole body says: what was asked for, an error code, or nothing this client knows.
Statuses == {200, 401, 404, 409, 410, 500, 502}
Codes == {"device_revoked", "not_found", "version_conflict", "pairing_expired",
          "internal_error"}
Parts == [call: 1 .. MaxCalls, attempt: 1 .. Ceiling, i: 1 .. MaxParts, of: 1 .. MaxParts,
          says: Codes \cup {"asked", None}, status: Statuses]

\* What daemoon_json_parse finds in a buffer: nothing unless it holds one body, whole.
Says(buf) ==
    IF /\ buf # <<>>
       /\ Len(buf) = buf[1].of
       /\ \A i \in DOMAIN buf :
             buf[i] = [buf[1] EXCEPT !.i = i]
    THEN buf[1].says ELSE None

\* framing: how the end of the body is told; "close" is neither a length nor chunks.
Answers == [call: 1 .. MaxCalls, attempt: 1 .. Ceiling, status: Statuses,
            of: 0 .. MaxParts, says: Codes \cup {"asked", None},
            sha: BOOLEAN, framing: {"length", "close"}]

Answer(m, status, says, of, sha, framing) ==
    [call |-> m.call, attempt |-> m.attempt, status |-> status, of |-> of,
     says |-> says, sha |-> sha, framing |-> framing]

\* membuf_append: what does not fit is dropped and the buffer marked.
AppendPart(buf, part, room) == IF Len(buf) < room THEN Append(buf, part) ELSE buf

PCs == {"ask", "open", "send", "wait", "body", "end", "done"}

\* ok, err, out: the two buffers and the caller's sink.  sha: which attempt's header
\* filled resp->sha256, 0 for none.  heard is history: the answer of this attempt.
CallType == [n: 1 .. MaxCalls, op: Ops, net: Backends, attempt: 0 .. Ceiling, pc: PCs,
             r: Results, status: {0} \cup Statuses, sha: {0} \cup (1 .. Ceiling),
             ok: Seq(Parts), err: Seq(Parts), out: Seq(Parts),
             sink_err: {"ok", "io_error", "backend_error"}, truncated: BOOLEAN,
             got: 0 .. MaxParts, heard: Answers \cup {None}, result: Results]

ASSUME NoneIsNothing == None \notin CallType \cup Answers \cup Codes \cup {"asked"}

TypeOK ==
    /\ call = None \/ call \in CallType
    /\ wire \subseteq [call: 1 .. MaxCalls, attempt: 1 .. Ceiling, op: Ops]
    /\ line = None \/ line \in Answers
    /\ device \in {"live", "gone"}
    /\ handled \subseteq [call: 1 .. MaxCalls, attempt: 1 .. Ceiling, op: Ops,
                          status: Statuses]
    /\ calls \in 0 .. MaxCalls

Init ==
    /\ call = None /\ wire = {} /\ line = None
    /\ device = "live" /\ handled = {} /\ calls = 0

Busy(pc) == call # None /\ call.pc = pc
Running  == call # None /\ call.pc # "done"
Request  == [call |-> call.n, attempt |-> call.attempt, op |-> call.op]

\* The request is over, for the backend, with r; the connection is closed.
Over(c, r) == [c EXCEPT !.pc = "end", !.r = r]

-----------------------------------------------------------------------------
\* A call, as the five functions set it up; without a server, or with a URL longer than
\* its buffer, it never gets as far as a request.
Fresh(op, net) ==
    [n |-> calls + 1, op |-> op, net |-> net, attempt |-> 0, pc |-> "ask", r |-> "network_error",
     status |-> 0, sha |-> 0, ok |-> <<>>, err |-> <<>>, out |-> <<>>, sink_err |-> "ok",
     truncated |-> FALSE, got |-> 0, heard |-> None, result |-> "network_error"]

Begin(op, net) ==
    /\ ~Running /\ calls < MaxCalls
    /\ calls' = calls + 1
    /\ call' = Fresh(op, net)
    /\ UNCHANGED <<wire, line, device, handled>>

BadRequest(op, net) ==
    /\ ~Running /\ calls < MaxCalls
    /\ calls' = calls + 1
    /\ call' = [Fresh(op, net) EXCEPT !.pc = "done", !.result = "invalid_request"]
    /\ UNCHANGED <<wire, line, device, handled>>

ResetStatusOnly(c) == [c EXCEPT !.status = 0, !.got = 0, !.heard = None]

\* api_do, before every attempt: nothing of the attempt before is left to be read.
Reset(c) ==
    [c EXCEPT !.status = 0, !.sha = 0, !.sink_err = "ok", !.ok = <<>>, !.err = <<>>,
              !.truncated = FALSE, !.got = 0, !.heard = None]

AttemptNotCounted(c) == IF c.attempt = 0 THEN 1 ELSE c.attempt

AttemptAfter(c) == c.attempt + 1

Ask ==
    /\ Busy("ask")
    /\ call' = [Reset(call) EXCEPT !.attempt = AttemptAfter(call), !.pc = "open"]
    /\ UNCHANGED <<wire, line, device, handled, calls>>

-----------------------------------------------------------------------------
\* The backends.  What each answers before a connection is tried: an address that is not
\* http:// or has no host; curl not brought up, out of memory, a header that does not fit.
PosixRefusals == {"unsupported", "invalid_request"}
CurlRefusals  == {"network_error", "out_of_memory", "buffer_too_small"}

\* What each calls a connection that cannot be made, and one that breaks or stalls.
PosixNoConnection == {"network_error"}
CurlNoConnection  == {"network_error", "timeout", "tls_error"}
Broken            == {"network_error", "timeout"}

Refusals(net)     == IF net = "posix" THEN PosixRefusals ELSE CurlRefusals
NoConnection(net) == IF net = "posix" THEN PosixNoConnection ELSE CurlNoConnection

Refuse ==
    /\ Busy("open")
    /\ \E r \in Refusals(call.net) : call' = Over(call, r)
    /\ UNCHANGED <<wire, line, device, handled, calls>>

Connect ==
    /\ Busy("open")
    /\ \/ call' = [call EXCEPT !.pc = "send"]
       \/ \E r \in NoConnection(call.net) : call' = Over(call, r)
    /\ UNCHANGED <<wire, line, device, handled, calls>>

\* The whole request leaves, or it breaks off and the server never has it whole.
Send ==
    /\ Busy("send")
    /\ \/ /\ call' = [call EXCEPT !.pc = "wait"]
          /\ wire' = wire \cup {Request}
       \/ /\ \E r \in Broken : call' = Over(call, r)
          /\ wire' = wire
    /\ UNCHANGED <<line, device, handled, calls>>

\* The staged package cannot be read, or ends before the length announced.
BodyReadFails ==
    /\ Busy("send") /\ call.op = "upload"
    /\ call' = Over(call, "io_error")
    /\ UNCHANGED <<wire, line, device, handled, calls>>

HeadersLate(c, a) == [c EXCEPT !.pc = "body", !.got = 0, !.heard = a]

\* The status line and the headers: the status is known before the first byte of the body.
HeadersOf(c, a) ==
    [c EXCEPT !.status = a.status, !.sha = IF a.sha THEN c.attempt ELSE c.sha,
              !.pc = "body", !.got = 0, !.heard = a]

Headers ==
    /\ Busy("wait") /\ line # None
    /\ call' = HeadersOf(call, line)
    /\ UNCHANGED <<wire, line, device, handled, calls>>

\* api_body_write: where a part goes, or why it cannot.
BodyWrite(c, part, full) ==
    CASE c.status = 0 -> [c EXCEPT !.sink_err = "backend_error"]
      [] c.status = 200 /\ c.op = "download" ->
            IF full THEN [c EXCEPT !.sink_err = "io_error"]
                    ELSE [c EXCEPT !.out = Append(@, part)]
      [] c.status = 200 /\ c.op # "download" ->
            [c EXCEPT !.ok = AppendPart(@, part, JsonRoom),
                      !.truncated = @ \/ Len(c.ok) >= JsonRoom]
      [] OTHER -> [c EXCEPT !.err = AppendPart(@, part, ErrorRoom)]

\* One part of the body, handed to api_body_write; a sink that refuses it ends the request.
BodyPart ==
    /\ Busy("body") /\ call.got < line.of
    /\ \E full \in BOOLEAN :
          LET part == [call |-> line.call, attempt |-> line.attempt, i |-> call.got + 1,
                       of |-> line.of, says |-> line.says, status |-> line.status]
              c == BodyWrite([call EXCEPT !.got = @ + 1], part, full)
          IN IF c.sink_err = "ok" THEN call' = c /\ line' = line
             ELSE call' = Over(c, c.sink_err) /\ line' = None
    /\ UNCHANGED <<wire, device, handled, calls>>

\* The body is over: all of it came, or nothing says how long it should have been and
\* the connection was closed.
EndOfBody ==
    /\ Busy("body")
    /\ call.got = line.of \/ line.framing = "close"
    /\ call' = Over(call, "ok") /\ line' = None
    /\ UNCHANGED <<wire, device, handled, calls>>

\* The connection breaks, or the time the request had is up.
Lost ==
    /\ Busy("wait") \/ Busy("body")
    /\ \E r \in Broken : call' = Over(call, r)
    /\ line' = None
    /\ UNCHANGED <<wire, device, handled, calls>>

-----------------------------------------------------------------------------
\* daemoon_api_parse_error: the code in the body if there is one, the status otherwise.
ParseError(buf, status) ==
    IF Says(buf) \in Codes THEN Says(buf) ELSE FromStatus(status)

\* What each call makes of a request that came back: c.status and its two buffers.
LatestSays(c) ==
    CASE c.status = 404 -> "ok"                         \* never uploaded: exists = 0
      [] c.status \notin {200, 404} -> ParseError(c.err, c.status)
      [] OTHER -> IF ~c.truncated /\ Says(c.ok) = "asked" THEN "ok" ELSE "parse_error"

DownloadSays(c) == IF c.status = 200 THEN "ok" ELSE ParseError(c.err, c.status)

UploadUnread(c) == IF c.status # 200 THEN ParseError(c.err, c.status) ELSE "ok"

UploadSays(c) ==
    IF c.status # 200 THEN ParseError(c.err, c.status)
    ELSE IF ~c.truncated /\ Says(c.ok) = "asked" THEN "ok" ELSE "parse_error"

PairSays(c) ==
    IF c.status # 200 THEN ParseError(c.err, c.status)
    ELSE IF Says(c.ok) = "asked" THEN "ok" ELSE "parse_error"

RevokeSays(c) == IF c.status \in {200, 404} THEN "ok" ELSE ParseError(c.err, c.status)

Outcome(c) ==
    IF c.r # "ok" THEN c.r
    ELSE CASE c.op = "latest"   -> LatestSays(c)
           [] c.op = "download" -> DownloadSays(c)
           [] c.op = "upload"   -> UploadSays(c)
           [] c.op = "pair"     -> PairSays(c)
           [] c.op = "revoke"   -> RevokeSays(c)

\* api_do: again, if it may help and there are attempts left; else the call is over.
Again(c) == c.r \in Retryable /\ c.attempt < MaxAttempts(c.op)

Return ==
    /\ Busy("end")
    /\ IF Again(call) THEN call' = [call EXCEPT !.pc = "ask"]
       ELSE call' = [call EXCEPT !.pc = "done", !.result = Outcome(call)]
    /\ UNCHANGED <<wire, line, device, handled, calls>>

-----------------------------------------------------------------------------
\* The server, whenever the request reaches it: the status and what the body says.  A
\* revoked device is refused before the handler is reached.
ServerSays(op) ==
    CASE op = "revoke" /\ device = "gone" -> {<<401, "device_revoked">>}
      [] op = "revoke" /\ device = "live" -> {<<200, None>>, <<500, "internal_error">>}
      [] op = "upload" -> {<<200, "asked">>, <<409, "version_conflict">>, <<500, "internal_error">>}
      [] op = "pair"   -> {<<200, "asked">>, <<410, "pairing_expired">>}
      [] OTHER -> {<<200, "asked">>, <<404, "not_found">>, <<500, "internal_error">>}

\* It is heard only if its connection is still open and nothing else was heard on it.
Deliver(m, a) ==
    line' = IF Busy("wait") /\ line = None /\ call.n = m.call /\ call.attempt = m.attempt
            THEN a ELSE line

Handle(m) ==
    /\ m \in wire
    /\ wire' = wire \ {m}
    /\ \E s \in ServerSays(m.op), of \in 0 .. MaxParts,
          framing \in {"length"} \cup (IF Portals THEN {"close"} ELSE {}) :
          /\ of = 0 <=> m.op = "revoke" /\ s[1] = 200
          /\ Deliver(m, Answer(m, s[1], s[2], of, m.op = "download" /\ s[1] = 200, framing))
          /\ handled' = handled \cup {[call |-> m.call, attempt |-> m.attempt, op |-> m.op,
                                       status |-> s[1]]}
          /\ device' = IF m.op = "revoke" /\ s[1] = 200 THEN "gone" ELSE device
    /\ UNCHANGED <<call, calls>>

\* Something in between answers, in words of its own; the request may still go on.
PortalAnswers(m) ==
    /\ Portals /\ m \in wire
    /\ wire' \in {wire, wire \ {m}}
    /\ \E status \in {200, 404, 502}, of \in 0 .. MaxParts, framing \in {"length", "close"} :
          Deliver(m, Answer(m, status, None, of, FALSE, framing))
    /\ line' # line
    /\ UNCHANGED <<call, device, handled, calls>>

Vanish(m) ==
    /\ m \in wire
    /\ wire' = wire \ {m}
    /\ UNCHANGED <<call, line, device, handled, calls>>

ClientStep ==
    \/ Ask \/ Refuse \/ Connect \/ Send \/ BodyReadFails
    \/ Headers \/ BodyPart \/ EndOfBody \/ Lost \/ Return

Environment ==
    \E m \in wire : Handle(m) \/ PortalAnswers(m) \/ Vanish(m)

Next ==
    \/ \E op \in Ops, net \in Backends : Begin(op, net) \/ BadRequest(op, net)
    \/ ClientStep
    \/ Environment

\* The client's own steps are taken: a socket operation returns, fails or times out.
Spec == Init /\ [][Next]_vars /\ WF_vars(ClientStep)

-----------------------------------------------------------------------------
\* What the buffers and the digest hold is of the answer to this attempt, and of no
\* other: a part of an answer that broke off is never read together with what a later
\* attempt brought (api.c:166-172).
OneAnswer ==
    call # None =>
        /\ \A buf \in {call.ok, call.err, call.out} : \A i \in DOMAIN buf :
              buf[i].call = call.n /\ buf[i].attempt = call.attempt
        /\ call.sha \in {0, call.attempt}

\* A console that is told its upload or its pairing succeeded was told so by the server,
\* which handled that very request: a page from a captive portal, a body that was cut and
\* an answer to an earlier attempt are not taken for it.
OkIsTheServersWord ==
    Busy("done") /\ call.op \in HasBody /\ call.result = "ok" =>
        [call |-> call.n, attempt |-> call.attempt, op |-> call.op, status |-> 200] \in handled

\* What the caller is told is this attempt's answer, and its ok is the server's.
OkIsThisAnswers == OneAnswer /\ OkIsTheServersWord

\* An answer that came whole and fits is believed: a request the server accepted is
\* reported accepted (net_curl.c:192-197 tells of the build that said parse_error), and
\* the code the server chose is the one the caller gets.
AnswerIsBelieved ==
    Busy("done") /\ call.r \in {"ok", "backend_error"} /\ call.heard # None =>
        LET a == call.heard IN
        call.got = a.of =>
            /\ a.status = 200 /\ a.says = "asked" /\ a.of <= JsonRoom => call.result = "ok"
            /\ a.status # 404 /\ a.says \in Codes /\ a.of <= ErrorRoom => call.result = a.says

\* A request with a body is handled once at most, however the call ends, and so is a
\* download; what is repeated stops at the ceiling.  "The server, not the client, decides
\* what a second attempt means" (api.c:149-152).
Handlings(n) == {h \in handled : h.call = n}

SentAtMostOnce ==
    \A n \in 1 .. MaxCalls :
        /\ Cardinality(Handlings(n)) <= Ceiling
        /\ (\E h \in Handlings(n) : h.op \in HasBody \cup {"download"}) =>
              Cardinality(Handlings(n)) = 1

\* The file a download writes is the beginning of one save, in order, with nothing of an
\* error's body (api.c:37-39), and with a length or chunks to go by a download that says
\* ok brought all of it (api.c:383-386).
SinkOnlySave ==
    call # None /\ call.op = "download" =>
        /\ \A i \in DOMAIN call.out : call.out[i].i = i /\ call.out[i].status = 200
        /\ call.pc = "done" /\ call.result = "ok" /\ call.heard.framing = "length" =>
              Len(call.out) = call.heard.of

\* What cannot be taken back goes over the wire once: a body out, a save in.
BodiesMoveOnce == SentAtMostOnce /\ SinkOnlySave

\* A call comes to its end: every wait has a limit and so has the number of attempts.
CallEnds == Running ~> ~Running

\* api.h:89-90 says of a revocation: "not_found for a device already gone, which is a
\* success for the caller's purposes".  A device already gone is answered 401
\* device_revoked, because the token that asks is the one that was revoked: after a lost
\* answer the second attempt fails.
GoneIsSuccess ==
    Busy("done") /\ call.op = "revoke" /\ call.r = "ok" /\ call.heard.says = "device_revoked" =>
        call.result = "ok"

=============================================================================
