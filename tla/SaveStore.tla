----------------------------- MODULE SaveStore -----------------------------
(***************************************************************************)
(* The server's side of uploads and downloads: the handlers upload and     *)
(* download of server/internal/api over Store.Put, Latest, Version and     *)
(* WriteBlobTo of server/internal/store, and the deletion of a person.     *)
(*                                                                         *)
(* Every request runs in a goroutine of its own, here a handler.  They     *)
(* share one SQLite database through a pool of one connection (Open): a    *)
(* transaction, and a result that is still being read, keep the connection *)
(* and everybody else waits for it.                                        *)
(*                                                                         *)
(* A package is known by its payload digest, the title id and the parent   *)
(* version in its manifest, and whether its payload hashes to the digest   *)
(* the manifest claims.                                                    *)
(***************************************************************************)
EXTENDS Integers, Sequences, FiniteSets

CONSTANTS
    Users, Titles, Digests,
    Handlers,      \* requests served at the same time
    Chunks,        \* rows of blob_chunks a package takes
    MaxParent,     \* bound: parent versions a request may name
    MaxPuts,       \* bound: uploads
    MaxGets,       \* bound: downloads
    MaxFaults,     \* bound: failed statements, dropped connections and crashes
    Deletable      \* the users whose accounts may be deleted

ASSUME StoreBounds ==
    /\ Chunks \in Nat \ {0}
    /\ {MaxParent, MaxPuts, MaxGets, MaxFaults} \subseteq Nat
    /\ Deletable \subseteq Users

VARIABLES
    db,            \* what is committed
    tx,            \* the open transaction's view; db when none is open
    conn,          \* the handler that has the connection, or Free
    req,           \* [Handlers -> what each is doing]
    answered,      \* history: the uploads that got a version
    puts, gets, faults

vars == <<db, tx, conn, req, answered, puts, gets, faults>>

Keys == Users \X Titles
Free == "free"

ASSUME NobodyIsFree == Free \notin Handlers

Packages == [title: Titles, sha256: Digests, parent: 0..MaxParent, intact: BOOLEAN]

\* A partial function with one more pair, or another value for it.
With(f, x, y) == [z \in DOMAIN f \cup {x} |-> IF z = x THEN y ELSE f[z]]

-----------------------------------------------------------------------------
(* The schema: users; titles with their latest_version; versions by title  *)
(* and number; blobs by digest, each with its reference count, how many    *)
(* chunks are there, and whose chunks they are: the title in the package's *)
(* manifest and, as history, the serial number of the upload.              *)

VersionRows == [parent: Nat, sha256: Digests]
BlobRows    == [refcount: Nat, chunks: 0..Chunks, manifest: Titles, serial: Nat]

DatabaseOK(d) ==
    /\ d.users \subseteq Users
    /\ DOMAIN d.titles \subseteq Keys
    /\ \A k \in DOMAIN d.titles : d.titles[k] \in Nat
    /\ DOMAIN d.versions \subseteq Keys \X (Nat \ {0})
    /\ \A i \in DOMAIN d.versions : d.versions[i] \in VersionRows
    /\ DOMAIN d.blobs \subseteq Digests
    /\ \A x \in DOMAIN d.blobs : d.blobs[x] \in BlobRows

NothingStored == [users |-> Users, titles |-> <<>>, versions |-> <<>>, blobs |-> <<>>]

\* upload: staged (body received) -> put (wants the connection) -> blob -> chunks ->
\*         version -> commit, or -> conflict
\* download: find -> stream -> streaming -> served
PCs == {"idle", "staged", "put", "blob", "chunks", "version", "commit", "conflict",
        "find", "stream", "streaming", "served"}

Idle == [pc |-> "idle"]

Holding == {"blob", "chunks", "version", "commit", "streaming"}   \* pcs that keep the connection

TypeOK ==
    /\ DatabaseOK(db) /\ DatabaseOK(tx)
    /\ conn \in Handlers \cup {Free}
    /\ \A h \in Handlers : req[h].pc \in PCs /\ (req[h].pc \in Holding <=> conn = h)
    /\ \A a \in answered : a.key \in Keys /\ a.version \in Nat \ {0} /\ a.sha256 \in Digests
    /\ puts \in 0..MaxPuts /\ gets \in 0..MaxGets /\ faults \in 0..MaxFaults

Init ==
    /\ db = NothingStored
    /\ tx = NothingStored
    /\ conn = Free
    /\ req = [h \in Handlers |-> Idle]
    /\ answered = {}
    /\ puts = 0 /\ gets = 0 /\ faults = 0

Goto(h, label) == req' = [req EXCEPT ![h].pc = label]
Finish(h)      == req' = [req EXCEPT ![h] = Idle]
Acquire(h)     == conn = Free /\ conn' = h
Release(h)     == conn = h /\ conn' = Free

\* A statement outside a transaction: it takes the connection and gives it back.
OneStatement == conn = Free /\ UNCHANGED conn

-----------------------------------------------------------------------------
(* POST /v1/titles/{tid}/blob *)

\* The whole body is staged in a temporary file before anything else is asked.
ReceiveUpload(h) ==
    /\ req[h].pc = "idle"
    /\ puts < MaxPuts
    /\ \E u \in db.users, t \in Titles, p \in 0..MaxParent, pkg \in Packages :
         req' = [req EXCEPT ![h] = [pc |-> "staged", key |-> <<u, t>>, parent |-> p,
                                    pkg |-> pkg, serial |-> puts + 1]]
    /\ puts' = puts + 1
    /\ UNCHANGED <<db, tx, conn, answered, gets, faults>>

\* Inspect, and the checks of the manifest against the request's path and query.
Inspect(r) ==
    /\ r.pkg.intact
    /\ r.pkg.title = r.key[2]
    /\ r.pkg.parent = r.parent

CheckUpload(h) ==
    /\ req[h].pc = "staged"
    /\ IF Inspect(req[h]) THEN Goto(h, "put") ELSE Finish(h)
    /\ UNCHANGED <<db, tx, conn, answered, puts, gets, faults>>

\* The compare left to the console, which looked before it packed.
AnyParent(d, k, parent) == TRUE

\* Put's compare: a title the server has not seen takes only a first upload.
BuildsOnLatest(d, k, parent) ==
    parent = IF k \in DOMAIN d.titles THEN d.titles[k] ELSE 0

\* The transaction opens, compares, and creates the title's row when there is none; a
\* user who is gone by now fails the foreign key.
BeginPut(h) ==
    LET k == req[h].key IN
    /\ req[h].pc = "put"
    /\ conn = Free
    /\ \/ /\ ~BuildsOnLatest(db, k, req[h].parent)
          /\ Goto(h, "conflict")
          /\ UNCHANGED <<conn, tx>>
       \/ /\ BuildsOnLatest(db, k, req[h].parent)
          /\ k \notin DOMAIN db.titles /\ k[1] \notin db.users
          /\ Finish(h)
          /\ UNCHANGED <<conn, tx>>
       \/ /\ BuildsOnLatest(db, k, req[h].parent)
          /\ k \in DOMAIN db.titles \/ k[1] \in db.users
          /\ Acquire(h)
          /\ tx' = IF k \in DOMAIN db.titles THEN db
                   ELSE [db EXCEPT !.titles = With(@, k, 0)]
          /\ Goto(h, "blob")
    /\ UNCHANGED <<db, answered, puts, gets, faults>>

\* insertBlob: a digest that is there already is reused as it is; otherwise the package
\* goes in chunk by chunk.
WriteBlob(h) ==
    LET x == req[h].pkg.sha256 IN
    /\ req[h].pc = "blob"
    /\ IF x \in DOMAIN tx.blobs
       THEN Goto(h, "version") /\ UNCHANGED tx
       ELSE /\ tx' = [tx EXCEPT !.blobs = With(@, x, [refcount |-> 0, chunks |-> 0,
                                                     manifest |-> req[h].pkg.title,
                                                     serial |-> req[h].serial])]
            /\ Goto(h, "chunks")
    /\ UNCHANGED <<db, conn, answered, puts, gets, faults>>

WriteChunk(h) ==
    LET x == req[h].pkg.sha256 IN
    /\ req[h].pc = "chunks"
    /\ IF tx.blobs[x].chunks < Chunks
       THEN tx' = [tx EXCEPT !.blobs[x].chunks = @ + 1] /\ UNCHANGED req
       ELSE Goto(h, "version") /\ UNCHANGED tx
    /\ UNCHANGED <<db, conn, answered, puts, gets, faults>>

\* The digest that was there already is not counted again.
CountNewOnly(d, x) == IF d.blobs[x].refcount = 0 THEN 1 ELSE d.blobs[x].refcount

\* UPDATE blobs SET refcount = refcount + 1
CountReference(d, x) == d.blobs[x].refcount + 1

\* The newest version is written over.
ReusedNumber(d, k) == IF d.titles[k] = 0 THEN 1 ELSE d.titles[k]

\* Version numbers are issued here and only here.
IssuedNumber(d, k) == d.titles[k] + 1

\* The version row, the reference count and latest_version.
InsertVersion(h) ==
    LET k == req[h].key
        x == req[h].pkg.sha256
        v == IssuedNumber(tx, k)
    IN
    /\ req[h].pc = "version"
    /\ tx' = [tx EXCEPT !.versions = With(@, <<k, v>>, [parent |-> tx.titles[k], sha256 |-> x]),
                        !.blobs[x].refcount = CountReference(tx, x),
                        !.titles[k] = v]
    /\ Goto(h, "commit")
    /\ UNCHANGED <<db, conn, answered, puts, gets, faults>>

CommitPut(h) ==
    LET k == req[h].key IN
    /\ req[h].pc = "commit"
    /\ db' = tx
    /\ UNCHANGED tx
    /\ Release(h)
    /\ answered' = answered \cup {[key |-> k, version |-> tx.titles[k],
                                   parent |-> req[h].parent, sha256 |-> req[h].pkg.sha256,
                                   serial |-> req[h].serial]}
    /\ Finish(h)
    /\ UNCHANGED <<puts, gets, faults>>

\* What was written before the failing statement stays.
KeepPartial(d, view) == view

\* defer tx.Rollback()
RolledBack(d, view) == d

\* An error path that forgets the rollback keeps the connection with it.
FailPutLeaks(h) ==
    /\ req[h].pc \in {"blob", "chunks", "version", "commit"}
    /\ faults < MaxFaults
    /\ faults' = faults + 1
    /\ tx' = RolledBack(db, tx)
    /\ Finish(h)
    /\ UNCHANGED <<db, conn, answered, puts, gets>>

\* A statement of the transaction fails: 500, and the package is still on the console.
FailPut(h) ==
    /\ req[h].pc \in {"blob", "chunks", "version", "commit"}
    /\ faults < MaxFaults
    /\ faults' = faults + 1
    /\ db' = RolledBack(db, tx)
    /\ tx' = RolledBack(db, tx)
    /\ Release(h)
    /\ Finish(h)
    /\ UNCHANGED <<answered, puts, gets>>

\* writeConflict looks the server's side up again for the 409.
AnswerConflict(h) ==
    /\ req[h].pc = "conflict"
    /\ OneStatement
    /\ Finish(h)
    /\ UNCHANGED <<db, tx, answered, puts, gets, faults>>

-----------------------------------------------------------------------------
(* GET /v1/titles/{tid}/blob/{v} *)

ReceiveDownload(h) ==
    /\ req[h].pc = "idle"
    /\ gets < MaxGets
    /\ \E u \in db.users, t \in Titles, v \in 1..MaxPuts :
         req' = [req EXCEPT ![h] = [pc |-> "find", key |-> <<u, t>>, version |-> v]]
    /\ gets' = gets + 1
    /\ UNCHANGED <<db, tx, conn, answered, puts, faults>>

\* Store.Version: the row says which blob to send and the headers to send before it.
FindVersion(h) ==
    LET i == <<req[h].key, req[h].version>> IN
    /\ req[h].pc = "find"
    /\ OneStatement
    /\ \/ /\ i \in DOMAIN db.versions
          /\ req' = [req EXCEPT ![h] = [pc |-> "stream", key |-> i[1], version |-> i[2],
                                        sha256 |-> db.versions[i].sha256, sent |-> 0]]
       \/ i \notin DOMAIN db.versions /\ Finish(h)
    /\ UNCHANGED <<db, tx, answered, puts, gets, faults>>

OpenBlob(h) ==
    /\ req[h].pc = "stream"
    /\ Acquire(h)
    /\ Goto(h, "streaming")
    /\ UNCHANGED <<db, tx, answered, puts, gets, faults>>

\* WriteBlobTo, a chunk at a time, as fast as the console takes them.
SendChunk(h) ==
    /\ req[h].pc = "streaming"
    /\ \/ /\ req[h].sent < db.blobs[req[h].sha256].chunks
          /\ req' = [req EXCEPT ![h].sent = @ + 1]
          /\ UNCHANGED conn
       \/ /\ req[h].sent = db.blobs[req[h].sha256].chunks
          /\ Goto(h, "served")
          /\ Release(h)
    /\ UNCHANGED <<db, tx, answered, puts, gets, faults>>

\* The console goes away, or takes longer than WriteTimeout.
CutStream(h) ==
    /\ req[h].pc = "streaming"
    /\ Release(h)
    /\ Finish(h)
    /\ UNCHANGED <<db, tx, answered, puts, gets, faults>>

EndDownload(h) ==
    /\ req[h].pc = "served"
    /\ Finish(h)
    /\ UNCHANGED <<db, tx, conn, answered, puts, gets, faults>>

-----------------------------------------------------------------------------
(* DeleteUser: ON DELETE CASCADE takes titles and versions, nothing touches *)
(* the blobs.                                                               *)

\* The cascade stops at titles.
CascadeTitlesOnly(d, u) ==
    [d EXCEPT !.users  = @ \ {u},
              !.titles = [k \in {k \in DOMAIN @ : k[1] # u} |-> @[k]]]

\* The cascade reaches every row with the title ids the user had.
CascadeByTitleId(d, u) ==
    LET gone == {k[2] : k \in {k \in DOMAIN d.titles : k[1] = u}} IN
    [d EXCEPT !.users    = @ \ {u},
              !.titles   = [k \in {k \in DOMAIN @ : k[2] \notin gone} |-> @[k]],
              !.versions = [i \in {i \in DOMAIN @ : i[1][2] \notin gone} |-> @[i]]]

Cascade(d, u) ==
    [d EXCEPT !.users    = @ \ {u},
              !.titles   = [k \in {k \in DOMAIN @ : k[1] # u} |-> @[k]],
              !.versions = [i \in {i \in DOMAIN @ : i[1][1] # u} |-> @[i]]]

DeleteUser(u) ==
    /\ u \in db.users \cap Deletable
    /\ OneStatement
    /\ db' = Cascade(db, u)
    /\ tx' = Cascade(db, u)
    /\ UNCHANGED <<req, answered, puts, gets, faults>>

\* The process dies.  What was committed is in the write-ahead log; an open
\* transaction is not.
Crash ==
    /\ \E h \in Handlers : req[h].pc # "idle"
    /\ faults < MaxFaults
    /\ faults' = faults + 1
    /\ tx' = db
    /\ conn' = Free
    /\ req' = [h \in Handlers |-> Idle]
    /\ UNCHANGED <<db, answered, puts, gets>>

-----------------------------------------------------------------------------
Serve(h) ==
    \/ CheckUpload(h) \/ BeginPut(h) \/ WriteBlob(h) \/ WriteChunk(h) \/ InsertVersion(h) \/ CommitPut(h)
    \/ AnswerConflict(h)
    \/ FindVersion(h) \/ OpenBlob(h) \/ EndDownload(h)

Next ==
    \/ \E h \in Handlers :
         \/ ReceiveUpload(h) \/ ReceiveDownload(h)
         \/ Serve(h) \/ SendChunk(h) \/ CutStream(h) \/ FailPut(h)
    \/ \E u \in Users : DeleteUser(u)
    \/ Crash

Spec == Init /\ [][Next]_vars

(***************************************************************************)
(* Fairness.  A handler that can go on does (strongly: the pool hands the  *)
(* connection to its waiters in turn), and a stream ends, because the      *)
(* console takes it or because WriteTimeout cuts it.  Requests, deletions  *)
(* and faults owe nothing.                                                 *)
(***************************************************************************)
Fairness ==
    \A h \in Handlers : SF_vars(Serve(h)) /\ WF_vars(SendChunk(h) \/ CutStream(h))

FairSpec == Spec /\ Fairness

-----------------------------------------------------------------------------
(* What makes it correct *)

\* A committed history has no holes and nothing in it is torn: every version up to
\* latest_version is there, no other one is, and each has a blob with all its chunks,
\* whatever failed or died inside a transaction.
HistoryWhole ==
    /\ \A k \in DOMAIN db.titles : \A v \in 1..db.titles[k] : <<k, v>> \in DOMAIN db.versions
    /\ \A i \in DOMAIN db.versions :
         /\ i[1] \in DOMAIN db.titles /\ i[2] <= db.titles[i[1]]
         /\ db.versions[i].sha256 \in DOMAIN db.blobs
         /\ db.blobs[db.versions[i].sha256].chunks = Chunks

References(d, x) == {i \in DOMAIN d.versions : d.versions[i].sha256 = x}

\* A blob never counts fewer references than versions use it, so collecting the blobs
\* with a count of zero cannot take one that a version, of any user, still needs.
RefcountCovers ==
    \A x \in DOMAIN db.blobs : Cardinality(References(db, x)) <= db.blobs[x].refcount

\* What the four tables say together is whole, and what the sweep may take is not needed.
TablesAgree == HistoryWhole /\ RefcountCovers

\* An upload that was answered with a version stays that version of that title, with
\* those bytes, through crashes, failed uploads and the deletion of other people.
AnsweredIsKept ==
    \A a \in answered :
        a.key[1] \in db.users =>
            /\ <<a.key, a.version>> \in DOMAIN db.versions
            /\ db.versions[<<a.key, a.version>>].sha256 = a.sha256

\* "Two consoles uploading at the same moment cannot both win" (Put): of the uploads
\* built on one version of a title at most one is taken.
OneWinner ==
    \A a, b \in answered : a.key = b.key /\ a.parent = b.parent => a = b

\* A download that ran to its end carried the payload that was uploaded as that version,
\* in a whole package that some upload was answered for, and nothing a failed transaction
\* left.  That need not be the package of that version's own upload: insertBlob keeps the
\* first one with a payload, whoever sent it (ServedUnderItsTitle, below).
ServedIsThatPayload ==
    \A h \in Handlers, a \in answered :
        /\ req[h].pc = "served"
        /\ req[h].key = a.key /\ req[h].version = a.version
        => /\ req[h].sha256 = a.sha256 /\ req[h].sent = Chunks
           /\ \E b \in answered :
                b.sha256 = a.sha256 /\ b.serial = db.blobs[a.sha256].serial

\* Per title, the committed history is the append-only log of VersionLog.
Log == INSTANCE VersionLog WITH
    log <- [k \in Keys |->
              [v \in 1..(IF k \in DOMAIN db.titles THEN db.titles[k] ELSE 0) |->
                 db.versions[<<k, v>>]]]

ImplementsVersionLog == Log!Spec

\* Every request is answered or cut: no handler waits forever for the connection.
EveryRequestEnds == \A h \in Handlers : (req[h].pc # "idle") ~> (req[h].pc = "idle")

-----------------------------------------------------------------------------
(* Said by comments of the code, and not so: TLC refutes each of these.    *)

\* upload's reason to verify: "a package the server keeps is one it will hand back to a
\* console later".  A console takes a package back only under its own title.
ServedUnderItsTitle ==
    \A h \in Handlers :
        req[h].pc = "served" => db.blobs[req[h].sha256].manifest = req[h].key[2]

\* DeleteUser: the blobs "are reference counted and collected later", which needs the
\* count of a blob that no version uses any more to reach zero.
UnusedBlobsCountZero ==
    \A x \in DOMAIN db.blobs : References(db, x) = {} => db.blobs[x].refcount = 0

\* Open: WAL "so a reader streaming a blob out does not block an upload".
ReaderDoesNotBlockUpload ==
    ~ \E g, h \in Handlers : req[g].pc = "streaming" /\ req[h].pc = "put" /\ conn = g

=============================================================================
