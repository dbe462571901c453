--------------------------- MODULE SaveStoreProofs ---------------------------
(***************************************************************************)
(* Theorems of SaveStore for any users, titles, digests and handlers, any  *)
(* number of chunks and any bounds: what the tables say together, what an  *)
(* answered upload may rely on, what a download carries, and that the      *)
(* database implements the promise of VersionLog.                          *)
(***************************************************************************)
EXTENDS SaveStore, FiniteSetTheorems, SequenceTheorems, TLAPS

-----------------------------------------------------------------------------
(***************************************************************************)
(* The tables, and what each statement makes of them.                      *)
(***************************************************************************)

\* The functions on some of S with values in R.
Partial(S, R) == UNION {[D -> R] : D \in SUBSET S}

Numbers == Keys \X (Nat \ {0})

Database == [users: SUBSET Users, titles: Partial(Keys, Nat),
             versions: Partial(Numbers, VersionRows), blobs: Partial(Digests, BlobRows)]

\* A table is a function on its own domain.
LEMMA PartialIs ==
    ASSUME NEW S, NEW R, NEW f
    PROVE  f \in Partial(S, R) <=> DOMAIN f \subseteq S /\ f \in [DOMAIN f -> R]
  BY DEF Partial

\* What a database is made of.
LEMMA DatabaseIs ==
    ASSUME NEW d \in Database
    PROVE  /\ d.users \subseteq Users
           /\ DOMAIN d.titles \subseteq Keys /\ d.titles \in [DOMAIN d.titles -> Nat]
           /\ DOMAIN d.versions \subseteq Numbers
           /\ d.versions \in [DOMAIN d.versions -> VersionRows]
           /\ DOMAIN d.blobs \subseteq Digests /\ d.blobs \in [DOMAIN d.blobs -> BlobRows]
           /\ \A i \in DOMAIN d.versions : d.versions[i].sha256 \in Digests
           /\ \A x \in DOMAIN d.blobs : d.blobs[x].refcount \in Nat
                                        /\ d.blobs[x].chunks \in 0 .. Chunks
  <1>1. /\ d.users \in SUBSET Users /\ d.titles \in Partial(Keys, Nat)
        /\ d.versions \in Partial(Numbers, VersionRows) /\ d.blobs \in Partial(Digests, BlobRows)
    BY DEF Database
  <1>2. /\ DOMAIN d.titles \subseteq Keys /\ d.titles \in [DOMAIN d.titles -> Nat]
        /\ DOMAIN d.versions \subseteq Numbers /\ d.versions \in [DOMAIN d.versions -> VersionRows]
        /\ DOMAIN d.blobs \subseteq Digests /\ d.blobs \in [DOMAIN d.blobs -> BlobRows]
    BY <1>1, PartialIs
  <1>3. \A i \in DOMAIN d.versions : d.versions[i].sha256 \in Digests
    <2>1. \A r \in VersionRows : r.sha256 \in Digests
      BY DEF VersionRows
    <2> QED
      BY <1>2, <2>1
  <1>4. \A x \in DOMAIN d.blobs : d.blobs[x].refcount \in Nat /\ d.blobs[x].chunks \in 0 .. Chunks
    <2>1. \A r \in BlobRows : r.refcount \in Nat /\ r.chunks \in 0 .. Chunks
      BY DEF BlobRows
    <2> QED
      BY <1>2, <2>1
  <1> QED
    BY <1>1, <1>2, <1>3, <1>4

\* A table with one more row, or another row for its key.
LEMMA WithRow ==
    ASSUME NEW S, NEW R, NEW f \in Partial(S, R), NEW x \in S, NEW y \in R
    PROVE  /\ With(f, x, y) \in Partial(S, R)
           /\ DOMAIN With(f, x, y) = DOMAIN f \cup {x}
           /\ With(f, x, y)[x] = y
           /\ \A z \in DOMAIN f : z # x => With(f, x, y)[z] = f[z]
  <1>1. DOMAIN f \subseteq S /\ f \in [DOMAIN f -> R]
    BY PartialIs
  <1>2. DOMAIN With(f, x, y) = DOMAIN f \cup {x}
        /\ With(f, x, y) \in [DOMAIN f \cup {x} -> R]
    BY <1>1 DEF With
  <1>3. With(f, x, y) \in Partial(S, R)
    BY <1>1, <1>2, PartialIs
  <1> QED
    BY <1>2, <1>3 DEF With

\* BeginPut's row for a title not seen before.
LEMMA NewTitle ==
    ASSUME NEW d \in Database, NEW k \in Keys
    PROVE  LET e == [d EXCEPT !.titles = With(@, k, 0)]
           IN  /\ e \in Database
               /\ e.users = d.users /\ e.versions = d.versions /\ e.blobs = d.blobs
               /\ e.titles = With(d.titles, k, 0)
  <1>1. d.titles \in Partial(Keys, Nat)
    BY DEF Database
  <1>2. With(d.titles, k, 0) \in Partial(Keys, Nat)
    BY <1>1, WithRow
  <1> QED
    BY <1>2 DEF Database

\* insertBlob's row ...
LEMMA NewBlob ==
    ASSUME NEW d \in Database, NEW x \in Digests, NEW row \in BlobRows
    PROVE  LET e == [d EXCEPT !.blobs = With(@, x, row)]
           IN  /\ e \in Database
               /\ e.users = d.users /\ e.versions = d.versions /\ e.titles = d.titles
               /\ e.blobs = With(d.blobs, x, row)
  <1>1. d.blobs \in Partial(Digests, BlobRows)
    BY DEF Database
  <1>2. With(d.blobs, x, row) \in Partial(Digests, BlobRows)
    BY <1>1, WithRow
  <1> QED
    BY <1>2 DEF Database

\* ... and a chunk of it.
LEMMA NewChunk ==
    ASSUME NEW d \in Database, NEW x \in DOMAIN d.blobs, d.blobs[x].chunks < Chunks
    PROVE  LET e == [d EXCEPT !.blobs[x].chunks = @ + 1]
           IN  /\ e \in Database
               /\ e.users = d.users /\ e.versions = d.versions /\ e.titles = d.titles
               /\ DOMAIN e.blobs = DOMAIN d.blobs
               /\ e.blobs[x].refcount = d.blobs[x].refcount
               /\ e.blobs[x].serial = d.blobs[x].serial
               /\ \A y \in DOMAIN d.blobs : y # x => e.blobs[y] = d.blobs[y]
  <1> DEFINE row == [d.blobs[x] EXCEPT !.chunks = d.blobs[x].chunks + 1]
             b   == [d.blobs EXCEPT ![x] = row]
  <1>1. d.blobs[x] \in BlobRows /\ d.blobs \in [DOMAIN d.blobs -> BlobRows]
        /\ DOMAIN d.blobs \subseteq Digests
    BY DatabaseIs
  <1>2. row \in BlobRows /\ row.refcount = d.blobs[x].refcount
        /\ row.serial = d.blobs[x].serial
    BY <1>1, StoreBounds DEF BlobRows
  <1> HIDE DEF row
  <1>3. b \in [DOMAIN d.blobs -> BlobRows] /\ DOMAIN b = DOMAIN d.blobs
    BY <1>1, <1>2
  <1>4. b \in Partial(Digests, BlobRows)
    BY <1>1, <1>3, PartialIs
  <1>5. b[x] = row /\ \A y \in DOMAIN d.blobs : y # x => b[y] = d.blobs[y]
    BY <1>1
  <1> HIDE DEF b
  <1>6. [d EXCEPT !.blobs[x].chunks = @ + 1] = [d EXCEPT !.blobs = b]
    BY DEF b, row
  <1>7. LET e == [d EXCEPT !.blobs = b]
        IN  /\ e \in Database /\ e.blobs = b
            /\ e.users = d.users /\ e.versions = d.versions /\ e.titles = d.titles
    BY <1>4 DEF Database
  <1> QED
    BY <1>2, <1>3, <1>5, <1>6, <1>7

\* The three statements that make a version.
Inserted(d, k, v, r, x, n) ==
    [d EXCEPT !.versions = With(@, <<k, v>>, r), !.blobs[x].refcount = n, !.titles[k] = v]

\* They touch one title, one number and one blob's count.
LEMMA NewVersion ==
    ASSUME NEW d \in Database, NEW k \in DOMAIN d.titles, NEW x \in DOMAIN d.blobs,
           NEW v \in Nat \ {0}, NEW r \in VersionRows, NEW n \in Nat
    PROVE  LET e == Inserted(d, k, v, r, x, n)
           IN  /\ e \in Database
               /\ e.users = d.users /\ e.versions = With(d.versions, <<k, v>>, r)
               /\ DOMAIN e.titles = DOMAIN d.titles /\ e.titles[k] = v
               /\ \A j \in DOMAIN d.titles : j # k => e.titles[j] = d.titles[j]
               /\ DOMAIN e.blobs = DOMAIN d.blobs
               /\ e.blobs[x].refcount = n /\ e.blobs[x].chunks = d.blobs[x].chunks
               /\ e.blobs[x].serial = d.blobs[x].serial
               /\ \A y \in DOMAIN d.blobs : y # x => e.blobs[y] = d.blobs[y]
  <1> DEFINE row == [d.blobs[x] EXCEPT !.refcount = n]
             b   == [d.blobs EXCEPT ![x] = row]
             w   == With(d.versions, <<k, v>>, r)
             t   == [d.titles EXCEPT ![k] = v]
  <1>1. d.blobs[x] \in BlobRows /\ d.blobs \in [DOMAIN d.blobs -> BlobRows]
        /\ DOMAIN d.blobs \subseteq Digests
    BY DatabaseIs
  <1>2. row \in BlobRows /\ row.refcount = n /\ row.chunks = d.blobs[x].chunks
        /\ row.serial = d.blobs[x].serial
    BY <1>1 DEF BlobRows
  <1> HIDE DEF row
  <1>3. b \in [DOMAIN d.blobs -> BlobRows] /\ DOMAIN b = DOMAIN d.blobs
        /\ b[x] = row /\ \A y \in DOMAIN d.blobs : y # x => b[y] = d.blobs[y]
    BY <1>1, <1>2
  <1>4. b \in Partial(Digests, BlobRows)
    BY <1>1, <1>3, PartialIs
  <1>5. d.titles \in [DOMAIN d.titles -> Nat] /\ DOMAIN d.titles \subseteq Keys
    BY DatabaseIs
  <1>6. DOMAIN t = DOMAIN d.titles /\ t \in [DOMAIN t -> Nat]
        /\ t[k] = v /\ \A j \in DOMAIN d.titles : j # k => t[j] = d.titles[j]
    BY <1>5
  <1>7. t \in Partial(Keys, Nat)
    BY <1>5, <1>6, PartialIs
  <1>8. d.versions \in Partial(Numbers, VersionRows)
    BY DEF Database
  <1>9. <<k, v>> \in Numbers
    BY <1>5 DEF Numbers
  <1>10. w \in Partial(Numbers, VersionRows)
    BY <1>8, <1>9, WithRow
  <1> HIDE DEF b, w, t
  <1>11. Inserted(d, k, v, r, x, n) = [d EXCEPT !.versions = w, !.blobs = b, !.titles = t]
    BY DEF Inserted, b, w, t, row
  <1>12. LET e == [d EXCEPT !.versions = w, !.blobs = b, !.titles = t]
         IN  /\ e \in Database
             /\ e.users = d.users /\ e.versions = w /\ e.titles = t /\ e.blobs = b
    BY <1>4, <1>7, <1>10 DEF Database
  <1> QED
    BY <1>2, <1>3, <1>6, <1>11, <1>12 DEF w

\* A person is deleted, and the cascade.
LEMMA Cascaded ==
    ASSUME NEW d \in Database, NEW u
    PROVE  /\ Cascade(d, u) \in Database
           /\ Cascade(d, u).users = d.users \ {u} /\ Cascade(d, u).blobs = d.blobs
           /\ DOMAIN Cascade(d, u).titles = {k \in DOMAIN d.titles : k[1] # u}
           /\ \A k \in DOMAIN Cascade(d, u).titles : Cascade(d, u).titles[k] = d.titles[k]
           /\ DOMAIN Cascade(d, u).versions = {i \in DOMAIN d.versions : i[1][1] # u}
           /\ \A i \in DOMAIN Cascade(d, u).versions :
                 Cascade(d, u).versions[i] = d.versions[i]
  <1> DEFINE n == d.users \ {u}
             t == [k \in {k \in DOMAIN d.titles : k[1] # u} |-> d.titles[k]]
             w == [i \in {i \in DOMAIN d.versions : i[1][1] # u} |-> d.versions[i]]
  <1>1. DOMAIN t \subseteq Keys /\ t \in [DOMAIN t -> Nat]
        /\ DOMAIN t = {k \in DOMAIN d.titles : k[1] # u}
        /\ \A k \in DOMAIN t : t[k] = d.titles[k]
    BY DatabaseIs
  <1>2. DOMAIN w \subseteq Numbers /\ w \in [DOMAIN w -> VersionRows]
        /\ DOMAIN w = {i \in DOMAIN d.versions : i[1][1] # u}
        /\ \A i \in DOMAIN w : w[i] = d.versions[i]
    BY DatabaseIs
  <1>3. n \in SUBSET Users
    BY DatabaseIs
  <1>4. Cascade(d, u) = [d EXCEPT !.users = n, !.titles = t, !.versions = w]
    BY DEF Cascade
  <1> HIDE DEF n, t, w
  <1>5. t \in Partial(Keys, Nat) /\ w \in Partial(Numbers, VersionRows)
    BY <1>1, <1>2, PartialIs
  <1>6. LET e == [d EXCEPT !.users = n, !.titles = t, !.versions = w]
        IN  /\ e \in Database
            /\ e.users = n /\ e.titles = t /\ e.versions = w /\ e.blobs = d.blobs
    BY <1>3, <1>5 DEF Database
  <1> QED
    BY <1>1, <1>2, <1>4, <1>6 DEF n

-----------------------------------------------------------------------------
(***************************************************************************)
(* The invariant.                                                          *)
(***************************************************************************)

Writing == {"blob", "chunks", "version", "commit"}      \* pcs inside a transaction

Puts    == [pc: {"staged", "put", "conflict"} \cup Writing, key: Keys, parent: Nat,
            pkg: Packages, serial: Nat]
Finds   == [pc: {"find"}, key: Keys, version: Nat]
Streams == [pc: {"stream", "streaming", "served"}, key: Keys, version: Nat, sha256: Digests,
            sent: Nat]

Requests == {Idle} \cup Puts \cup Finds \cup Streams

Answers == [key: Keys, version: Nat \ {0}, parent: Nat, sha256: Digests, serial: Nat]

RequestsType == req \in [Handlers -> Requests]

Connection ==
    /\ conn \in Handlers \cup {Free}
    /\ \A h \in Handlers : req[h].pc \in Holding <=> conn = h

Types ==
    /\ db \in Database /\ tx \in Database
    /\ RequestsType /\ Connection
    /\ answered \subseteq Answers
    /\ puts \in 0 .. MaxPuts /\ gets \in 0 .. MaxGets /\ faults \in 0 .. MaxFaults

\* The number of a title's newest version, 0 when there is none.
Latest(d, k) == IF k \in DOMAIN d.titles THEN d.titles[k] ELSE 0

\* What a transaction has done to the titles, for the upload r that is to be version n.
Titled(r, n) ==
    /\ tx.users = db.users /\ r.key[1] \in db.users
    /\ Latest(db, r.key) = r.parent
    /\ DOMAIN tx.titles = DOMAIN db.titles \cup {r.key}
    /\ tx.titles[r.key] = n
    /\ \A j \in DOMAIN db.titles : j # r.key => tx.titles[j] = db.titles[j]

\* A blob's count, 0 when there is none.
References0(d, x) == IF x \in DOMAIN d.blobs THEN d.blobs[x].refcount ELSE 0

\* ... and to the blobs, once its own is there, whole or not, with n references.
Stored(r, n) ==
    LET x == r.pkg.sha256
    IN  /\ DOMAIN tx.blobs = DOMAIN db.blobs \cup {x}
        /\ tx.blobs[x].refcount = n
        /\ x \in DOMAIN db.blobs => tx.blobs[x].chunks = db.blobs[x].chunks
        /\ \A y \in DOMAIN db.blobs : y # x => tx.blobs[y] = db.blobs[y]

\* A transaction's view differs from what is committed by what its upload has written.
InTransaction(r) ==
    LET x == r.pkg.sha256
    IN  /\ r.pc \in {"blob", "chunks", "version"} =>
              Titled(r, r.parent) /\ tx.versions = db.versions
        /\ r.pc = "blob" => tx.blobs = db.blobs
        /\ r.pc \in {"chunks", "version"} => Stored(r, References0(db, x))
        /\ r.pc = "chunks" => x \notin DOMAIN db.blobs
        /\ r.pc \in {"version", "commit"} => tx.blobs[x].chunks = Chunks
        /\ r.pc = "commit" =>
              /\ Titled(r, r.parent + 1) /\ Stored(r, References0(db, x) + 1)
              /\ tx.versions = With(db.versions, <<r.key, r.parent + 1>>,
                                    [parent |-> r.parent, sha256 |-> x])

Transaction ==
    /\ (\A h \in Handlers : req[h].pc \notin Writing) => tx = db
    /\ \A h \in Handlers : req[h].pc \in Writing => InTransaction(req[h])

\* The foreign keys, the numbering, and blobs that are all there.
Whole(d) ==
    /\ \A k \in DOMAIN d.titles : k[1] \in d.users
    /\ \A k \in DOMAIN d.titles : \A v \in 1 .. d.titles[k] : <<k, v>> \in DOMAIN d.versions
    /\ \A i \in DOMAIN d.versions : i[1] \in DOMAIN d.titles /\ i[2] <= d.titles[i[1]]
    /\ \A i \in DOMAIN d.versions : d.versions[i].sha256 \in DOMAIN d.blobs
    /\ \A x \in DOMAIN d.blobs : d.blobs[x].chunks = Chunks

Counted(d) ==
    /\ IsFiniteSet(DOMAIN d.versions)
    /\ \A x \in DOMAIN d.blobs : Cardinality(References(d, x)) <= d.blobs[x].refcount

\* a is the answer that made a version number of a key that version.
IsAnswer(a, key, version, sha256) == a.key = key /\ a.version = version /\ a.sha256 = sha256

\* An answer is of the version after the one it was built on; those of people who are
\* still there are kept, and every version there is was answered.
Answered ==
    /\ \A a \in answered : a.version = a.parent + 1
    /\ AnsweredIsKept /\ OneWinner
    /\ \A i \in DOMAIN db.versions :
          \E a \in answered : IsAnswer(a, i[1], i[2], db.versions[i].sha256)

\* A download that found its version sends the bytes that version was answered with, although
\* the version may be gone by then with its owner.
Sending ==
    \A h \in Handlers : req[h].pc \in {"stream", "streaming", "served"} =>
        /\ \E a \in answered : IsAnswer(a, req[h].key, req[h].version, req[h].sha256)
        /\ req[h].sha256 \in DOMAIN db.blobs
        /\ req[h].pc = "served" => req[h].sent = Chunks

StoreInv == Types /\ Transaction /\ Whole(db) /\ Counted(db) /\ Answered /\ Sending

\* At the start nothing is stored and nobody is served.
LEMMA InitStore == Init => StoreInv
  <1> SUFFICES ASSUME Init PROVE StoreInv
    OBVIOUS
  <1>1. NothingStored \in Database
    <2>1. \A S, R : <<>> \in Partial(S, R)
      BY DEF Partial
    <2> QED
      BY <2>1 DEF NothingStored, Database
  <1>2. Types
    BY <1>1, StoreBounds, NobodyIsFree
    DEF Init, Types, RequestsType, Requests, Connection, Holding, Idle
  <1>3. Transaction /\ Sending
    BY DEF Init, Transaction, Sending, Idle, Writing
  <1>4. DOMAIN db.titles = {} /\ DOMAIN db.versions = {} /\ DOMAIN db.blobs = {}
    BY DEF Init, NothingStored
  <1>5. Whole(db) /\ Answered
    BY <1>4 DEF Init, Whole, Answered, AnsweredIsKept, OneWinner
  <1>6. Counted(db)
    BY <1>4, FS_EmptySet DEF Counted
  <1> QED
    BY <1>2, <1>3, <1>5, <1>6 DEF StoreInv

-----------------------------------------------------------------------------
(***************************************************************************)
(* The requests, and who has the connection.                               *)
(***************************************************************************)

\* What a handler is doing tells what it holds of its request.
LEMMA ByPc ==
    ASSUME RequestsType, NEW h \in Handlers
    PROVE  /\ req[h] \in Requests
           /\ req[h].pc \in {"staged", "put", "conflict"} \cup Writing => req[h] \in Puts
           /\ req[h].pc = "find" => req[h] \in Finds
           /\ req[h].pc \in {"stream", "streaming", "served"} => req[h] \in Streams
  <1>1. req[h] \in Requests
    BY DEF RequestsType
  <1>2. CASE req[h] = Idle
    BY <1>1, <1>2 DEF Idle, Writing
  <1>3. CASE req[h] \in Puts
    BY <1>1, <1>3 DEF Puts, Writing
  <1>4. CASE req[h] \in Finds
    BY <1>1, <1>4 DEF Finds, Writing
  <1>5. CASE req[h] \in Streams
    BY <1>1, <1>5 DEF Streams, Writing
  <1> QED
    BY <1>1, <1>2, <1>3, <1>4, <1>5 DEF Requests

\* One handler's request changes and the others' do not.
Moves(h, r) == r \in Requests /\ req' = [req EXCEPT ![h] = r]

\* The one that moved is what it moved to, and the others are as they were.
LEMMA Moved ==
    ASSUME RequestsType, NEW h \in Handlers, NEW r, Moves(h, r)
    PROVE  RequestsType' /\ req'[h] = r /\ \A g \in Handlers : g # h => req'[g] = req[g]
  BY DEF RequestsType, Moves

\* An upload goes on, ...
LEMMA PutGoes ==
    ASSUME RequestsType, NEW h \in Handlers, req[h] \in Puts,
           NEW l \in {"put", "conflict"} \cup Writing, Goto(h, l)
    PROVE  \E r \in Puts : /\ Moves(h, r) /\ r.pc = l /\ r.key = req[h].key
                           /\ r.parent = req[h].parent /\ r.pkg = req[h].pkg
  <1> DEFINE r == [req[h] EXCEPT !.pc = l]
  <1>1. r \in Puts /\ r.pc = l /\ r.key = req[h].key /\ r.parent = req[h].parent
        /\ r.pkg = req[h].pkg
    BY DEF Puts, Writing
  <1>2. req' = [req EXCEPT ![h] = r]
    BY DEF Goto
  <1> HIDE DEF r
  <1> QED
    BY <1>1, <1>2 DEF Moves, Requests

\* ... a download goes on, ...
LEMMA StreamGoes ==
    ASSUME RequestsType, NEW h \in Handlers, req[h] \in Streams,
           NEW l \in {"streaming", "served"}, Goto(h, l)
    PROVE  \E r \in Streams : /\ Moves(h, r) /\ r.pc = l /\ r.key = req[h].key
                              /\ r.version = req[h].version /\ r.sha256 = req[h].sha256
                              /\ r.sent = req[h].sent
  <1> DEFINE r == [req[h] EXCEPT !.pc = l]
  <1>1. r \in Streams /\ r.pc = l /\ r.key = req[h].key /\ r.version = req[h].version
        /\ r.sha256 = req[h].sha256 /\ r.sent = req[h].sent
    BY DEF Streams
  <1>2. req' = [req EXCEPT ![h] = r]
    BY DEF Goto
  <1> HIDE DEF r
  <1> QED
    BY <1>1, <1>2 DEF Moves, Requests

\* ... and either ends.
LEMMA Finished ==
    ASSUME NEW h \in Handlers, Finish(h)
    PROVE  Moves(h, Idle) /\ Idle.pc = "idle"
  BY DEF Finish, Moves, Requests, Idle

\* The connection is left as it is, taken, or given back.
Passes(h, r) ==
    \/ conn' = conn /\ (r.pc \in Holding <=> req[h].pc \in Holding)
    \/ Acquire(h) /\ r.pc \in Holding
    \/ Release(h) /\ r.pc \notin Holding

\* Whoever is inside a transaction or a stream has the connection, and nobody else.
LEMMA ConnectionKept ==
    ASSUME RequestsType, Connection, NEW h \in Handlers, NEW r, Moves(h, r), Passes(h, r)
    PROVE  Connection'
  <1>1. req'[h] = r /\ \A g \in Handlers : g # h => req'[g] = req[g]
    BY Moved
  <1>2. CASE conn' = conn /\ (r.pc \in Holding <=> req[h].pc \in Holding)
    BY <1>1, <1>2 DEF Connection
  <1>3. CASE Acquire(h) /\ r.pc \in Holding
    BY <1>1, <1>3, NobodyIsFree DEF Connection, Acquire
  <1>4. CASE Release(h) /\ r.pc \notin Holding
    BY <1>1, <1>4, NobodyIsFree DEF Connection, Release
  <1> QED
    BY <1>2, <1>3, <1>4 DEF Passes

\* There is one transaction at a time.
LEMMA OneWriter ==
    ASSUME Connection, NEW h \in Handlers, conn \in {h, Free}, NEW g \in Handlers,
           req[g].pc \in Writing
    PROVE  g = h
  BY NobodyIsFree DEF Connection, Holding, Writing

Counters == puts \in 0 .. MaxPuts /\ gets \in 0 .. MaxGets /\ faults \in 0 .. MaxFaults

\* What the invariant says of a download.
Sends(r) ==
    r.pc \in {"stream", "streaming", "served"} =>
        /\ \E a \in answered : IsAnswer(a, r.key, r.version, r.sha256)
        /\ r.sha256 \in DOMAIN db.blobs
        /\ r.pc = "served" => r.sent = Chunks

\* A step of a request outside a transaction.
LEMMA Quiet ==
    ASSUME StoreInv, NEW h \in Handlers, NEW r, Moves(h, r), Passes(h, r),
           UNCHANGED <<db, tx, answered>>, Counters',
           req[h].pc \notin Writing, r.pc \notin Writing, Sends(r)
    PROVE  StoreInv'
  <1>1. RequestsType' /\ req'[h] = r /\ \A g \in Handlers : g # h => req'[g] = req[g]
    BY Moved DEF StoreInv, Types
  <1>2. Types'
    BY <1>1, ConnectionKept DEF StoreInv, Types, Counters
  <1>3. Transaction'
    <2>1. ASSUME NEW g \in Handlers, req'[g].pc \in Writing
          PROVE  InTransaction(req[g])'
      <3>1. g # h /\ req'[g] = req[g]
        BY <1>1, <2>1
      <3> QED
        BY <2>1, <3>1 DEF StoreInv, Transaction, InTransaction, Titled, Stored
    <2>2. (\A g \in Handlers : req'[g].pc \notin Writing) => tx' = db'
      BY <1>1 DEF StoreInv, Transaction
    <2> QED
      BY <2>1, <2>2 DEF Transaction
  <1>4. Sending'
    BY <1>1 DEF StoreInv, Sending, Sends
  <1>5. Whole(db)' /\ Counted(db)' /\ Answered'
    BY DEF StoreInv, Answered, AnsweredIsKept, OneWinner
  <1> QED
    BY <1>2, <1>3, <1>4, <1>5 DEF StoreInv

\* A statement of a transaction.
LEMMA Statement ==
    ASSUME StoreInv, NEW h \in Handlers, NEW r, Moves(h, r), Passes(h, r), conn' = h,
           UNCHANGED <<db, answered, puts, gets, faults>>, tx' \in Database,
           r.pc \in Writing, InTransaction(r)'
    PROVE  StoreInv'
  <1>1. RequestsType' /\ req'[h] = r /\ \A g \in Handlers : g # h => req'[g] = req[g]
    BY Moved DEF StoreInv, Types
  <1>2. Connection'
    BY ConnectionKept DEF StoreInv, Types
  <1>3. Types'
    BY <1>1, <1>2 DEF StoreInv, Types
  <1>4. Transaction'
    <2>1. ASSUME NEW g \in Handlers, req'[g].pc \in Writing
          PROVE  InTransaction(req[g])'
      <3>1. g = h /\ req'[g] = r
        BY <1>1, <1>2, <2>1 DEF Connection, Holding, Writing
      <3> QED
        BY <3>1 DEF InTransaction, Titled, Stored, Latest, References0
    <2> QED
      BY <1>1, <2>1 DEF Transaction
  <1>5. Sending'
    BY <1>1 DEF StoreInv, Sending, Writing
  <1>6. Whole(db)' /\ Counted(db)' /\ Answered'
    BY DEF StoreInv, Answered, AnsweredIsKept, OneWinner
  <1> QED
    BY <1>3, <1>4, <1>5, <1>6 DEF StoreInv

-----------------------------------------------------------------------------
(***************************************************************************)
(* The steps.                                                              *)
(***************************************************************************)

\* An upload outside its transaction.
LEMMA UploadOutside ==
    ASSUME StoreInv, NEW h \in Handlers,
           \/ ReceiveUpload(h) \/ CheckUpload(h) \/ AnswerConflict(h)
           \/ BeginPut(h) /\ conn' = conn
    PROVE  StoreInv'
  <1> USE DEF StoreInv, Types
  <1>1. CASE ReceiveUpload(h)
    <2>1. PICK u \in db.users, t \in Titles, p \in 0 .. MaxParent, pkg \in Packages :
             req' = [req EXCEPT ![h] = [pc |-> "staged", key |-> <<u, t>>, parent |-> p,
                                        pkg |-> pkg, serial |-> puts + 1]]
      BY <1>1 DEF ReceiveUpload
    <2> DEFINE r == [pc |-> "staged", key |-> <<u, t>>, parent |-> p, pkg |-> pkg,
                     serial |-> puts + 1]
    <2>2. <<u, t>> \in Keys
      BY DatabaseIs DEF Keys
    <2>3. p \in Nat /\ puts + 1 \in Nat
      BY StoreBounds
    <2>4. r \in Puts
      BY <2>2, <2>3 DEF Puts
    <2>5. r.pc = "staged" /\ req' = [req EXCEPT ![h] = r]
      BY <2>1
    <2> HIDE DEF r
    <2>6. Moves(h, r)
      BY <2>4, <2>5 DEF Moves, Requests
    <2>7. Counters'
      BY <1>1, StoreBounds DEF ReceiveUpload, Counters
    <2>8. Passes(h, r) /\ Sends(r) /\ r.pc \notin Writing /\ req[h].pc \notin Writing
      BY <1>1, <2>5 DEF ReceiveUpload, Passes, Holding, Sends, Writing
    <2> QED
      BY <1>1, <2>6, <2>7, <2>8, Quiet DEF ReceiveUpload
  <1>2. CASE CheckUpload(h) \/ AnswerConflict(h) \/ (BeginPut(h) /\ conn' = conn)
    <2>1. req[h] \in Puts /\ req[h].pc \in {"staged", "conflict", "put"}
      BY <1>2, ByPc DEF CheckUpload, AnswerConflict, BeginPut
    <2>2. \E l \in {"put", "conflict"} : Goto(h, l) \/ Finish(h)
      BY <1>2, NobodyIsFree DEF CheckUpload, AnswerConflict, BeginPut, Acquire
    <2>3. UNCHANGED <<db, tx, answered, conn, puts, gets, faults>>
      BY <1>2, NobodyIsFree
      DEF CheckUpload, AnswerConflict, BeginPut, OneStatement, Acquire
    <2>4. \E r : Moves(h, r) /\ r.pc \in {"put", "conflict", "idle"}
      BY <2>1, <2>2, PutGoes, Finished
    <2>5. PICK r : Moves(h, r) /\ r.pc \in {"put", "conflict", "idle"}
      BY <2>4
    <2>6. Passes(h, r) /\ Sends(r) /\ r.pc \notin Writing /\ req[h].pc \notin Writing
      BY <2>1, <2>3, <2>5 DEF Passes, Holding, Sends, Writing
    <2> QED
      BY <2>3, <2>5, <2>6, Quiet DEF Counters
  <1> QED
    BY <1>1, <1>2

\* A download, from the request to its end.
LEMMA DownloadSteps ==
    ASSUME StoreInv, NEW h \in Handlers,
           \/ ReceiveDownload(h) \/ FindVersion(h) \/ OpenBlob(h) \/ SendChunk(h)
           \/ CutStream(h) \/ EndDownload(h)
    PROVE  StoreInv'
  <1> USE DEF StoreInv, Types
  <1>1. CASE ReceiveDownload(h)
    <2>1. PICK u \in db.users, t \in Titles, v \in 1 .. MaxPuts :
             req' = [req EXCEPT ![h] = [pc |-> "find", key |-> <<u, t>>, version |-> v]]
      BY <1>1 DEF ReceiveDownload
    <2> DEFINE r == [pc |-> "find", key |-> <<u, t>>, version |-> v]
    <2>2. <<u, t>> \in Keys
      BY DatabaseIs DEF Keys
    <2>3. r \in Finds
      BY <2>2, StoreBounds DEF Finds
    <2>4. r.pc = "find" /\ req' = [req EXCEPT ![h] = r]
      BY <2>1
    <2> HIDE DEF r
    <2>5. Moves(h, r)
      BY <2>3, <2>4 DEF Moves, Requests
    <2>6. Counters'
      BY <1>1, StoreBounds DEF ReceiveDownload, Counters
    <2>7. Passes(h, r) /\ Sends(r) /\ r.pc \notin Writing /\ req[h].pc \notin Writing
      BY <1>1, <2>4 DEF ReceiveDownload, Passes, Holding, Sends, Writing
    <2> QED
      BY <1>1, <2>5, <2>6, <2>7, Quiet DEF ReceiveDownload
  <1>2. CASE FindVersion(h)
    <2> DEFINE i == <<req[h].key, req[h].version>>
               r == [pc |-> "stream", key |-> i[1], version |-> i[2],
                     sha256 |-> db.versions[i].sha256, sent |-> 0]
    <2>0. req[h].pc = "find" /\ UNCHANGED <<conn, db, tx, answered, puts, gets, faults>>
      BY <1>2 DEF FindVersion, OneStatement
    <2>1. CASE i \in DOMAIN db.versions
      <3>1. req' = [req EXCEPT ![h] = r]
        BY <1>2, <2>1 DEF FindVersion
      <3>2. i[1] \in Keys /\ i[2] \in Nat /\ db.versions[i].sha256 \in Digests
        BY <2>0, <2>1, ByPc, DatabaseIs DEF Finds
      <3>3. r \in Streams
        BY <3>2 DEF Streams
      <3>4. r.pc = "stream" /\ r.key = i[1] /\ r.version = i[2]
            /\ r.sha256 = db.versions[i].sha256
        OBVIOUS
      <3> HIDE DEF r
      <3>5. Moves(h, r)
        BY <3>1, <3>3 DEF Moves, Requests
      <3>6. Sends(r)
        BY <2>1, <3>4 DEF Sends, Answered, Whole
      <3>7. Passes(h, r) /\ r.pc \notin Writing /\ req[h].pc \notin Writing
        BY <2>0, <3>4 DEF Passes, Holding, Writing
      <3> QED
        BY <2>0, <3>5, <3>6, <3>7, Quiet DEF Counters
    <2>2. CASE i \notin DOMAIN db.versions
      <3>1. Moves(h, Idle) /\ Idle.pc = "idle"
        BY <1>2, <2>2, Finished DEF FindVersion
      <3>2. Passes(h, Idle) /\ Sends(Idle) /\ Idle.pc \notin Writing /\ req[h].pc \notin Writing
        BY <2>0, <3>1 DEF Passes, Holding, Sends, Writing
      <3> QED
        BY <2>0, <3>1, <3>2, Quiet DEF Counters
    <2> QED
      BY <2>1, <2>2
  <1>3. CASE OpenBlob(h)
    <2>1. req[h] \in Streams /\ req[h].pc = "stream"
      BY <1>3, ByPc DEF OpenBlob
    <2>2. PICK r \in Streams : /\ Moves(h, r) /\ r.pc = "streaming" /\ r.key = req[h].key
                               /\ r.version = req[h].version /\ r.sha256 = req[h].sha256
      BY <1>3, <2>1, StreamGoes DEF OpenBlob
    <2>3. Sends(r) /\ Passes(h, r) /\ r.pc \notin Writing /\ req[h].pc \notin Writing
      BY <1>3, <2>1, <2>2 DEF OpenBlob, Sending, Sends, Passes, Holding, Writing
    <2> QED
      BY <1>3, <2>2, <2>3, Quiet DEF OpenBlob, Counters
  <1>4. CASE SendChunk(h)
    <2>1. req[h] \in Streams /\ req[h].pc = "streaming"
      BY <1>4, ByPc DEF SendChunk
    <2>2. \E r \in Streams : /\ Moves(h, r) /\ r.key = req[h].key
                             /\ r.version = req[h].version /\ r.sha256 = req[h].sha256
                             /\ \/ r.pc = "streaming" /\ conn' = conn
                                \/ r.pc = "served" /\ Release(h) /\ r.sent = req[h].sent
                                   /\ req[h].sent = db.blobs[req[h].sha256].chunks
      <3>1. CASE req' = [req EXCEPT ![h].sent = @ + 1] /\ conn' = conn
        <4> DEFINE r == [req[h] EXCEPT !.sent = req[h].sent + 1]
        <4>1. r \in Streams /\ r.pc = "streaming" /\ r.key = req[h].key
              /\ r.version = req[h].version /\ r.sha256 = req[h].sha256
          BY <2>1 DEF Streams
        <4>2. req' = [req EXCEPT ![h] = r]
          BY <3>1
        <4> HIDE DEF r
        <4> QED
          BY <3>1, <4>1, <4>2 DEF Moves, Requests
      <3>2. CASE req[h].sent = db.blobs[req[h].sha256].chunks /\ Goto(h, "served") /\ Release(h)
        BY <2>1, <3>2, StreamGoes
      <3> QED
        BY <1>4, <3>1, <3>2 DEF SendChunk
    <2>3. PICK r \in Streams : /\ Moves(h, r) /\ r.key = req[h].key
                               /\ r.version = req[h].version /\ r.sha256 = req[h].sha256
                               /\ \/ r.pc = "streaming" /\ conn' = conn
                                  \/ r.pc = "served" /\ Release(h) /\ r.sent = req[h].sent
                                     /\ req[h].sent = db.blobs[req[h].sha256].chunks
      BY <2>2
    <2>4. Sends(r) /\ Passes(h, r) /\ r.pc \notin Writing /\ req[h].pc \notin Writing
      BY <2>1, <2>3 DEF Sending, Sends, Whole, Passes, Holding, Writing
    <2> QED
      BY <1>4, <2>3, <2>4, Quiet DEF SendChunk, Counters
  <1>5. CASE CutStream(h) \/ EndDownload(h)
    <2>1. Moves(h, Idle) /\ Idle.pc = "idle"
      BY <1>5, Finished DEF CutStream, EndDownload
    <2>2. Passes(h, Idle) /\ Sends(Idle) /\ Idle.pc \notin Writing /\ req[h].pc \notin Writing
      BY <1>5, <2>1 DEF CutStream, EndDownload, Passes, Holding, Sends, Writing
    <2> QED
      BY <1>5, <2>1, <2>2, Quiet DEF CutStream, EndDownload, Counters
  <1> QED
    BY <1>1, <1>2, <1>3, <1>4, <1>5

\* The transaction opens.
LEMMA Opens ==
    ASSUME StoreInv, NEW h \in Handlers, BeginPut(h), conn' # conn
    PROVE  StoreInv'
  <1> USE DEF StoreInv, Types
  <1>0. PICK k : k = req[h].key
    OBVIOUS
  <1>1. /\ req[h].pc = "put" /\ BuildsOnLatest(db, k, req[h].parent)
        /\ k \in DOMAIN db.titles \/ k[1] \in db.users
        /\ Acquire(h) /\ Goto(h, "blob")
        /\ tx' = IF k \in DOMAIN db.titles THEN db ELSE [db EXCEPT !.titles = With(@, k, 0)]
        /\ UNCHANGED <<db, answered, puts, gets, faults>>
    BY <1>0 DEF BeginPut
  <1>2. req[h] \in Puts /\ k \in Keys
    BY <1>0, <1>1, ByPc DEF Puts
  <1>3. PICK r \in Puts : /\ Moves(h, r) /\ r.pc = "blob" /\ r.key = k
                          /\ r.parent = req[h].parent /\ r.pkg = req[h].pkg
    BY <1>0, <1>1, <1>2, PutGoes DEF Writing
  <1>4. /\ tx' \in Database
        /\ tx'.users = db.users /\ tx'.versions = db.versions /\ tx'.blobs = db.blobs
        /\ DOMAIN tx'.titles = DOMAIN db.titles \cup {k}
        /\ tx'.titles[k] = Latest(db, k)
        /\ \A j \in DOMAIN db.titles : j # k => tx'.titles[j] = db.titles[j]
    <2>1. CASE k \in DOMAIN db.titles
      BY <1>1, <2>1 DEF Latest
    <2>2. CASE k \notin DOMAIN db.titles
      <3>1. tx' = [db EXCEPT !.titles = With(@, k, 0)]
        BY <1>1, <2>2
      <3>2. DOMAIN With(db.titles, k, 0) = DOMAIN db.titles \cup {k}
            /\ With(db.titles, k, 0)[k] = 0
            /\ \A j \in DOMAIN db.titles : j # k => With(db.titles, k, 0)[j] = db.titles[j]
        BY DEF With
      <3>3. /\ tx' \in Database /\ tx'.users = db.users /\ tx'.versions = db.versions
            /\ tx'.blobs = db.blobs /\ tx'.titles = With(db.titles, k, 0)
        BY <1>2, <3>1, NewTitle
      <3> QED
        BY <2>2, <3>2, <3>3 DEF Latest
    <2> QED
      BY <2>1, <2>2
  <1>6. k[1] \in db.users /\ Latest(db, k) = r.parent
    BY <1>1, <1>3 DEF Whole, BuildsOnLatest, Latest
  <1>7. InTransaction(r)'
    BY <1>1, <1>3, <1>4, <1>6 DEF InTransaction, Titled, Latest
  <1>8. Passes(h, r) /\ conn' = h /\ r.pc \in Writing
    BY <1>1, <1>3 DEF Passes, Acquire, Holding, Writing
  <1> QED
    BY <1>1, <1>3, <1>4, <1>7, <1>8, Statement

\* insertBlob: the row, its chunks, and past them.
LEMMA BlobSteps ==
    ASSUME StoreInv, NEW h \in Handlers, WriteBlob(h) \/ WriteChunk(h)
    PROVE  StoreInv'
  <1> USE DEF StoreInv, Types
  <1>0. PICK q : q = req[h]
    OBVIOUS
  <1>q. PICK x : x = q.pkg.sha256
    OBVIOUS
  <1>1. q.pc \in {"blob", "chunks"} /\ q \in Puts /\ x \in Digests /\ q.pkg.title \in Titles
        /\ q.serial \in Nat
    <2>1. q.pc \in {"blob", "chunks"} /\ q \in Puts
      BY <1>0, ByPc DEF WriteBlob, WriteChunk, Writing
    <2>2. q.pkg \in Packages /\ q.serial \in Nat
      BY <2>1 DEF Puts
    <2> QED
      BY <1>q, <2>1, <2>2 DEF Packages
  <1>2. conn = h /\ InTransaction(q)
    BY <1>0, <1>1 DEF Connection, Holding, Transaction, Writing
  <1>3. UNCHANGED <<db, conn, answered, puts, gets, faults>>
    BY DEF WriteBlob, WriteChunk
  <1>g. ASSUME NEW l \in {"chunks", "version"}, Goto(h, l)
        PROVE  \E r \in Puts : /\ Moves(h, r) /\ r.pc = l
                               /\ r.key = q.key /\ r.parent = q.parent /\ r.pkg = q.pkg
    BY <1>0, <1>1, <1>g, PutGoes DEF Writing
  <1>s. ASSUME NEW r \in Puts, Moves(h, r), r.pc \in {"chunks", "version"}, tx' \in Database,
               InTransaction(r)'
        PROVE  StoreInv'
    BY <1>0, <1>1, <1>2, <1>3, <1>s, Statement DEF Passes, Holding, Writing
  <1>6. CASE WriteBlob(h) /\ x \in DOMAIN tx.blobs
    <2>1. q.pc = "blob" /\ tx' = tx /\ Goto(h, "version")
      BY <1>0, <1>q, <1>6 DEF WriteBlob
    <2>2. PICK r \in Puts : /\ Moves(h, r) /\ r.pc = "version"
                            /\ r.key = q.key /\ r.parent = q.parent /\ r.pkg = q.pkg
      BY <1>g, <2>1
    <2>3. Titled(q, q.parent) /\ tx.versions = db.versions /\ tx.blobs = db.blobs
      BY <1>2, <2>1 DEF InTransaction
    <2>4. Titled(r, r.parent)'
      BY <1>3, <2>1, <2>2, <2>3 DEF Titled, Latest
    <2>5. tx'.blobs = db'.blobs /\ x \in DOMAIN db'.blobs /\ db'.blobs[x].chunks = Chunks
      BY <1>3, <1>6, <2>1, <2>3 DEF Whole
    <2>6. Stored(r, References0(db, x))'
      BY <1>q, <2>2, <2>5 DEF Stored, References0
    <2>7. InTransaction(r)'
      BY <1>q, <1>3, <2>1, <2>2, <2>3, <2>4, <2>5, <2>6 DEF InTransaction
    <2> QED
      BY <1>s, <2>1, <2>2, <2>7
  <1>7. CASE WriteBlob(h) /\ x \notin DOMAIN tx.blobs
    <2>0. PICK row : row = [refcount |-> 0, chunks |-> 0, manifest |-> q.pkg.title,
                              serial |-> q.serial]
      OBVIOUS
    <2>1. q.pc = "blob" /\ tx' = [tx EXCEPT !.blobs = With(@, x, row)] /\ Goto(h, "chunks")
      BY <1>0, <1>q, <1>7, <2>0 DEF WriteBlob
    <2>2. PICK r \in Puts : /\ Moves(h, r) /\ r.pc = "chunks"
                            /\ r.key = q.key /\ r.parent = q.parent /\ r.pkg = q.pkg
      BY <1>g, <2>1
    <2>3. Titled(q, q.parent) /\ tx.versions = db.versions /\ tx.blobs = db.blobs
      BY <1>2, <2>1 DEF InTransaction
    <2>4. row \in BlobRows /\ row.refcount = 0
      BY <1>1, <2>0, StoreBounds DEF BlobRows
    <2>5. /\ tx' \in Database /\ tx'.users = tx.users /\ tx'.versions = tx.versions
          /\ tx'.titles = tx.titles /\ tx'.blobs = With(tx.blobs, x, row)
      BY <1>1, <2>1, <2>4, NewBlob
    <2>6. DOMAIN tx'.blobs = DOMAIN tx.blobs \cup {x} /\ tx'.blobs[x] = row
          /\ \A y \in DOMAIN tx.blobs : y # x => tx'.blobs[y] = tx.blobs[y]
      BY <2>5 DEF With
    <2>7. Titled(r, r.parent)'
      BY <1>3, <2>2, <2>3, <2>5 DEF Titled, Latest
    <2>8. x \notin DOMAIN db'.blobs
      BY <1>3, <1>7, <2>3
    <2>9. Stored(r, References0(db, x))'
      BY <1>q, <1>3, <2>2, <2>3, <2>4, <2>6, <2>8 DEF Stored, References0
    <2>10. InTransaction(r)'
      BY <1>q, <1>3, <2>2, <2>3, <2>5, <2>7, <2>8, <2>9 DEF InTransaction
    <2> QED
      BY <1>s, <2>2, <2>5, <2>10
  <1>8. CASE WriteChunk(h)
    <2>1. q.pc = "chunks"
      BY <1>0, <1>8 DEF WriteChunk
    <2>2. Titled(q, q.parent) /\ tx.versions = db.versions /\ Stored(q, References0(db, x))
          /\ x \notin DOMAIN db.blobs
      BY <1>q, <1>2, <2>1 DEF InTransaction
    <2>3. /\ DOMAIN tx.blobs = DOMAIN db.blobs \cup {x}
          /\ tx.blobs[x].refcount = References0(db, x)
          /\ \A y \in DOMAIN db.blobs : y # x => tx.blobs[y] = db.blobs[y]
      BY <1>q, <2>2 DEF Stored
    <2>4. CASE tx.blobs[x].chunks < Chunks
      <3>1. tx' = [tx EXCEPT !.blobs[x].chunks = @ + 1] /\ req' = req
        BY <1>0, <1>q, <1>8, <2>4 DEF WriteChunk
      <3>2. x \in DOMAIN tx.blobs
        BY <2>3
      <3>3. /\ tx' \in Database /\ tx'.users = tx.users /\ tx'.versions = tx.versions
            /\ tx'.titles = tx.titles /\ DOMAIN tx'.blobs = DOMAIN tx.blobs
            /\ tx'.blobs[x].refcount = tx.blobs[x].refcount
            /\ \A y \in DOMAIN tx.blobs : y # x => tx'.blobs[y] = tx.blobs[y]
        BY <2>4, <3>1, <3>2, NewChunk
      <3>4. Titled(q, q.parent)'
        BY <1>3, <2>2, <3>3 DEF Titled, Latest
      <3>5. Stored(q, References0(db, x))'
        BY <1>q, <1>3, <2>2, <2>3, <3>3 DEF Stored, References0
      <3>6. InTransaction(q)'
        BY <1>q, <1>3, <2>1, <2>2, <3>3, <3>4, <3>5 DEF InTransaction
      <3>7. Moves(h, q)
        BY <1>0, <1>1, <3>1 DEF Moves, Requests, RequestsType
      <3> QED
        BY <1>s, <1>1, <2>1, <3>3, <3>6, <3>7
    <2>5. CASE ~(tx.blobs[x].chunks < Chunks)
      <3>1. tx' = tx /\ Goto(h, "version")
        BY <1>0, <1>q, <1>8, <2>5 DEF WriteChunk
      <3>2. PICK r \in Puts : /\ Moves(h, r) /\ r.pc = "version"
                              /\ r.key = q.key /\ r.parent = q.parent /\ r.pkg = q.pkg
        BY <1>g, <3>1
      <3>3. tx.blobs[x].chunks \in 0 .. Chunks
        BY <2>3, DatabaseIs
      <3>4. tx'.blobs[x].chunks = Chunks
        BY <2>5, <3>1, <3>3, StoreBounds
      <3>5. Titled(r, r.parent)'
        BY <1>3, <2>2, <3>1, <3>2 DEF Titled, Latest
      <3>6. Stored(r, References0(db, x))'
        BY <1>q, <1>3, <2>2, <2>3, <3>1, <3>2 DEF Stored, References0
      <3>7. InTransaction(r)'
        BY <1>q, <1>3, <2>2, <3>1, <3>2, <3>4, <3>5, <3>6 DEF InTransaction
      <3> QED
        BY <1>s, <3>1, <3>2, <3>7
    <2> QED
      BY <2>4, <2>5
  <1> QED
    BY <1>6, <1>7, <1>8

\* The version row, the count and latest_version.
LEMMA Inserts ==
    ASSUME StoreInv, NEW h \in Handlers, InsertVersion(h)
    PROVE  StoreInv'
  <1> USE DEF StoreInv, Types
  <1>0. PICK q : q = req[h]
    OBVIOUS
  <1>q. PICK x, k, p : x = q.pkg.sha256 /\ k = q.key /\ p = q.parent
    OBVIOUS
  <1>1. q.pc = "version" /\ q \in Puts /\ x \in Digests /\ k \in Keys /\ p \in Nat
    <2>1. q.pc = "version" /\ q \in Puts
      BY <1>0, ByPc DEF InsertVersion, Writing
    <2>2. q.pkg \in Packages /\ k \in Keys /\ p \in Nat
      BY <1>q, <2>1 DEF Puts
    <2> QED
      BY <1>q, <2>1, <2>2 DEF Packages
  <1>2. conn = h /\ InTransaction(q)
    BY <1>0, <1>1 DEF Connection, Holding, Transaction, Writing
  <1>3. UNCHANGED <<db, conn, answered, puts, gets, faults>> /\ Goto(h, "commit")
    BY DEF InsertVersion
  <1>4. PICK r \in Puts : /\ Moves(h, r) /\ r.pc = "commit"
                          /\ r.key = k /\ r.parent = p /\ r.pkg = q.pkg
    BY <1>0, <1>q, <1>1, <1>3, PutGoes DEF Writing
  <1>5. PICK row : row = [parent |-> p, sha256 |-> x]
    OBVIOUS
  <1>6. row \in VersionRows
    BY <1>1, <1>5 DEF VersionRows
  <1>7. tx' = [tx EXCEPT !.versions = With(@, <<k, tx.titles[k] + 1>>,
                                           [parent |-> tx.titles[k], sha256 |-> x]),
                         !.blobs[x].refcount = tx.blobs[x].refcount + 1,
                         !.titles[k] = tx.titles[k] + 1]
    BY <1>0, <1>q DEF InsertVersion, IssuedNumber, CountReference
  <1>8. /\ Titled(q, p) /\ tx.versions = db.versions
        /\ Stored(q, References0(db, x)) /\ tx.blobs[x].chunks = Chunks
    BY <1>q, <1>1, <1>2 DEF InTransaction
  <1>9. /\ tx.users = db.users /\ k[1] \in db.users /\ Latest(db, k) = p
        /\ DOMAIN tx.titles = DOMAIN db.titles \cup {k} /\ tx.titles[k] = p
        /\ \A j \in DOMAIN db.titles : j # k => tx.titles[j] = db.titles[j]
    BY <1>q, <1>8 DEF Titled
  <1>10. /\ DOMAIN tx.blobs = DOMAIN db.blobs \cup {x}
         /\ tx.blobs[x].refcount = References0(db, x)
         /\ x \in DOMAIN db.blobs => tx.blobs[x].chunks = db.blobs[x].chunks
         /\ \A y \in DOMAIN db.blobs : y # x => tx.blobs[y] = db.blobs[y]
    BY <1>q, <1>8 DEF Stored
  <1>11. PICK n : n = References0(db, x) + 1
    OBVIOUS
  <1>12. n \in Nat /\ p + 1 \in Nat \ {0}
    <2>1. tx.blobs[x].refcount \in Nat
      BY <1>10, DatabaseIs
    <2> QED
      BY <1>1, <1>10, <1>11, <2>1
  <1>13. tx' = [tx EXCEPT !.versions = With(@, <<k, p + 1>>, row), !.blobs[x].refcount = n,
                          !.titles[k] = p + 1]
    BY <1>5, <1>7, <1>9, <1>10, <1>11
  <1>14. /\ tx' \in Database /\ tx'.users = tx.users
         /\ tx'.versions = With(tx.versions, <<k, p + 1>>, row)
         /\ DOMAIN tx'.titles = DOMAIN tx.titles /\ tx'.titles[k] = p + 1
         /\ \A j \in DOMAIN tx.titles : j # k => tx'.titles[j] = tx.titles[j]
         /\ DOMAIN tx'.blobs = DOMAIN tx.blobs
         /\ tx'.blobs[x].refcount = n /\ tx'.blobs[x].chunks = tx.blobs[x].chunks
         /\ \A y \in DOMAIN tx.blobs : y # x => tx'.blobs[y] = tx.blobs[y]
    <2>1. k \in DOMAIN tx.titles /\ x \in DOMAIN tx.blobs
      BY <1>9, <1>10
    <2>2. PICK v \in Nat \ {0} : v = p + 1
      BY <1>12
    <2>3. tx' = Inserted(tx, k, v, row, x, n)
      BY <1>13, <2>2 DEF Inserted
    <2>4. /\ tx' \in Database /\ tx'.users = tx.users
          /\ tx'.versions = With(tx.versions, <<k, v>>, row)
          /\ DOMAIN tx'.titles = DOMAIN tx.titles /\ tx'.titles[k] = v
          /\ \A j \in DOMAIN tx.titles : j # k => tx'.titles[j] = tx.titles[j]
          /\ DOMAIN tx'.blobs = DOMAIN tx.blobs
          /\ tx'.blobs[x].refcount = n /\ tx'.blobs[x].chunks = tx.blobs[x].chunks
          /\ \A y \in DOMAIN tx.blobs : y # x => tx'.blobs[y] = tx.blobs[y]
      BY <1>6, <1>12, <2>1, <2>3, NewVersion
    <2> QED
      BY <2>2, <2>4
  <1>15. Titled(r, p + 1)'
    BY <1>3, <1>4, <1>9, <1>14 DEF Titled, Latest
  <1>16. Stored(r, References0(db, x) + 1)'
    <2>1. r.pkg.sha256 = x /\ (References0(db, x) + 1)' = n
      BY <1>q, <1>3, <1>4, <1>11 DEF References0
    <2>2. /\ DOMAIN tx'.blobs = DOMAIN db'.blobs \cup {x} /\ tx'.blobs[x].refcount = n
          /\ x \in DOMAIN db'.blobs => tx'.blobs[x].chunks = db'.blobs[x].chunks
          /\ \A y \in DOMAIN db'.blobs : y # x => tx'.blobs[y] = db'.blobs[y]
      BY <1>3, <1>10, <1>14
    <2> QED
      BY <2>1, <2>2 DEF Stored
  <1>17. InTransaction(r)'
    BY <1>q, <1>3, <1>4, <1>5, <1>8, <1>14, <1>15, <1>16 DEF InTransaction
  <1> QED
    BY <1>0, <1>1, <1>2, <1>3, <1>4, <1>14, <1>17, Statement DEF Passes, Holding, Writing

-----------------------------------------------------------------------------
(***************************************************************************)
(* A transaction ends.                                                     *)
(***************************************************************************)

\* A version that is not there yet is one more reference to its blob, and to no other.
LEMMA OneMoreReference ==
    ASSUME NEW d \in Database, NEW e \in Database, IsFiniteSet(DOMAIN d.versions),
           NEW i, i \notin DOMAIN d.versions, NEW row,
           e.versions = With(d.versions, i, row)
    PROVE  /\ IsFiniteSet(DOMAIN e.versions)
           /\ Cardinality(References(e, row.sha256))
                = Cardinality(References(d, row.sha256)) + 1
           /\ \A y : y # row.sha256 => References(e, y) = References(d, y)
  <1>1. /\ DOMAIN e.versions = DOMAIN d.versions \cup {i} /\ e.versions[i] = row
        /\ \A j \in DOMAIN d.versions : j # i => e.versions[j] = d.versions[j]
    BY DEF With
  <1>2. IsFiniteSet(DOMAIN e.versions)
    BY <1>1, FS_AddElement
  <1>3. References(e, row.sha256) = References(d, row.sha256) \cup {i}
    BY <1>1 DEF References
  <1>4. IsFiniteSet(References(d, row.sha256)) /\ i \notin References(d, row.sha256)
    BY FS_Subset DEF References
  <1>5. Cardinality(References(e, row.sha256)) = Cardinality(References(d, row.sha256)) + 1
    BY <1>3, <1>4, FS_AddElement
  <1>6. ASSUME NEW y, y # row.sha256
        PROVE  References(e, y) = References(d, y)
    BY <1>1, <1>6 DEF References
  <1> QED
    BY <1>2, <1>5, <1>6

\* What the upload q wrote becomes what is stored.
LEMMA Commits ==
    ASSUME StoreInv, NEW h \in Handlers, CommitPut(h)
    PROVE  StoreInv'
  <1> USE DEF StoreInv, Types
  <1>0. PICK q : q = req[h]
    OBVIOUS
  <1>q. PICK x, k, p : x = q.pkg.sha256 /\ k = q.key /\ p = q.parent
    OBVIOUS
  <1>1. q.pc = "commit" /\ q \in Puts /\ x \in Digests /\ k \in Keys /\ p \in Nat
        /\ q.serial \in Nat
    <2>1. q.pc = "commit" /\ q \in Puts
      BY <1>0, ByPc DEF CommitPut, Writing
    <2>2. q.pkg \in Packages /\ k \in Keys /\ p \in Nat /\ q.serial \in Nat
      BY <1>q, <2>1 DEF Puts
    <2> QED
      BY <1>q, <2>1, <2>2 DEF Packages
  <1>2. conn = h /\ InTransaction(q)
    BY <1>0, <1>1 DEF Connection, Holding, Transaction, Writing
  <1>3. PICK row : row = [parent |-> p, sha256 |-> x]
    OBVIOUS
  <1>4. /\ Titled(q, p + 1) /\ Stored(q, References0(db, x) + 1)
        /\ tx.blobs[x].chunks = Chunks
        /\ tx.versions = With(db.versions, <<k, p + 1>>, row)
    BY <1>q, <1>1, <1>2, <1>3 DEF InTransaction
  <1>5. /\ tx.users = db.users /\ k[1] \in db.users /\ Latest(db, k) = p
        /\ DOMAIN tx.titles = DOMAIN db.titles \cup {k} /\ tx.titles[k] = p + 1
        /\ \A j \in DOMAIN db.titles : j # k => tx.titles[j] = db.titles[j]
    BY <1>q, <1>4 DEF Titled
  <1>6. /\ DOMAIN tx.blobs = DOMAIN db.blobs \cup {x}
        /\ tx.blobs[x].refcount = References0(db, x) + 1
        /\ \A y \in DOMAIN db.blobs : y # x => tx.blobs[y] = db.blobs[y]
    BY <1>q, <1>4 DEF Stored
  <1>7. /\ DOMAIN tx.versions = DOMAIN db.versions \cup {<<k, p + 1>>}
        /\ tx.versions[<<k, p + 1>>] = row /\ row.sha256 = x
        /\ \A i \in DOMAIN db.versions : i # <<k, p + 1>> => tx.versions[i] = db.versions[i]
    BY <1>3, <1>4 DEF With
  <1>8. PICK a : a = [key |-> k, version |-> p + 1, parent |-> p, sha256 |-> x,
                      serial |-> q.serial]
    OBVIOUS
  <1>9. /\ db' = tx /\ tx' = tx /\ Release(h) /\ Finish(h)
        /\ answered' = answered \cup {a} /\ UNCHANGED <<puts, gets, faults>>
    BY <1>0, <1>q, <1>5, <1>8 DEF CommitPut
  <1>10. a \in Answers
    <2>1. p + 1 \in Nat \ {0}
      BY <1>1
    <2> QED
      BY <1>1, <1>8, <2>1 DEF Answers
  <1>11. a.key = k /\ a.version = p + 1 /\ a.parent = p /\ a.sha256 = x
    BY <1>8
  <1>12. Moves(h, Idle) /\ Idle.pc = "idle"
    BY <1>9, Finished
  <1>13. RequestsType' /\ req'[h] = Idle /\ \A g \in Handlers : g # h => req'[g] = req[g]
    BY <1>12, Moved
  <1>14. Types'
    <2>1. Passes(h, Idle)
      BY <1>9, <1>12 DEF Passes, Holding
    <2> QED
      BY <1>9, <1>10, <1>12, <1>13, <2>1, ConnectionKept
  <1>15. Transaction'
    <2>1. \A g \in Handlers : req'[g].pc \notin Writing
      BY <1>2, <1>12, <1>13, OneWriter DEF Writing
    <2> QED
      BY <1>9, <2>1 DEF Transaction
  <1>16. <<k, p + 1>> \notin DOMAIN db.versions
    <2>1. SUFFICES ASSUME <<k, p + 1>> \in DOMAIN db.versions PROVE FALSE
      OBVIOUS
    <2>2. k \in DOMAIN db.titles /\ p + 1 <= db.titles[k]
      BY <2>1 DEF Whole
    <2> QED
      BY <1>1, <1>5, <2>2 DEF Latest
  <1>17. Whole(tx)
    <2>1. \A j \in DOMAIN tx.titles : j[1] \in tx.users
      BY <1>5 DEF Whole
    <2>2. ASSUME NEW j \in DOMAIN tx.titles, NEW v \in 1 .. tx.titles[j]
          PROVE  <<j, v>> \in DOMAIN tx.versions
      <3>1. CASE j # k
        BY <1>5, <1>7, <3>1 DEF Whole
      <3>2. CASE j = k /\ v = p + 1
        BY <1>7, <3>2
      <3>3. CASE j = k /\ v # p + 1
        <4>1. v \in 1 .. p
          BY <1>1, <1>5, <3>3
        <4>2. k \in DOMAIN db.titles /\ db.titles[k] = p
          BY <1>1, <1>5, <4>1 DEF Latest
        <4> QED
          BY <1>7, <3>3, <4>1, <4>2 DEF Whole
      <3> QED
        BY <3>1, <3>2, <3>3
    <2>3. ASSUME NEW i \in DOMAIN tx.versions
          PROVE  /\ i[1] \in DOMAIN tx.titles /\ i[2] <= tx.titles[i[1]]
                 /\ tx.versions[i].sha256 \in DOMAIN tx.blobs
      <3>1. CASE i = <<k, p + 1>>
        BY <1>1, <1>5, <1>6, <1>7, <3>1
      <3>2. CASE i # <<k, p + 1>>
        <4>1. /\ i \in DOMAIN db.versions /\ i[1] \in DOMAIN db.titles
              /\ i[2] <= db.titles[i[1]] /\ db.versions[i].sha256 \in DOMAIN db.blobs
          BY <1>7, <3>2 DEF Whole
        <4>2. i[2] \in Nat
          BY <4>1, DatabaseIs DEF Numbers
        <4>3. i[2] <= tx.titles[i[1]]
          BY <1>1, <1>5, <4>1, <4>2 DEF Latest
        <4> QED
          BY <1>5, <1>6, <1>7, <3>2, <4>1, <4>3
      <3> QED
        BY <3>1, <3>2
    <2>4. \A y \in DOMAIN tx.blobs : tx.blobs[y].chunks = Chunks
      BY <1>4, <1>6 DEF Whole
    <2> QED
      BY <2>1, <2>2, <2>3, <2>4 DEF Whole
  <1>18. Counted(tx)
    <2>1. /\ IsFiniteSet(DOMAIN tx.versions)
          /\ Cardinality(References(tx, x)) = Cardinality(References(db, x)) + 1
          /\ \A y : y # x => References(tx, y) = References(db, y)
      BY <1>4, <1>7, <1>16, OneMoreReference DEF Counted
    <2>2. Cardinality(References(db, x)) <= References0(db, x)
      <3>1. CASE x \in DOMAIN db.blobs
        BY <3>1 DEF Counted, References0
      <3>2. CASE x \notin DOMAIN db.blobs
        <4>1. References(db, x) = {}
          BY <3>2 DEF References, Whole
        <4> QED
          BY <3>2, <4>1, FS_EmptySet DEF References0
      <3> QED
        BY <3>1, <3>2
    <2>3. References0(db, x) \in Nat /\ Cardinality(References(db, x)) \in Nat
      <3>1. IsFiniteSet(References(db, x))
        BY FS_Subset DEF References, Counted
      <3> QED
        BY <3>1, FS_CardinalityType, DatabaseIs DEF References0
    <2>4. Cardinality(References(tx, x)) <= tx.blobs[x].refcount
      BY <1>6, <2>1, <2>2, <2>3
    <2>5. ASSUME NEW y \in DOMAIN tx.blobs, y # x
          PROVE  Cardinality(References(tx, y)) <= tx.blobs[y].refcount
      BY <1>6, <2>1, <2>5 DEF Counted
    <2> QED
      BY <2>1, <2>4, <2>5 DEF Counted
  <1>19. Answered'
    <2>1. \A b \in answered' : b.version = b.parent + 1
      BY <1>9, <1>11 DEF Answered
    <2>2. AnsweredIsKept'
      <3> SUFFICES ASSUME NEW b \in answered', b.key[1] \in tx.users
                   PROVE  /\ <<b.key, b.version>> \in DOMAIN tx.versions
                          /\ tx.versions[<<b.key, b.version>>].sha256 = b.sha256
        BY <1>9 DEF AnsweredIsKept
      <3>1. CASE b = a
        BY <1>7, <1>11, <3>1
      <3>2. CASE b \in answered
        <4>1. /\ <<b.key, b.version>> \in DOMAIN db.versions
              /\ db.versions[<<b.key, b.version>>].sha256 = b.sha256
          BY <1>5, <3>2 DEF Answered, AnsweredIsKept
        <4> QED
          BY <1>7, <1>16, <4>1
      <3> QED
        BY <1>9, <3>1, <3>2
    <2>3. OneWinner'
      <3>1. ASSUME NEW b \in answered, b.key = k, b.parent = p
            PROVE  FALSE
        <4>1. <<k, p + 1>> \in DOMAIN db.versions
          BY <1>5, <3>1 DEF Answered, AnsweredIsKept
        <4> QED
          BY <1>16, <4>1
      <3> QED
        BY <1>9, <1>11, <3>1 DEF Answered, OneWinner
    <2>4. ASSUME NEW i \in DOMAIN tx.versions
          PROVE  \E b \in answered' : IsAnswer(b, i[1], i[2], tx.versions[i].sha256)
      <3>1. CASE i = <<k, p + 1>>
        BY <1>7, <1>9, <1>11, <3>1 DEF IsAnswer
      <3>2. CASE i # <<k, p + 1>>
        BY <1>7, <1>9, <3>2 DEF Answered
      <3> QED
        BY <3>1, <3>2
    <2> QED
      BY <1>9, <2>1, <2>2, <2>3, <2>4 DEF Answered
  <1>20. Sending'
    BY <1>6, <1>9, <1>12, <1>13 DEF Sending
  <1> QED
    BY <1>9, <1>14, <1>15, <1>17, <1>18, <1>19, <1>20

\* The rollback: nothing that was stored before is changed.
LEMMA FailedPut ==
    ASSUME StoreInv, NEW h \in Handlers, FailPut(h)
    PROVE  StoreInv'
  <1> USE DEF StoreInv, Types
  <1>1. /\ req[h].pc \in Writing /\ conn = h /\ db' = db /\ tx' = db /\ Release(h) /\ Finish(h)
        /\ UNCHANGED <<answered, puts, gets>> /\ faults' \in 0 .. MaxFaults
    BY StoreBounds DEF FailPut, Writing, RolledBack, Release
  <1>2. Moves(h, Idle) /\ Idle.pc = "idle" /\ Passes(h, Idle)
    BY <1>1, Finished DEF Passes, Holding
  <1>3. RequestsType' /\ req'[h] = Idle /\ \A g \in Handlers : g # h => req'[g] = req[g]
    BY <1>2, Moved
  <1>4. Types'
    BY <1>1, <1>2, <1>3, ConnectionKept
  <1>5. Transaction'
    <2>1. \A g \in Handlers : req'[g].pc \notin Writing
      BY <1>1, <1>2, <1>3, OneWriter DEF Writing
    <2> QED
      BY <1>1, <2>1 DEF Transaction
  <1>6. Sending'
    BY <1>1, <1>2, <1>3 DEF Sending
  <1> QED
    BY <1>1, <1>4, <1>5, <1>6 DEF Answered, AnsweredIsKept, OneWinner

\* The process dies and is started again on what was committed.
LEMMA Crashes == ASSUME StoreInv, Crash PROVE StoreInv'
  <1> USE DEF StoreInv, Types
  <1>1. /\ db' = db /\ tx' = db /\ conn' = Free /\ req' = [h \in Handlers |-> Idle]
        /\ UNCHANGED <<answered, puts, gets>> /\ faults' \in 0 .. MaxFaults
    BY StoreBounds DEF Crash
  <1>2. \A h \in Handlers : req'[h] = Idle /\ req'[h].pc = "idle"
    BY <1>1 DEF Idle
  <1>3. RequestsType' /\ Connection'
    BY <1>1, <1>2, NobodyIsFree DEF RequestsType, Requests, Connection, Holding
  <1>4. Transaction' /\ Sending'
    BY <1>1, <1>2 DEF Transaction, Sending, Writing
  <1> QED
    BY <1>1, <1>3, <1>4 DEF Answered, AnsweredIsKept, OneWinner

\* A person goes with titles and versions, when no transaction is open.
LEMMA Deletes == ASSUME StoreInv, NEW u \in Users, DeleteUser(u) PROVE StoreInv'
  <1> USE DEF StoreInv, Types
  <1>0. PICK e : e = Cascade(db, u)
    OBVIOUS
  <1>1. /\ db' = e /\ tx' = e /\ conn = Free /\ conn' = conn
        /\ UNCHANGED <<req, answered, puts, gets, faults>>
    BY <1>0 DEF DeleteUser, OneStatement
  <1>2. /\ e \in Database /\ e.users = db.users \ {u} /\ e.blobs = db.blobs
        /\ DOMAIN e.titles = {k \in DOMAIN db.titles : k[1] # u}
        /\ \A k \in DOMAIN e.titles : e.titles[k] = db.titles[k]
        /\ DOMAIN e.versions = {i \in DOMAIN db.versions : i[1][1] # u}
        /\ \A i \in DOMAIN e.versions : e.versions[i] = db.versions[i]
    BY <1>0, Cascaded
  <1>3. Types'
    BY <1>1, <1>2 DEF RequestsType, Connection
  <1>4. Transaction'
    BY <1>1, NobodyIsFree DEF Transaction, Connection, Holding, Writing
  <1>5. Whole(e)
    <2>1. \A k \in DOMAIN e.titles : k[1] \in e.users
      BY <1>2 DEF Whole
    <2>2. \A k \in DOMAIN e.titles : \A v \in 1 .. e.titles[k] : <<k, v>> \in DOMAIN e.versions
      BY <1>2 DEF Whole
    <2>3. \A i \in DOMAIN e.versions : i[1] \in DOMAIN e.titles /\ i[2] <= e.titles[i[1]]
      BY <1>2 DEF Whole
    <2> QED
      BY <1>2, <2>1, <2>2, <2>3 DEF Whole
  <1>6. Counted(e)
    <2>1. IsFiniteSet(DOMAIN e.versions)
      BY <1>2, FS_Subset DEF Counted
    <2>2. ASSUME NEW x \in DOMAIN e.blobs
          PROVE  Cardinality(References(e, x)) <= e.blobs[x].refcount
      <3>1. References(e, x) \subseteq References(db, x)
        BY <1>2 DEF References
      <3>2. IsFiniteSet(References(db, x))
        BY FS_Subset DEF References, Counted
      <3>3. Cardinality(References(e, x)) <= Cardinality(References(db, x))
        BY <3>1, <3>2, FS_Subset
      <3>4. Cardinality(References(e, x)) \in Nat /\ Cardinality(References(db, x)) \in Nat
        BY <3>1, <3>2, FS_Subset, FS_CardinalityType
      <3>5. db.blobs[x].refcount \in Nat /\ Cardinality(References(db, x)) <= db.blobs[x].refcount
        BY <1>2, DatabaseIs DEF Counted
      <3> QED
        BY <1>2, <3>3, <3>4, <3>5
    <2> QED
      BY <2>1, <2>2 DEF Counted
  <1>7. Answered'
    <2>1. AnsweredIsKept'
      BY <1>1, <1>2 DEF Answered, AnsweredIsKept
    <2>2. \A i \in DOMAIN e.versions :
             \E a \in answered : IsAnswer(a, i[1], i[2], e.versions[i].sha256)
      BY <1>2 DEF Answered
    <2> QED
      BY <1>1, <2>1, <2>2 DEF Answered, OneWinner
  <1>8. Sending'
    BY <1>1, <1>2 DEF Sending
  <1> QED
    BY <1>1, <1>3, <1>4, <1>5, <1>6, <1>7, <1>8

\* No step breaks the invariant.
LEMMA NextStore == StoreInv /\ [Next]_vars => StoreInv'
  <1> SUFFICES ASSUME StoreInv, [Next]_vars PROVE StoreInv'
    OBVIOUS
  <1>1. CASE UNCHANGED vars
    <2>1. /\ db' = db /\ tx' = tx /\ conn' = conn /\ req' = req /\ answered' = answered
          /\ puts' = puts /\ gets' = gets /\ faults' = faults
      BY <1>1 DEF vars
    <2>2. Types'
      BY <2>1 DEF StoreInv, Types, RequestsType, Connection
    <2>3. Transaction'
      BY <2>1 DEF StoreInv, Transaction, InTransaction, Titled, Stored, Latest, References0
    <2>4. Answered' /\ Sending'
      BY <2>1 DEF StoreInv, Answered, AnsweredIsKept, OneWinner, Sending
    <2> QED
      BY <2>1, <2>2, <2>3, <2>4 DEF StoreInv
  <1>2. ASSUME NEW h \in Handlers,
               \/ ReceiveUpload(h) \/ CheckUpload(h) \/ AnswerConflict(h) \/ BeginPut(h)
        PROVE  StoreInv'
    BY <1>2, UploadOutside, Opens
  <1>3. ASSUME NEW h \in Handlers, \/ WriteBlob(h) \/ WriteChunk(h) \/ InsertVersion(h)
                                   \/ CommitPut(h) \/ FailPut(h)
        PROVE  StoreInv'
    BY <1>3, BlobSteps, Inserts, Commits, FailedPut
  <1>4. ASSUME NEW h \in Handlers,
               \/ ReceiveDownload(h) \/ FindVersion(h) \/ OpenBlob(h) \/ SendChunk(h)
               \/ CutStream(h) \/ EndDownload(h)
        PROVE  StoreInv'
    BY <1>4, DownloadSteps
  <1>5. ASSUME NEW u \in Users, DeleteUser(u)
        PROVE  StoreInv'
    BY <1>5, Deletes
  <1>6. CASE Crash
    BY <1>6, Crashes
  <1> QED
    BY <1>1, <1>2, <1>3, <1>4, <1>5, <1>6 DEF Next, Serve

\* The invariant holds.
LEMMA StoreHolds == Spec => []StoreInv
  BY InitStore, NextStore, PTL DEF Spec

-----------------------------------------------------------------------------
(***************************************************************************)
(* The theorems.                                                           *)
(***************************************************************************)

\* Every variable keeps its type, and a handler is inside a transaction or a stream exactly
\* while it has the pool's one connection (Open: SetMaxOpenConns(1)).
THEOREM TypeCorrect == Spec => []TypeOK
  <1>1. StoreInv => TypeOK
    <2> SUFFICES ASSUME StoreInv PROVE TypeOK
      OBVIOUS
    <2> USE DEF StoreInv, Types
    <2>1. \A d \in Database : DatabaseOK(d)
      <3> SUFFICES ASSUME NEW d \in Database PROVE DatabaseOK(d)
        OBVIOUS
      <3>1. /\ d.users \subseteq Users
            /\ DOMAIN d.titles \subseteq Keys /\ d.titles \in [DOMAIN d.titles -> Nat]
            /\ DOMAIN d.versions \subseteq Numbers
            /\ d.versions \in [DOMAIN d.versions -> VersionRows]
            /\ DOMAIN d.blobs \subseteq Digests /\ d.blobs \in [DOMAIN d.blobs -> BlobRows]
        BY DatabaseIs
      <3> QED
        BY <3>1 DEF DatabaseOK, Numbers
    <2>2. ASSUME NEW h \in Handlers PROVE req[h].pc \in PCs
      <3>1. req[h] \in Requests
        BY DEF RequestsType
      <3> QED
        BY <3>1 DEF Requests, Puts, Finds, Streams, Idle, PCs, Writing
    <2>3. \A a \in answered : a.key \in Keys /\ a.version \in Nat \ {0} /\ a.sha256 \in Digests
      <3>1. \A a \in Answers : a.key \in Keys /\ a.version \in Nat \ {0} /\ a.sha256 \in Digests
        BY DEF Answers
      <3> QED
        BY <3>1
    <2> QED
      BY <2>1, <2>2, <2>3 DEF TypeOK, Connection
  <1> QED
    BY <1>1, StoreHolds, PTL

\* The tables agree after any interleaving of uploads, failures, crashes and deletions: the
\* histories have no holes, every version has a blob with all its chunks, and no blob counts
\* fewer references than versions use it (Put, insertBlob, DeleteUser).
THEOREM TablesAlwaysAgree == Spec => []TablesAgree
  <1>1. StoreInv => TablesAgree
    BY DEF StoreInv, Whole, Counted, TablesAgree, HistoryWhole, RefcountCovers
  <1> QED
    BY <1>1, StoreHolds, PTL

\* An upload that was answered with a version stays that version, with those bytes, for as
\* long as its owner has an account (upload's answer, Put's commit).
THEOREM AnswersAreKept == Spec => []AnsweredIsKept
  <1>1. StoreInv => AnsweredIsKept
    BY DEF StoreInv, Answered
  <1> QED
    BY <1>1, StoreHolds, PTL

\* Of the uploads built on one version of a title at most one is taken (Put's compare inside
\* the transaction).
THEOREM OneUploadWins == Spec => []OneWinner
  <1>1. StoreInv => OneWinner
    BY DEF StoreInv, Answered
  <1> QED
    BY <1>1, StoreHolds, PTL

\* A blob that is stored came with an upload that was answered; the one an upload is being
\* stored in is its own, or was there before.
CameWith(r) ==
    LET x == r.pkg.sha256
    IN  tx.blobs[x].serial = IF x \in DOMAIN db.blobs THEN db.blobs[x].serial ELSE r.serial

OriginInv ==
    /\ \A x \in DOMAIN db.blobs :
          \E b \in answered : b.sha256 = x /\ b.serial = db.blobs[x].serial
    /\ \A h \in Handlers : req[h].pc \in {"chunks", "version", "commit"} => CameWith(req[h])

\* A step of handler h that leaves what is stored, and who was answered.
LEMMA SameOrigin ==
    ASSUME StoreInv, OriginInv, StoreInv', NEW h \in Handlers, UNCHANGED <<db, answered>>,
           \A g \in Handlers : g # h => req'[g] = req[g],
           req'[h].pc \in {"chunks", "version", "commit"} => CameWith(req[h])',
           tx' = tx \/ conn' = h \/ conn' = Free
    PROVE  OriginInv'
  <1>1. ASSUME NEW g \in Handlers, g # h, req'[g].pc \in {"chunks", "version", "commit"}
        PROVE  CameWith(req[g])'
    <2>1. conn' = g /\ g # Free
      BY <1>1, NobodyIsFree DEF StoreInv, Types, Connection, Holding
    <2> QED
      BY <1>1, <2>1 DEF OriginInv, CameWith
  <1> QED
    BY <1>1 DEF OriginInv

\* The statements of an upload's transaction.
LEMMA OriginInTransaction ==
    ASSUME StoreInv, OriginInv, StoreInv', NEW h \in Handlers,
           WriteBlob(h) \/ WriteChunk(h) \/ InsertVersion(h)
    PROVE  OriginInv'
  <1>0. PICK q, x : q = req[h] /\ x = q.pkg.sha256
    OBVIOUS
  <1>1. /\ q.pc \in {"blob", "chunks", "version"} /\ q \in Puts /\ conn = h
        /\ UNCHANGED <<db, conn, answered>> /\ InTransaction(q)
        /\ tx \in Database /\ x \in Digests
    <2>1. q.pc \in {"blob", "chunks", "version"} /\ q \in Puts
      BY <1>0, ByPc DEF WriteBlob, WriteChunk, InsertVersion, Writing, StoreInv, Types
    <2>2. q.pkg \in Packages
      BY <2>1 DEF Puts
    <2> QED
      BY <1>0, <2>1, <2>2
      DEF WriteBlob, WriteChunk, InsertVersion, StoreInv, Types, Connection, Holding,
          Transaction, Writing, Packages
  <1>2. PICK r : r = req'[h]
    OBVIOUS
  <1>3. /\ r.pkg = q.pkg /\ r.serial = q.serial
        /\ \A g \in Handlers : g # h => req'[g] = req[g]
    BY <1>0, <1>1, <1>2
    DEF WriteBlob, WriteChunk, InsertVersion, Goto, Puts, StoreInv, Types, RequestsType
  <1>4. tx'.blobs[x].serial = IF x \in DOMAIN db.blobs THEN db.blobs[x].serial ELSE q.serial
    <2>1. CASE WriteBlob(h) /\ x \in DOMAIN tx.blobs
      BY <1>0, <1>1, <2>1 DEF WriteBlob, InTransaction
    <2>2. CASE WriteBlob(h) /\ x \notin DOMAIN tx.blobs
      <3>1. PICK row : row = [refcount |-> 0, chunks |-> 0, manifest |-> q.pkg.title,
                              serial |-> q.serial]
        OBVIOUS
      <3>2. tx' = [tx EXCEPT !.blobs = With(@, x, row)] /\ tx.blobs = db.blobs
        BY <1>0, <1>1, <2>2, <3>1 DEF WriteBlob, InTransaction
      <3>3. tx'.blobs = With(tx.blobs, x, row)
        BY <1>1, <3>2 DEF Database
      <3>4. tx'.blobs[x] = row
        BY <3>3 DEF With
      <3> QED
        BY <2>2, <3>1, <3>2, <3>4
    <2>3. CASE ~WriteBlob(h)
      <3>1. q.pc \in {"chunks", "version"} /\ CameWith(q) /\ Stored(q, References0(db, x))
        BY <1>0, <1>1, <2>3 DEF WriteChunk, InsertVersion, OriginInv, InTransaction
      <3>2. x \in DOMAIN tx.blobs
        BY <1>0, <3>1 DEF Stored
      <3>3. tx'.blobs[x].serial = tx.blobs[x].serial
        <4>1. CASE WriteChunk(h)
          <5>1. CASE tx.blobs[x].chunks < Chunks
            <6>1. tx' = [tx EXCEPT !.blobs[x].chunks = @ + 1]
              BY <1>0, <4>1, <5>1 DEF WriteChunk
            <6> QED
              BY <1>1, <3>2, <5>1, <6>1, NewChunk
          <5>2. CASE ~(tx.blobs[x].chunks < Chunks)
            BY <1>0, <4>1, <5>2 DEF WriteChunk
          <5> QED
            BY <5>1, <5>2
        <4>2. CASE InsertVersion(h)
          <5>1. PICK b : b = [tx.blobs EXCEPT ![x].refcount = CountReference(tx, x)]
            OBVIOUS
          <5>2. tx'.blobs = b
            BY <1>0, <1>1, <4>2, <5>1 DEF InsertVersion, Database
          <5>3. tx.blobs[x] \in BlobRows /\ tx.blobs \in [DOMAIN tx.blobs -> BlobRows]
            BY <1>1, <3>2, DatabaseIs
          <5>4. b[x].serial = tx.blobs[x].serial
            BY <3>2, <5>1, <5>3 DEF BlobRows
          <5> QED
            BY <5>2, <5>4
        <4> QED
          BY <2>3, <4>1, <4>2
      <3> QED
        BY <1>0, <3>1, <3>3 DEF CameWith
    <2> QED
      BY <2>1, <2>2, <2>3
  <1>5. CameWith(r)'
    BY <1>0, <1>1, <1>3, <1>4 DEF CameWith
  <1> QED
    BY <1>1, <1>2, <1>3, <1>5, SameOrigin

\* What is committed came with the upload that is answered, or was there.
LEMMA OriginCommitted ==
    ASSUME StoreInv, OriginInv, NEW h \in Handlers, CommitPut(h)
    PROVE  OriginInv'
  <1>0. PICK q, x : q = req[h] /\ x = q.pkg.sha256
    OBVIOUS
  <1>1. /\ q.pc = "commit" /\ conn = h /\ CameWith(q)
        /\ \A g \in Handlers : g # h => req[g].pc \notin Writing
    BY <1>0, NobodyIsFree
    DEF CommitPut, OriginInv, StoreInv, Types, Connection, Holding, Writing
  <1>2. Stored(q, References0(db, x) + 1)
    BY <1>0, <1>1 DEF StoreInv, Transaction, InTransaction, Writing
  <1>3. \E a : a.sha256 = x /\ a.serial = q.serial /\ answered' = answered \cup {a}
    BY <1>0 DEF CommitPut
  <1>4. PICK a : a.sha256 = x /\ a.serial = q.serial /\ answered' = answered \cup {a}
    BY <1>3
  <1>5. db' = tx /\ \A g \in Handlers : req'[g].pc \notin Writing
    BY <1>1, Finished, Moved DEF CommitPut, StoreInv, Types, Writing
  <1>6. ASSUME NEW y \in DOMAIN tx.blobs
        PROVE  \E b \in answered' : b.sha256 = y /\ b.serial = tx.blobs[y].serial
    BY <1>0, <1>1, <1>2, <1>4 DEF Stored, CameWith, OriginInv
  <1> QED
    BY <1>5, <1>6 DEF OriginInv, Writing

\* Before anything is stored, and after every step.
LEMMA OriginHolds == Spec => []OriginInv
  <1>1. Init => OriginInv
    BY DEF Init, OriginInv, NothingStored, Idle
  <1>2. StoreInv /\ StoreInv' /\ OriginInv /\ [Next]_vars => OriginInv'
    <2> SUFFICES ASSUME StoreInv, StoreInv', OriginInv, [Next]_vars PROVE OriginInv'
      OBVIOUS
    <2>1. CASE UNCHANGED vars
      BY <2>1 DEF vars, OriginInv, CameWith
    <2>2. ASSUME NEW h \in Handlers, WriteBlob(h) \/ WriteChunk(h) \/ InsertVersion(h)
          PROVE  OriginInv'
      BY <2>2, OriginInTransaction
    <2>3. ASSUME NEW h \in Handlers, CommitPut(h) PROVE OriginInv'
      BY <2>3, OriginCommitted
    <2>4. ASSUME NEW h \in Handlers,
                 \/ ReceiveUpload(h) \/ CheckUpload(h) \/ AnswerConflict(h) \/ BeginPut(h)
                 \/ FailPut(h)
          PROVE  OriginInv'
      <3>1. UNCHANGED <<db, answered>> /\ (tx' = tx \/ conn' = h \/ conn' = Free)
        BY <2>4 DEF ReceiveUpload, CheckUpload, AnswerConflict, BeginPut, FailPut, Acquire,
                    Release, RolledBack
      <3>2. req'[h].pc \notin {"chunks", "version", "commit"}
            /\ \A g \in Handlers : g # h => req'[g] = req[g]
        <4>1. CASE ReceiveUpload(h)
          BY <4>1 DEF ReceiveUpload, StoreInv, Types, RequestsType
        <4>2. CASE Finish(h)
          BY <4>2, Finished, Moved DEF StoreInv, Types
        <4>3. ASSUME NEW l \in {"put", "conflict", "blob"}, Goto(h, l), req[h] \in Puts
              PROVE  req'[h].pc = l /\ \A g \in Handlers : g # h => req'[g] = req[g]
          BY <4>3, PutGoes, Moved DEF StoreInv, Types, Writing
        <4>4. CASE CheckUpload(h) \/ BeginPut(h)
          <5>1. req[h] \in Puts
            BY <4>4, ByPc DEF CheckUpload, BeginPut, StoreInv, Types
          <5> QED
            BY <4>2, <4>3, <4>4, <5>1 DEF CheckUpload, BeginPut
        <4> QED
          BY <2>4, <4>1, <4>2, <4>4 DEF AnswerConflict, FailPut
      <3> QED
        BY <3>1, <3>2, SameOrigin
    <2>5. ASSUME NEW h \in Handlers,
                 \/ ReceiveDownload(h) \/ FindVersion(h) \/ OpenBlob(h) \/ SendChunk(h)
                 \/ CutStream(h) \/ EndDownload(h)
          PROVE  OriginInv'
      <3>1. UNCHANGED <<db, tx, answered>>
        BY <2>5 DEF ReceiveDownload, FindVersion, OpenBlob, SendChunk, CutStream, EndDownload
      <3>2. req'[h].pc \notin {"chunks", "version", "commit"}
            /\ \A g \in Handlers : g # h => req'[g] = req[g]
        <4>1. CASE ReceiveDownload(h)
          BY <4>1 DEF ReceiveDownload, StoreInv, Types, RequestsType
        <4>2. CASE Finish(h)
          BY <4>2, Finished, Moved DEF StoreInv, Types
        <4>3. CASE FindVersion(h)
          BY <4>2, <4>3 DEF FindVersion, StoreInv, Types, RequestsType
        <4>4. CASE OpenBlob(h) \/ SendChunk(h)
          <5>1. req[h] \in Streams /\ req[h].pc \in {"stream", "streaming"}
            BY <4>4, ByPc DEF OpenBlob, SendChunk, StoreInv, Types
          <5>2. ASSUME NEW l \in {"streaming", "served"}, Goto(h, l)
                PROVE  req'[h].pc = l /\ \A g \in Handlers : g # h => req'[g] = req[g]
            BY <5>1, <5>2, StreamGoes, Moved DEF StoreInv, Types
          <5>3. CASE req' = [req EXCEPT ![h].sent = @ + 1]
            BY <5>1, <5>3 DEF Streams, StoreInv, Types, RequestsType
          <5> QED
            BY <4>4, <5>2, <5>3 DEF OpenBlob, SendChunk
        <4> QED
          BY <2>5, <4>1, <4>2, <4>3, <4>4 DEF CutStream, EndDownload
      <3> QED
        BY <3>1, <3>2, SameOrigin
    <2>6. ASSUME NEW u \in Users, DeleteUser(u) PROVE OriginInv'
      <3>1. db'.blobs = db.blobs /\ UNCHANGED <<answered, req, conn>> /\ conn = Free
        BY <2>6, Cascaded DEF DeleteUser, OneStatement, StoreInv, Types
      <3>2. \A h \in Handlers : req[h].pc \notin {"chunks", "version", "commit"}
        BY <3>1, NobodyIsFree DEF StoreInv, Types, Connection, Holding
      <3> QED
        BY <3>1, <3>2 DEF OriginInv
    <2>7. CASE Crash
      BY <2>7 DEF Crash, OriginInv, Idle
    <2> QED
      BY <2>1, <2>2, <2>3, <2>4, <2>5, <2>6, <2>7 DEF Next, Serve
  <1> QED
    BY <1>1, <1>2, StoreHolds, PTL DEF Spec

\* A download that ran to its end carried the payload that was uploaded as that version, in
\* a whole package that some upload was answered for, although Version and WriteBlobTo are
\* two statements and the row may be gone between them (download, insertBlob).
THEOREM DownloadsAreThatPayload == Spec => []ServedIsThatPayload
  <1>1. StoreInv /\ OriginInv => ServedIsThatPayload
    <2> SUFFICES ASSUME StoreInv, OriginInv, NEW h \in Handlers, NEW a \in answered,
                        req[h].pc = "served", req[h].key = a.key, req[h].version = a.version
                 PROVE  /\ req[h].sha256 = a.sha256 /\ req[h].sent = Chunks
                        /\ \E b \in answered :
                             b.sha256 = a.sha256 /\ b.serial = db.blobs[a.sha256].serial
      BY DEF ServedIsThatPayload
    <2>1. PICK b \in answered : IsAnswer(b, a.key, a.version, req[h].sha256)
      BY DEF StoreInv, Sending
    <2>2. a \in Answers /\ b \in Answers /\ a.version = a.parent + 1 /\ b.version = b.parent + 1
      BY DEF StoreInv, Types, Answered
    <2>3. a.parent \in Nat /\ b.parent \in Nat
      BY <2>2 DEF Answers
    <2>4. a = b
      BY <2>1, <2>2, <2>3 DEF StoreInv, Answered, OneWinner, IsAnswer
    <2>5. req[h].sha256 = a.sha256 /\ req[h].sent = Chunks /\ a.sha256 \in DOMAIN db.blobs
      BY <2>1, <2>4 DEF StoreInv, Sending, IsAnswer
    <2> QED
      BY <2>5 DEF OriginInv
  <1> QED
    BY <1>1, StoreHolds, OriginHolds, PTL

-----------------------------------------------------------------------------
(***************************************************************************)
(* The promise: per title, an append-only log.                             *)
(***************************************************************************)

\* What VersionLog sees of a database.
History(d) == [k \in Keys |-> [v \in 1 .. Latest(d, k) |-> d.versions[<<k, v>>]]]

\* A version that is added at the end of a title's history is appended to its log.
LEMMA LogGrows ==
    ASSUME NEW d \in Database, NEW e \in Database, Whole(d), NEW k \in Keys, NEW x \in Digests,
           DOMAIN e.titles = DOMAIN d.titles \cup {k},
           e.titles[k] = Latest(d, k) + 1,
           \A j \in DOMAIN d.titles : j # k => e.titles[j] = d.titles[j],
           e.versions = With(d.versions, <<k, Latest(d, k) + 1>>,
                             [parent |-> Latest(d, k), sha256 |-> x])
    PROVE  History(e)
             = [History(d) EXCEPT ![k] = Append(@, [parent |-> Len(@), sha256 |-> x])]
  <1>1. PICK p, row : p = Latest(d, k) /\ row = [parent |-> p, sha256 |-> x]
    OBVIOUS
  <1>2. p \in Nat
    BY <1>1, DatabaseIs DEF Latest
  <1>3. /\ \A i \in DOMAIN d.versions : i # <<k, p + 1>> => e.versions[i] = d.versions[i]
        /\ e.versions[<<k, p + 1>>] = row
    BY <1>1 DEF With
  <1>4. PICK s : s = [v \in 1 .. p |-> d.versions[<<k, v>>]]
    OBVIOUS
  <1>5. s \in Seq(VersionRows) /\ Len(s) = p /\ History(d)[k] = s
    <2>1. \A v \in 1 .. p : d.versions[<<k, v>>] \in VersionRows
      BY <1>1, DatabaseIs DEF Whole, Latest
    <2>2. s \in Seq(VersionRows) /\ Len(s) = p
      BY <1>2, <1>4, <2>1
    <2>3. History(d)[k] = s
      BY <1>1, <1>4 DEF History
    <2> QED
      BY <2>2, <2>3
  <1>r. row \in VersionRows
    BY <1>1, <1>2 DEF VersionRows
  <1>6. History(e)[k] = Append(s, row)
    <2>1. PICK t : t = [v \in 1 .. p + 1 |-> e.versions[<<k, v>>]]
      OBVIOUS
    <2>2. History(e)[k] = t
      BY <1>1, <2>1 DEF History, Latest
    <2>3. \A v \in 1 .. p : t[v] = s[v]
      <3>1. \A v \in 1 .. p : <<k, v>> \in DOMAIN d.versions /\ v # p + 1
        BY <1>1, <1>2 DEF Whole, Latest
      <3>2. \A v \in 1 .. p : t[v] = e.versions[<<k, v>>] /\ s[v] = d.versions[<<k, v>>]
        BY <1>2, <1>4, <2>1
      <3>3. \A v \in 1 .. p : e.versions[<<k, v>>] = d.versions[<<k, v>>]
        BY <1>3, <3>1
      <3> QED
        BY <3>2, <3>3
    <2>4. t[p + 1] = row
      BY <1>2, <1>3, <2>1
    <2>5. t \in Seq(VersionRows) /\ Len(t) = p + 1
      <3>1. \A v \in 1 .. p : s[v] \in VersionRows
        BY <1>5
      <3>2. \A v \in 1 .. p + 1 : t[v] \in VersionRows
        BY <1>2, <1>r, <2>3, <2>4, <3>1
      <3>3. t = [v \in 1 .. p + 1 |-> t[v]]
        BY <2>1
      <3>4. p + 1 \in Nat
        BY <1>2
      <3>5. [v \in 1 .. p + 1 |-> t[v]] \in Seq(VersionRows)
            /\ Len([v \in 1 .. p + 1 |-> t[v]]) = p + 1
        BY <3>2, <3>4
      <3> QED
        BY <3>3, <3>5
    <2>6. Append(s, row) \in Seq(VersionRows) /\ Len(Append(s, row)) = p + 1
          /\ \A v \in 1 .. p + 1 : Append(s, row)[v] = t[v]
      BY <1>2, <1>5, <1>r, <2>3, <2>4
    <2> QED
      BY <2>2, <2>5, <2>6, SeqEqual
  <1>7. ASSUME NEW j \in Keys, j # k
        PROVE  History(e)[j] = History(d)[j]
    <2>1. Latest(e, j) = Latest(d, j)
      BY <1>7 DEF Latest
    <2>2. \A v \in 1 .. Latest(d, j) : <<j, v>> \in DOMAIN d.versions
      BY DEF Whole, Latest
    <2>3. \A v \in 1 .. Latest(d, j) : e.versions[<<j, v>>] = d.versions[<<j, v>>]
      BY <1>3, <1>7, <2>2
    <2> QED
      BY <2>1, <2>3 DEF History
  <1>8. History(e) = [j \in Keys |-> IF j = k THEN Append(s, row) ELSE History(d)[j]]
    BY <1>6, <1>7 DEF History
  <1> QED
    BY <1>1, <1>5, <1>8 DEF History

\* A deleted person's logs are gone, and the others' are as they were.
LEMMA LogForgets ==
    ASSUME NEW d \in Database, Whole(d), NEW u
    PROVE  History(Cascade(d, u))
             = [k \in Keys |-> IF k[1] = u THEN <<>> ELSE History(d)[k]]
  <1>0. PICK e : e = Cascade(d, u)
    OBVIOUS
  <1>1. /\ DOMAIN e.titles = {k \in DOMAIN d.titles : k[1] # u}
        /\ \A k \in DOMAIN e.titles : e.titles[k] = d.titles[k]
        /\ DOMAIN e.versions = {i \in DOMAIN d.versions : i[1][1] # u}
        /\ \A i \in DOMAIN e.versions : e.versions[i] = d.versions[i]
    BY <1>0, Cascaded
  <1>2. ASSUME NEW k \in Keys, k[1] = u
        PROVE  History(e)[k] = <<>>
    BY <1>1, <1>2 DEF History, Latest
  <1>3. ASSUME NEW k \in Keys, k[1] # u
        PROVE  History(e)[k] = History(d)[k]
    <2>1. Latest(e, k) = Latest(d, k)
      BY <1>1, <1>3 DEF Latest
    <2>2. \A v \in 1 .. Latest(d, k) : <<k, v>> \in DOMAIN d.versions
      BY DEF Whole, Latest
    <2>3. \A v \in 1 .. Latest(d, k) : e.versions[<<k, v>>] = d.versions[<<k, v>>]
      BY <1>1, <1>3, <2>2
    <2> QED
      BY <2>1, <2>3 DEF History
  <1>4. History(e) = [k \in Keys |-> History(e)[k]]
    BY DEF History
  <1> QED
    BY <1>0, <1>2, <1>3, <1>4

\* What the handler that commits has written.
LEMMA CommitExtends ==
    ASSUME StoreInv, NEW h \in Handlers, CommitPut(h)
    PROVE  \E k \in Keys, x \in Digests :
              History(db') = [History(db) EXCEPT ![k] = Append(@, [parent |-> Len(@), sha256 |-> x])]
  <1>0. PICK q : q = req[h]
    OBVIOUS
  <1>1. q.pc = "commit" /\ q \in Puts /\ db' = tx
    BY <1>0, ByPc DEF StoreInv, Types, CommitPut, Writing
  <1>2. q.key \in Keys /\ q.pkg.sha256 \in Digests
    <2>1. q.key \in Keys /\ q.pkg \in Packages
      BY <1>1 DEF Puts
    <2> QED
      BY <2>1 DEF Packages
  <1>3. InTransaction(q)
    BY <1>0, <1>1 DEF StoreInv, Transaction, Writing
  <1>4. /\ Titled(q, q.parent + 1)
        /\ tx.versions = With(db.versions, <<q.key, q.parent + 1>>,
                              [parent |-> q.parent, sha256 |-> q.pkg.sha256])
    BY <1>1, <1>3 DEF InTransaction
  <1>5. History(tx) = [History(db) EXCEPT
                         ![q.key] = Append(@, [parent |-> Len(@), sha256 |-> q.pkg.sha256])]
    BY <1>2, <1>4, LogGrows DEF StoreInv, Types, Titled
  <1> QED
    BY <1>1, <1>2, <1>5

\* Every other step leaves what is committed alone.
LEMMA CommittedOnlyBy ==
    ASSUME StoreInv, [Next]_vars, db' # db
    PROVE  \/ \E h \in Handlers : CommitPut(h)
           \/ \E u \in Users : DeleteUser(u)
  BY DEF Next, Serve, vars, ReceiveUpload, ReceiveDownload, CheckUpload, BeginPut, WriteBlob,
         WriteChunk, InsertVersion, AnswerConflict, FindVersion, OpenBlob, EndDownload, SendChunk,
         CutStream, FailPut, RolledBack, Crash

\* The tables implement the promise of VersionLog: a commit extends one title's log by one
\* entry built on its newest, a deleted person's logs go, and nothing else a request, a
\* failure or a crash does shows in any log.
THEOREM StoreIsALog == Spec => ImplementsVersionLog
  <1> DEFINE L == History(db)
  <1>0. Log!Keys = Keys
    BY DEF Log!Keys, Keys
  <1>1. Init => L = [k \in Keys |-> <<>>]
    BY DEF Init, NothingStored, History, Latest
  <1>2. StoreInv /\ [Next]_vars
          => \/ L' = L
             \/ \E k \in Keys, x \in Digests :
                   L' = [L EXCEPT ![k] = Append(@, [parent |-> Len(@), sha256 |-> x])]
             \/ \E u \in Users : L' = [k \in Keys |-> IF k[1] = u THEN <<>> ELSE L[k]]
    <2> SUFFICES ASSUME StoreInv, [Next]_vars, db' # db
                 PROVE  \/ \E k \in Keys, x \in Digests :
                             L' = [L EXCEPT ![k] = Append(@, [parent |-> Len(@), sha256 |-> x])]
                        \/ \E u \in Users : L' = [k \in Keys |-> IF k[1] = u THEN <<>> ELSE L[k]]
      OBVIOUS
    <2>1. CASE \E h \in Handlers : CommitPut(h)
      BY <2>1, CommitExtends
    <2>2. CASE \E u \in Users : DeleteUser(u)
      BY <2>2, LogForgets DEF DeleteUser, StoreInv, Types
    <2> QED
      BY <2>1, <2>2, CommittedOnlyBy
  <1>3. Init => Log!Init
    BY <1>0, <1>1 DEF Log!Init, History, Latest
  <1>4. StoreInv /\ [Next]_vars => [Log!Next]_L
    BY <1>0, <1>2 DEF Log!Next, Log!Take, Log!Forget, History, Latest
  <1> QED
    BY <1>3, <1>4, StoreHolds, PTL DEF Spec, ImplementsVersionLog, Log!Spec, History, Latest

=============================================================================
