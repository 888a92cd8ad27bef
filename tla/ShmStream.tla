------------------------------ MODULE ShmStream ------------------------------
(***************************************************************************)
(* SHM readers over the SST2 library: the Rust adapter (backends/shm.rs)   *)
(* and the shim that merges the selected histories (native/shm.cpp).       *)
(*                                                                         *)
(* SST2 has one set of open files and one time unit per process, so at     *)
(* most one stream is active: opening a session suspends the active one,   *)
(* which later reopens its session and seeks to the tick it completed.     *)
(* Every native call holds the SDK mutex from its start to its end and is  *)
(* one step here.  Visitors run without it: while one reader visits, its   *)
(* visitor or another thread may use the other readers.                    *)
(***************************************************************************)
EXTENDS ShmHistory

CONSTANTS
    Readers,
    Databases,      \* the histories a reader may be opened on: id -> history
    Reads,          \* the reads considered: [ids, from, end, resume]
    Points,         \* the point reads considered: [ids, end, prepare]
    LastTick,       \* meta.last
    FirstBatch,     \* records of the first batch of a stream (64)
    LaterBatch,     \* records of a later batch (1024)
    Faults          \* what may go wrong: "session", opening a session

\* A cursor always stands at an entry: a history has one for tick 0 at least.
ASSUME StreamAssumption ==
    /\ FirstBatch \in Nat \ {0} /\ LaterBatch \in Nat \ {0}
    /\ LastTick \in Nat
    /\ Faults \subseteq {"session"}
    /\ \A db \in Databases, id \in Ids : db[id] \in Seq(Entry) /\ db[id] # <<>>
    /\ Reads \subseteq [ids : SUBSET Ids, from : Nat, end : Nat, resume : BOOLEAN]
    /\ Points \subseteq [ids : SUBSET Ids, end : Nat, prepare : BOOLEAN]

\* The SDK hands the entries of a history out in source order (advance insists).
\* Only an event can be quiet and only a string can have bytes outside ASCII, and the
\* types that point_type admits are formatted as 0, 1, x and z only.
ASSUME OrderAssumption ==
    \A db \in Databases, id \in Ids :
        /\ \A i, j \in DOMAIN db[id] : i < j => db[id][i].tick <= db[id][j].tick
        /\ \A i \in DOMAIN db[id] :
              /\ db[id][i].state = "quiet" => Kind[id] = "event"
              /\ db[id][i].value = "wide" => Kind[id] = "string"
              /\ id \in PointTypes => db[id][i].state # "bad"

VARIABLES
    database,   \* per reader: the histories of its file
    native,     \* per reader: the shim's owner (struct ondas_shm)
    active,     \* active_stream: the reader whose stream is active, or None
    pc,         \* per reader: where the Rust code is
    call,       \* per reader: the arguments of the read in progress or the last one
    item,       \* per reader: the record shown to the visitor next
    previous,   \* per reader: the tick of the last record taken
    fallback,   \* per reader: point_fallback
    point,      \* per reader: the last point read and its answer
    promised,   \* per reader: what the read in progress has to deliver (history variable)
    delivered,  \* per reader: the records visited by the read in progress
    result      \* per reader: how far it is

vars == <<database, native, active, pc, call, item, previous, fallback, point, promised,
          delivered, result>>
reading == <<call, item, previous, promised, delivered, result>>
rust == <<reading, fallback, point>>

\* The ways a read fails: a record does not decode, no session can be opened, or
\* a record is out of order.
Errors == {"error", "unopened", "disorder"}

NoRead == [ids |-> {}, from |-> 0, end |-> 0, resume |-> FALSE]
NoPoint == [end |-> None, answers |-> <<>>]

\* What the shim keeps for a read, and what it was prepared for.
Stream ==
    [ids : SUBSET Ids, from : Nat, end : Nat, resume : BOOLEAN, session : BOOLEAN,
     started : BOOLEAN, first : BOOLEAN, refill : Ids \cup {None},
     histories : UNION {[S -> History] : S \in SUBSET Ids}]

Prepared == [ids : SUBSET Ids, end : Nat]

\* None stands for the absence of a value and is none itself.
ASSUME NoneAssumption == None \notin Readers \cup Stream \cup Prepared \cup Nat /\ None # "wide"

\* An owner without stream, rows or prepared point; end() leaves one.
Clean == [stream |-> None, batch |-> <<>>, prepared |-> None]

Init ==
    /\ database \in [Readers -> Databases]
    /\ native = [r \in Readers |-> Clean]
    /\ active = None
    /\ pc = [r \in Readers |-> "closed"]
    /\ call = [r \in Readers |-> NoRead]
    /\ item = [r \in Readers |-> None]
    /\ previous = [r \in Readers |-> 0]
    /\ fallback = [r \in Readers |-> None]
    /\ point = [r \in Readers |-> NoPoint]
    /\ promised = [r \in Readers |-> <<>>]
    /\ delivered = [r \in Readers |-> <<>>]
    /\ result = [r \in Readers |-> "none"]

-----------------------------------------------------------------------------
(* Streams. *)

NewStream(ids, from, end, resume) ==
    [ids |-> ids, from |-> from, end |-> end, resume |-> resume, session |-> FALSE,
     started |-> FALSE, first |-> TRUE, refill |-> None,
     histories |-> [id \in ids |-> NewHistory(resume)]]

\* Mutant: cursors outlive their session.
SuspendedMutant(s) == [s EXCEPT !.session = FALSE]

\* suspend: the session and its cursors are gone, the merged state stays.
Suspended(s) ==
    [s EXCEPT !.session = FALSE,
              !.histories = [id \in s.ids |-> [s.histories[id] EXCEPT !.at = 0]]]

\* Session: opening one suspends the active stream, whether or not it succeeds.
OpenSession(owners, current) ==
    IF current = None THEN owners
    ELSE [owners EXCEPT ![current].stream = Suspended(@)]

\* Mutant: the deleted stream stays the active one.
ReleasedMutant(r) == active

\* Stream::~Stream: the stream of r is not active any more.
Released(r) == IF active = r THEN None ELSE active

\* Mutant: a reopened history starts at the tick it had completed.
CursorOfMutant(s, h, f) ==
    IF f.through # None THEN Seek(h, f.through)
    ELSE IF s.resume THEN PastBoundary(h, s.from - 1, s.end)
    ELSE 1

\* Where the cursor of a history starts: after the tick it completed, after the
\* prefix the caller knows, or at the beginning.
CursorOf(s, h, f) ==
    IF f.through # None THEN PastBoundary(h, f.through, s.end)
    ELSE IF s.resume THEN PastBoundary(h, s.from - 1, s.end)
    ELSE 1

\* activate: a session and a cursor for every history that is not exhausted.
Activated(db, s) ==
    [s EXCEPT !.session = TRUE,
              !.histories = [id \in s.ids |->
                LET f == s.histories[id]
                    p == CursorOf(s, db[id], f)
                IN IF f.done THEN f
                   ELSE [f EXCEPT !.at = p, !.done = p = 0]]]

\* Stream::next needs the SDK to start or to refill a history.
Wants(s) == ~s.started \/ (s.refill # None /\ ~s.histories[s.refill].done)

\* The histories to fill before the next record is taken.
Filling(s) == IF ~s.started THEN s.ids ELSE IF s.refill # None THEN {s.refill} ELSE {}

Refilled(db, s) ==
    [s EXCEPT !.started = TRUE, !.refill = None,
              !.histories = [id \in s.ids |->
                IF id \in Filling(s) THEN Fill(id, db[id], s.end, s.histories[id])
                ELSE s.histories[id]]]

\* before: by tick, then by identity; a history has one record per tick.
Before(a, b) == a.tick < b.tick \/ (a.tick = b.tick /\ a.id < b.id)

\* The top of the heap.
Earliest(s) ==
    LET heap == {id \in s.ids : s.histories[id].ready}
    IN CHOOSE id \in heap :
         \A other \in heap \ {id} : Before(s.histories[id].head, s.histories[other].head)

\* Mutant: a record that has been taken stays in the heap.
PoppedMutant(s, id) == [s EXCEPT !.refill = id]

\* The record of a history is taken; the history is refilled before the next.
Popped(s, id) ==
    [s EXCEPT !.histories[id].ready = FALSE, !.histories[id].head = None, !.refill = id]

\* Collecting a batch: the stream, whether it holds the session, the records so
\* far, and whether to go on ("more"), stop ("end") or unwind ("threw").
TakeNext(db, g, fails) ==
    LET s == g.stream
        needs == Wants(s) /\ ~g.holds
        t == Refilled(db, IF needs THEN Activated(db, s) ELSE s)
        id == Earliest(t)
        record == t.histories[id].head
    IN IF needs /\ fails
       THEN [g EXCEPT !.stream = Suspended(s), !.status = "threw"]
       ELSE IF \A i \in t.ids : ~t.histories[i].ready
       THEN [g EXCEPT !.stream = t, !.holds = @ \/ needs, !.status = "end"]
       ELSE [stream |-> Popped(t, id),
             holds |-> g.holds \/ needs,
             rows |-> Append(g.rows, record),
             status |-> IF record.failed THEN "end" ELSE "more"]

\* At most `limit` records: the row limit, or where the payload limit is crossed.
Collected(db, s, holds, limit, fails) ==
    LET run[k \in 0..limit] ==
            IF k = 0 THEN [stream |-> [s EXCEPT !.first = FALSE], holds |-> holds,
                           rows |-> <<>>, status |-> "more"]
            ELSE LET g == run[k - 1] IN IF g.status = "more" THEN TakeNext(db, g, fails) ELSE g
    IN run[limit]

BatchLimit(s) == IF s.first THEN FirstBatch ELSE LaterBatch

-----------------------------------------------------------------------------
(* What the histories promise: the reference for reads. *)

\* The entries of a history that count: a gap counts once something did.
Counted(db, id) ==
    {i \in DOMAIN db[id] :
        /\ ~(Kind[id] = "event" /\ db[id][i].state = "quiet")
        /\ db[id][i].state = "absent" =>
             \E j \in 1..(i - 1) : db[id][j].state \notin {"absent", "quiet"}}

AtTick(db, id, t) == {i \in Counted(db, id) : db[id][i].tick = t}

\* Where a history ends: the first entry that does not decode.
Broken(db, id) ==
    {i \in Counted(db, id) :
        \/ db[id][i].state \in {"absent", "bad"} \/ db[id][i].value = "wide"
        \/ /\ Kind[id] = "event"
           /\ Cardinality({j \in AtTick(db, id, db[id][i].tick) : j <= i}) > MaxOccurrences}

\* The net record of a history at a tick, as a set of at most one.
NetRecord(db, id, t) ==
    LET here == AtTick(db, id, t)
        upto == {i \in here : \A j \in Broken(db, id) : i <= j}
        last == Max(upto)
    IN IF upto = {} THEN {}
       ELSE IF Broken(db, id) \cap here # {} THEN {FailedRecord(id, t)}
       ELSE IF Kind[id] = "event" THEN {ShmRecord(id, t, None, Cardinality(here))}
       ELSE {ShmRecord(id, t, db[id][last].value, 0)}

Net(db, ids, from, end) ==
    UNION {NetRecord(db, id, t) : id \in ids, t \in from..end}

\* The records of a read in the order of delivery: up to the first failure.
Promised(db, c) ==
    LET all == Net(db, c.ids, 0, c.end)
        failures == {x \in all : x.failed}
        due == {x \in all : \A f \in failures : x = f \/ Before(x, f)}
        shown == {x \in due : x.tick >= c.from}
    IN [i \in 1..Cardinality(shown) |->
          CHOOSE x \in shown : Cardinality({y \in shown : Before(y, x)}) = i - 1]

PromisedFails(db, c) == \E x \in Net(db, c.ids, 0, c.end) : x.failed

\* A read starts late only after an earlier one got past what precedes it, and
\* resumes only with a known value of every signal.
Eligible(db, c) ==
    /\ \A id \in c.ids : \A i \in Broken(db, id) :
          db[id][i].value = "wide" => db[id][i].tick >= c.from
    /\ c.resume => /\ c.from > 0
                   /\ \A id \in c.ids : Net(db, {id}, 0, c.from - 1) # {}
                   /\ \A x \in Net(db, c.ids, 0, c.from - 1) : ~x.failed

-----------------------------------------------------------------------------
(* Opening and closing. *)

\* Reader::open: a session of its own, closed before open returns.
Open(r) ==
    /\ pc[r] = "closed"
    /\ native' = OpenSession(native, active)
    /\ active' = None
    /\ \/ pc' = [pc EXCEPT ![r] = "idle"]
       \/ "session" \in Faults /\ UNCHANGED pc
    /\ UNCHANGED <<database, rust>>

\* Dropping the reader deletes the owner and its stream.
Close(r) ==
    /\ pc[r] = "idle"
    /\ pc' = [pc EXCEPT ![r] = "closed"]
    /\ native' = [native EXCEPT ![r] = Clean]
    /\ active' = Released(r)
    /\ fallback' = [fallback EXCEPT ![r] = None]
    /\ point' = [point EXCEPT ![r] = NoPoint]
    /\ UNCHANGED <<database, reading>>

-----------------------------------------------------------------------------
(* Reader::sample_bits. *)

\* A prepared fallback answers the same request without a native call.
SamplePrepared(r, p) ==
    /\ pc[r] = "idle"
    /\ fallback[r] = [ids |-> p.ids, end |-> p.end]
    /\ fallback' = [fallback EXCEPT ![r] = None]
    /\ point' = [point EXCEPT ![r] = NoPoint]
    /\ UNCHANGED <<database, native, active, pc, reading>>

\* What ondas_shm_sample_bits leaves behind without a session.
Unsampled(r, p) ==
    /\ native' = [native EXCEPT ![r] = Clean]
    /\ active' = Released(r)
    /\ fallback' = [fallback EXCEPT ![r] = IF p.prepare THEN [ids |-> p.ids, end |-> p.end]
                                           ELSE None]
    /\ point' = [point EXCEPT ![r] = NoPoint]

\* ondas_shm_sample_bits: certified values, and a stream prepared for the rest.
Sampled(r, p) ==
    LET answers == [id \in p.ids |-> CertifiedPoint(id, database[r][id], p.end)]
        missing == {id \in p.ids : answers[id] = None}
        kept == missing # {} /\ (p.prepare \/ missing # p.ids)
        owners == OpenSession([native EXCEPT ![r] = Clean], Released(r))
    IN /\ native' =
            IF kept
            THEN [owners EXCEPT ![r] =
                    [stream |-> Activated(database[r], NewStream(missing, 0, p.end, FALSE)),
                     batch |-> <<>>, prepared |-> [ids |-> missing, end |-> p.end]]]
            ELSE owners
       /\ active' = IF kept THEN r ELSE None
       /\ fallback' = [fallback EXCEPT ![r] = IF kept THEN [ids |-> missing, end |-> p.end]
                                              ELSE None]
       /\ point' = [point EXCEPT ![r] = IF missing = p.ids THEN NoPoint
                                        ELSE [end |-> p.end, answers |-> answers]]

SampleBits(r, p) ==
    /\ pc[r] = "idle"
    /\ fallback[r] # [ids |-> p.ids, end |-> p.end]
    /\ \/ (p.ids = {} \/ p.end > LastTick) /\ Unsampled(r, p)
       \/ p.ids # {} /\ p.end <= LastTick /\ Sampled(r, p)
    /\ UNCHANGED <<database, pc, reading>>

\* An exception on the way leaves no partial answer.
SampleFails(r, p) ==
    /\ "session" \in Faults
    /\ pc[r] = "idle"
    /\ fallback[r] # [ids |-> p.ids, end |-> p.end]
    /\ p.ids # {} /\ p.end <= LastTick
    /\ native' = OpenSession([native EXCEPT ![r] = Clean], Released(r))
    /\ active' = None
    /\ fallback' = [fallback EXCEPT ![r] = IF p.prepare THEN [ids |-> p.ids, end |-> p.end]
                                           ELSE None]
    /\ point' = [point EXCEPT ![r] = NoPoint]
    /\ UNCHANGED <<database, pc, reading>>

-----------------------------------------------------------------------------
(* Reader::read_from_with_resume. *)

StartRead(r, c) ==
    /\ pc[r] = "idle"
    /\ Eligible(database[r], c)
    /\ pc' = [pc EXCEPT ![r] = "begin"]
    /\ call' = [call EXCEPT ![r] = c]
    /\ promised' = [promised EXCEPT ![r] = Promised(database[r], c)]
    /\ fallback' = [fallback EXCEPT ![r] = None]
    /\ result' = [result EXCEPT ![r] = "running"]
    /\ point' = [point EXCEPT ![r] = NoPoint]
    /\ UNCHANGED <<database, native, active, item, previous, delivered>>

\* The read ends; its Traversal is dropped after the lock has been released.
Leave(r, how) ==
    /\ pc' = [pc EXCEPT ![r] = "ending"]
    /\ result' = [result EXCEPT ![r] = how]

\* An empty interval needs no session.
ReadNothing(r) ==
    /\ pc[r] = "begin" /\ call[r].from > call[r].end
    /\ Leave(r, "ok")
    /\ UNCHANGED <<database, native, active, call, item, previous, fallback, point, promised, delivered>>

\* A prepared stream serves the read it was prepared for.
HandedOver(owner, c) ==
    /\ owner.prepared # None
    /\ ~owner.stream.started
    /\ c.from = 0 /\ ~c.resume
    /\ c.end = owner.prepared.end /\ c.ids = owner.prepared.ids

\* ondas_shm_read
NativeRead(r) ==
    LET c == call[r]
        owners == OpenSession([native EXCEPT ![r] = Clean], Released(r))
        fresh == Activated(database[r], NewStream(c.ids, c.from, c.end, c.resume))
    IN /\ pc[r] = "begin" /\ c.from <= c.end
       /\ \/ /\ HandedOver(native[r], c)
             /\ native' = [native EXCEPT ![r].prepared = None]
             /\ pc' = [pc EXCEPT ![r] = "reading"]
             /\ UNCHANGED <<active, result>>
          \/ /\ ~HandedOver(native[r], c)
             /\ native' = [owners EXCEPT ![r].stream = fresh]
             /\ active' = r
             /\ pc' = [pc EXCEPT ![r] = "reading"]
             /\ UNCHANGED result
          \/ /\ "session" \in Faults /\ ~HandedOver(native[r], c)
             /\ native' = owners
             /\ active' = None
             /\ Leave(r, "unopened")
       /\ UNCHANGED <<database, call, item, previous, fallback, point, promised, delivered>>

\* What Rust does with the record that ondas_shm_next returned: refuse one that
\* is out of order, pass over what precedes the interval, decode the others.
Take(r, record) ==
    IF record.tick < previous[r] \/ record.tick > call[r].end
    THEN Leave(r, "disorder") /\ UNCHANGED <<item, previous>>
    ELSE /\ previous' = [previous EXCEPT ![r] = record.tick]
         /\ IF record.tick < call[r].from
            THEN IF record.failed THEN Leave(r, "error") /\ UNCHANGED item
                 ELSE pc' = [pc EXCEPT ![r] = "passed"] /\ UNCHANGED <<result, item>>
            ELSE /\ pc' = [pc EXCEPT ![r] = "visit"]
                 /\ item' = [item EXCEPT ![r] =
                      IF record.value = "wide" THEN FailedRecord(record.id, record.tick)
                      ELSE record]
                 /\ UNCHANGED result

\* ondas_shm_next with rows left over from the last batch.
NextBuffered(r) ==
    LET batch == native[r].batch
    IN /\ pc[r] = "reading" /\ batch # <<>>
       /\ native' = [native EXCEPT ![r].batch = Tail(batch)]
       /\ Take(r, Head(batch))
       /\ UNCHANGED <<database, active, call, fallback, point, promised, delivered>>

\* ondas_shm_next collects a batch; a session that cannot be reopened ends the
\* read, and the rows collected before it are lost.
NextBatch(r) ==
    /\ pc[r] = "reading" /\ native[r].batch = <<>>
    /\ \E limit \in 1..BatchLimit(native[r].stream), fails \in {FALSE, "session" \in Faults} :
        LET g == Collected(database[r], native[r].stream, active = r, limit, fails)
            opened == g.status = "threw" \/ (g.holds /\ active # r)
            owners == IF opened THEN OpenSession(native, active) ELSE native
        IN /\ active' = IF g.status = "threw" THEN None ELSE IF g.holds THEN r ELSE active
           /\ native' = [owners EXCEPT ![r].stream = g.stream,
                            ![r].batch = IF g.rows = <<>> THEN <<>> ELSE Tail(g.rows)]
           /\ IF g.status = "threw" THEN Leave(r, "unopened") /\ UNCHANGED <<item, previous>>
              ELSE IF g.rows = <<>> THEN Leave(r, "ok") /\ UNCHANGED <<item, previous>>
              ELSE Take(r, Head(g.rows))
    /\ UNCHANGED <<database, call, fallback, point, promised, delivered>>

\* `continue`: the lock is released and taken again for the next record.
PassOver(r) ==
    /\ pc[r] = "passed"
    /\ pc' = [pc EXCEPT ![r] = "reading"]
    /\ UNCHANGED <<database, native, active, rust>>

\* The visitor: it may go on, stop or unwind, and cannot go on after a failure.
Visit(r) ==
    /\ pc[r] = "visit"
    /\ delivered' = [delivered EXCEPT ![r] = Append(@, item[r])]
    /\ item' = [item EXCEPT ![r] = None]
    /\ \/ Leave(r, "break") \/ Leave(r, "panic")
       \/ item[r].failed /\ Leave(r, "error")
       \/ ~item[r].failed /\ pc' = [pc EXCEPT ![r] = "reading"] /\ UNCHANGED result
    /\ UNCHANGED <<database, native, active, call, previous, fallback, point, promised>>

\* Mutant: only a read that ran to its end is ended in the shim.
EndedMutant(r) == IF result[r] = "ok" THEN Clean ELSE native[r]

\* ondas_shm_end
Ended(r) == Clean

\* Traversal::drop, and the call returns.
EndTraversal(r) ==
    /\ pc[r] = "ending"
    /\ pc' = [pc EXCEPT ![r] = "idle"]
    /\ native' = [native EXCEPT ![r] = Ended(r)]
    /\ active' = IF Ended(r) = Clean THEN Released(r) ELSE active
    /\ call' = [call EXCEPT ![r] = NoRead]
    /\ promised' = [promised EXCEPT ![r] = <<>>]
    /\ previous' = [previous EXCEPT ![r] = 0]
    /\ delivered' = [delivered EXCEPT ![r] = <<>>]
    /\ result' = [result EXCEPT ![r] = "none"]
    /\ UNCHANGED <<database, item, fallback, point>>

-----------------------------------------------------------------------------

Busy == {"begin", "reading", "passed", "visit", "ending"}

\* The steps of a read once it has been asked for; each moves `pc`.
ReadStep(r) ==
    \/ ReadNothing(r) \/ NativeRead(r) \/ NextBuffered(r) \/ NextBatch(r) \/ PassOver(r)
    \/ Visit(r) \/ EndTraversal(r)

Next ==
    \E r \in Readers :
        \/ Open(r) \/ Close(r) \/ ReadStep(r)
        \/ \E p \in Points : SamplePrepared(r, p) \/ SampleBits(r, p) \/ SampleFails(r, p)
        \/ \E c \in Reads : StartRead(r, c)

Spec == Init /\ [][Next]_vars

\* A read runs on its caller's thread, and a mutex that is held for one native
\* call at a time is granted eventually: a busy reader takes its next ReadStep.
Moves(r) ==
    pc[r] \in Busy /\ \E q \in (Busy \cup {"idle"}) \ {pc[r]} : pc' = [pc EXCEPT ![r] = q]

FairSpec == Spec /\ \A r \in Readers : WF_pc(Moves(r))

-----------------------------------------------------------------------------
(* Properties. *)

\* The types of the state: a history has a cursor only inside a session.
TypeOK ==
    /\ active \in Readers \cup {None}
    /\ pc \in [Readers -> Busy \cup {"closed", "idle"}]
    /\ \A r \in Readers :
         /\ result[r] \in {"none", "running", "ok", "break", "panic"} \cup Errors
         /\ native[r].prepared # None => native[r].stream # None
         /\ native[r].stream # None =>
              \A id \in native[r].stream.ids :
                 native[r].stream.histories[id].at \in
                    IF native[r].stream.session THEN 0..Len(database[r][id]) ELSE {0}

\* SST2 has one session: a stream holds one exactly while it is the active
\* stream, and the active stream exists, however readers interrupt each other
\* in the middle of a traversal, fail or are closed.
OneSession ==
    \A r \in Readers :
        (native[r].stream # None /\ native[r].stream.session) <=> active = r

\* A certified point is what reading the history up to that tick would find:
\* the net value there, and the last tick at which the net value changed.
SampleExact ==
    \A r \in Readers : \A id \in DOMAIN point[r].answers :
        LET answer == point[r].answers[id]
            net == {x \in Net(database[r], {id}, 0, point[r].end) : ~x.failed}
            final == CHOOSE x \in net : \A y \in net : y.tick <= x.tick
            since(t) == \A y \in net : y.tick >= t => y.value = final.value
        IN answer # None =>
             /\ net # {} /\ net = Net(database[r], {id}, 0, point[r].end)
             /\ answer.value = final.value
             /\ answer.changedAt =
                  IF since(0) THEN None ELSE Min({x.tick : x \in {y \in net : since(y.tick)}})

\* Between calls a reader keeps no rows and no stream that has been read from:
\* after a break, an error or an unwinding visitor a later call starts afresh.
KeepsNothing ==
    \A r \in Readers :
        pc[r] \in {"closed", "idle"} =>
            /\ native[r].batch = <<>>
            /\ native[r].stream # None => native[r].prepared # None /\ ~native[r].stream.started

\* Records reach the reader in order, and a read fails only when a session could
\* not be opened or at the place where a selected history is broken, after
\* everything that precedes it.
ErrorsHaveCause ==
    \A r \in Readers :
        /\ result[r] # "disorder"
        /\ result[r] = "error" =>
              PromisedFails(database[r], call[r]) /\ delivered[r] = promised[r]
        /\ result[r] = "unopened" => "session" \in Faults

\* Each reader keeps the promise of RecordStream, whatever the other readers do
\* between its batches: records in tick order, none twice, none lost to a
\* suspended session or a stale prepared stream, success only after the last.
Promise(r) ==
    INSTANCE RecordStream WITH
        Stopped <- {"break", "panic"},
        promise <- promised[r],
        delivered <- delivered[r],
        result <- IF result[r] \in Errors THEN "error" ELSE result[r]

KeepsPromise ==
    /\ \A r \in Readers : Promise(r)!Init
    /\ [][\A r \in Readers : [Promise(r)!Next]_(Promise(r)!vars)]_vars

\* A read that is asked for returns, although every other reader may suspend it.
ReadReturns == \A r \in Readers : result[r] = "running" ~> pc[r] = "idle"

\* The state is typed, and a session, with the cursors in it, is the active stream's.
SessionInv == TypeOK /\ OneSession

\* A read that ends, in whatever way, has a reason and leaves nothing to the next.
CleanEnds == KeepsNothing /\ ErrorsHaveCause
=============================================================================
