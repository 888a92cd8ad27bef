-------------------------- MODULE ShmStreamProofs --------------------------
(***************************************************************************)
(* Proofs about ShmStream, for every set of readers, files, reads, points  *)
(* and batch limits.                                                       *)
(*                                                                         *)
(* Sessions: the SST2 session belongs to the active stream, cursors exist  *)
(* only inside it, and a reader between calls keeps nothing of the last    *)
(* one.  Certified points: they are what reading the history would find.   *)
(* Records, streams, rows and reads: History::fill loses no record and     *)
(* keeps none twice, however often a stream is suspended and reopened;     *)
(* what is left in the stream and in the rows of the last batch is what    *)
(* the read still owes; so every reader implements RecordStream.           *)
(***************************************************************************)
EXTENDS ShmStream, LeastElement, SequenceTheorems, FiniteSetTheorems, TLAPS

-----------------------------------------------------------------------------
(* The invariant. *)

\* The shim's owner, struct ondas_shm.
Owner == [stream : Stream \cup {None}, batch : Seq(Row), prepared : Prepared \cup {None}]

Results == {"none", "running", "ok", "break", "panic"} \cup Errors

\* The merged state of a history: a cursor only inside a session, and a record of
\* its own when one is ready.
HistoryOK(id, h, f, session) ==
    /\ f \in History
    /\ f.at \in IF session THEN 0..Len(h) ELSE {0}
    /\ session /\ ~f.done => f.at >= 1
    /\ f.ready => f.head \in Row /\ f.head.id = id

\* A stream of the file db.
StreamOK(db, s) ==
    /\ s \in Stream
    /\ DOMAIN s.histories = s.ids
    /\ \A id \in s.ids : HistoryOK(id, db[id], s.histories[id], s.session)

\* The owners of the readers of the files `dbs`: a stream has a session exactly when it
\* is the active one.
OwnersOK(dbs, owners, current) ==
    /\ owners \in [Readers -> Owner]
    /\ current \in Readers \cup {None}
    /\ \A r \in Readers :
         /\ owners[r].stream # None => StreamOK(dbs[r], owners[r].stream)
         /\ (owners[r].stream # None /\ owners[r].stream.session) <=> current = r

Underway == {"reading", "passed", "visit"}

\* What an owner holds while its reader is at p.
PlaceOK(o, p) ==
    /\ o.prepared # None => o.stream # None
    /\ p \in Underway => o.stream # None
    /\ p \in {"closed", "idle"} =>
         /\ o.batch = <<>>
         /\ o.stream # None => o.prepared # None /\ ~o.stream.started

\* The inductive invariant.
StreamsInv ==
    /\ database \in [Readers -> Databases]
    /\ pc \in [Readers -> Busy \cup {"closed", "idle"}]
    /\ result \in [Readers -> Results]
    /\ call \in [Readers -> [ids : SUBSET Ids, from : Nat, end : Nat, resume : BOOLEAN]]
    /\ OwnersOK(database, native, active)
    /\ \A r \in Readers : PlaceOK(native[r], pc[r])

-----------------------------------------------------------------------------
(* Cursors and histories. *)

\* A history of a file has an entry at least.
LEMMA DatabaseFacts ==
    ASSUME NEW db \in Databases, NEW id \in Ids
    PROVE  db[id] \in Seq(Entry) /\ Len(db[id]) \in Nat /\ Len(db[id]) >= 1
<1>1. db[id] \in Seq(Entry) /\ db[id] # <<>>
  BY StreamAssumption
<1> QED BY <1>1, EmptySeq, LenProperties

\* The SDK's seek finds an entry of the history or none.
LEMMA SeekTyped ==
    ASSUME NEW h \in Seq(Entry), NEW tick
    PROVE  Seek(h, tick) \in 0..Len(h)
<1> DEFINE T == {i \in DOMAIN h : h[i].tick <= tick}
<1>1. Len(h) \in Nat /\ DOMAIN h = 1..Len(h)
  BY LenProperties
<1>2. T \subseteq 1..Len(h)
  BY <1>1
<1>3. Seek(h, tick) = Max({0} \cup T)
  BY DEF Seek
<1> HIDE DEF T
<1>4. \E x \in {0} \cup T : \A y \in {0} \cup T : x >= y
  <2>1. CASE T = {}
    BY <2>1
  <2>2. CASE T # {}
    <3>1. PICK x \in T : \A y \in T : y <= x
      BY <1>1, <1>2, <2>2, GreatestPosition
    <3> QED BY <1>1, <1>2, <3>1
  <2> QED BY <2>1, <2>2
<1>5. Max({0} \cup T) \in {0} \cup T
  BY <1>4 DEF Max
<1>6. {0} \cup T \subseteq 0..Len(h)
  BY <1>1, <1>2
<1> QED BY <1>3, <1>5, <1>6, Zenon

\* ... and so does leaving a tick behind.
LEMMA PastTyped ==
    ASSUME NEW h \in Seq(Entry), NEW tick, NEW end
    PROVE  PastBoundary(h, tick, end) \in 0..Len(h)
<1>1. PICK p \in 0..Len(h) : p = Seek(h, tick)
  BY SeekTyped
<1>2. Len(h) \in Nat
  BY LenProperties
<1> QED BY <1>1, <1>2 DEF PastBoundary, CanAdvance

\* Where activate puts a cursor.
LEMMA CursorTyped ==
    ASSUME NEW h \in Seq(Entry), Len(h) >= 1, NEW s, NEW f
    PROVE  CursorOf(s, h, f) \in 0..Len(h)
<1>1. Len(h) \in Nat
  BY LenProperties
<1> QED BY <1>1, PastTyped DEF CursorOf

\* The states in which History::fill runs.
Runnable(id, h) ==
    {f \in History : f.at \in 1..Len(h) /\ (f.ready => f.head \in Row /\ f.head.id = id)}

\* What fill makes of an entry is a record of its own history.
LEMMA MergedTyped ==
    ASSUME NEW id \in Ids, NEW e \in Entry, NEW f \in History,
           f.ready => f.head \in Row /\ f.head.id = id
    PROVE  /\ Merged(id, e, f) \in Row /\ Merged(id, e, f).id = id
           /\ FailedRecord(id, e.tick) \in Row /\ FailedRecord(id, e.tick).id = id
<1>1. FailedRecord(id, e.tick) \in Row /\ FailedRecord(id, e.tick).id = id
  BY DEF FailedRecord, Row, Entry
<1>2. (IF f.ready THEN f.head.occurrences + 1 ELSE 1) \in Nat
  BY DEF Row
<1>3. ShmRecord(id, e.tick, e.value, 0) \in Row /\ ShmRecord(id, e.tick, e.value, 0).id = id
  BY DEF ShmRecord, Row, Entry
<1>4. \A n \in Nat : ShmRecord(id, e.tick, None, n) \in Row /\ ShmRecord(id, e.tick, None, n).id = id
  BY DEF ShmRecord, Row, Entry
<1> QED BY <1>1, <1>2, <1>3, <1>4 DEF Merged

\* One turn of the loop in History::fill.
LEMMA FillEntryTyped ==
    ASSUME NEW id \in Ids, NEW h \in Seq(Entry), NEW end, NEW f \in Runnable(id, h)
    PROVE  FillEntry(id, h, end, f) \in Runnable(id, h)
<1> DEFINE e == h[f.at]
           taken == ~Skipped(id, e, f)
           failed == taken /\ Failing(id, e, f)
           stops == failed \/ (taken /\ e.value = "wide") \/ ~CanAdvance(h, f.at, end)
           head == IF failed THEN FailedRecord(id, e.tick)
                   ELSE IF taken THEN Merged(id, e, f) ELSE f.head
           at == IF stops THEN f.at ELSE f.at + 1
           ready == f.ready \/ taken
           available == f.available \/ taken
<1>1. /\ f \in History /\ f.at \in 1..Len(h) /\ Len(h) \in Nat
      /\ f.ready => f.head \in Row /\ f.head.id = id
  BY DEF Runnable
<1>2. e \in Entry
  BY <1>1
<1>3. FillEntry(id, h, end, f) =
        [head |-> head, ready |-> ready, done |-> stops, available |-> available,
         through |-> e.tick, at |-> at]
  BY DEF FillEntry
<1>4. taken \in BOOLEAN /\ stops \in BOOLEAN /\ ready \in BOOLEAN /\ available \in BOOLEAN
  OBVIOUS
<1>5. at \in 1..Len(h)
  BY <1>1 DEF CanAdvance
<1>6. head \in Row \cup {None}
  BY <1>1, <1>2, MergedTyped DEF History
<1>7. ready => head \in Row /\ head.id = id
  BY <1>1, <1>2, MergedTyped DEF History
<1>8. e.tick \in Nat
  BY <1>2 DEF Entry
<1> HIDE DEF head, at, ready, available, stops, taken, e
<1>9. PICK r, d, a \in BOOLEAN : r = ready /\ d = stops /\ a = available
  BY <1>4
<1>10. FillEntry(id, h, end, f) = [head |-> head, ready |-> r, done |-> d, available |-> a,
                                   through |-> e.tick, at |-> at]
  BY <1>3, <1>9, Zenon
<1>11. r => head \in Row /\ head.id = id
  BY <1>7, <1>9
<1> DEFINE g == [head |-> head, ready |-> r, done |-> d, available |-> a,
                 through |-> e.tick, at |-> at]
<1>12. g \in History
  BY <1>1, <1>5, <1>6, <1>8, <1>9 DEF History
<1>13. g.at = at /\ g.ready = r /\ g.head = head
  OBVIOUS
<1> HIDE DEF g
<1>14. g \in Runnable(id, h)
  BY <1>5, <1>11, <1>12, <1>13 DEF Runnable
<1> QED BY <1>10, <1>14 DEF g

\* History::fill as an iteration.
Run(id, h, end, f) ==
    CHOOSE run : run = [k \in 0..Len(h) |->
        IF k = 0 THEN f
        ELSE LET g == run[k - 1]
             IN IF Filled(h, g) THEN g ELSE FillEntry(id, h, end, g)]

\* History::fill is the last state of that iteration.
LEMMA FillRun ==
    ASSUME NEW id, NEW h, NEW end, NEW f
    PROVE  Fill(id, h, end, f) =
             IF f.done \/ f.ready THEN f
             ELSE IF h[f.at].tick > end THEN [f EXCEPT !.done = TRUE]
             ELSE Run(id, h, end, f)[Len(h)]
BY DEF Fill, Run

\* One turn of the loop in History::fill, if there is one.
FillTurn(id, h, end, g) == IF Filled(h, g) THEN g ELSE FillEntry(id, h, end, g)

\* The loop of History::fill goes through states of a history.
LEMMA RunSteps ==
    ASSUME NEW id \in Ids, NEW h \in Seq(Entry), NEW end, NEW f \in Runnable(id, h)
    PROVE  /\ Run(id, h, end, f)[0] = f
           /\ \A k \in 1..Len(h) :
                Run(id, h, end, f)[k] = FillTurn(id, h, end, Run(id, h, end, f)[k - 1])
           /\ \A k \in 0..Len(h) : Run(id, h, end, f)[k] \in Runnable(id, h)
<1> DEFINE U == Runnable(id, h)
           Step(g) == IF Filled(h, g) THEN g ELSE FillEntry(id, h, end, g)
           T == [g \in U |-> Step(g)]
           n == Len(h)
           run == Run(id, h, end, f)
<1>1. n \in Nat
  BY LenProperties
<1>2. \A g \in U : Step(g) \in U
  BY FillEntryTyped
<1>3. T \in [U -> U] /\ f \in U
  BY <1>2
<1>4. PICK i \in [0..n -> U] : i[0] = f /\ \A k \in 1..n : i[k] = T[i[k - 1]]
  <2> HIDE DEF T, U, n
  <2>1. Maps(T, U)
    BY <1>3 DEF Maps
  <2>2. Iterable(T, U, f, n)
    BY <1>1, <1>3, <2>1, Iteration
  <2> QED BY <2>2 DEF Iterable
<1>5. i = [k \in 0..n |-> IF k = 0 THEN f ELSE Step(i[k - 1])]
  <2>1. \A k \in 1..n : i[k - 1] \in U
    <3> HIDE DEF U, n
    <3> QED BY <1>1
  <2>2. \A k \in 1..n : i[k] = Step(i[k - 1])
    <3> HIDE DEF U, Step, n
    <3> QED BY <1>4, <2>1
  <2> HIDE DEF U, T, Step, n
  <2> QED BY <1>1, <1>4, <2>2
<1>6. run = [k \in 0..n |-> IF k = 0 THEN f ELSE Step(run[k - 1])]
  <2>1. \E r : r = [k \in 0..n |-> IF k = 0 THEN f ELSE Step(r[k - 1])]
    BY <1>5
  <2> QED BY <2>1 DEF Run
<1> HIDE DEF run
<1>7. run[0] = f /\ \A k \in 1..n : run[k] = Step(run[k - 1])
  <2> HIDE DEF Step
  <2> QED BY <1>1, <1>6
<1>8. \A k \in 1..n : run[k - 1] \in U => run[k] \in U
  <2> HIDE DEF Step, U
  <2> QED BY <1>2, <1>7
<1>9. \A k \in 0..n : run[k] \in U
  <2> HIDE DEF U, n, Step
  <2> QED BY <1>1, <1>3, <1>7, <1>8, StaysIn
<1>10. \A k \in 1..n : run[k] = FillTurn(id, h, end, run[k - 1])
  BY <1>7 DEF FillTurn
<1> HIDE DEF Step
<1> QED BY <1>7, <1>9, <1>10 DEF run

\* ... and ends in one.
LEMMA RunTyped ==
    ASSUME NEW id \in Ids, NEW h \in Seq(Entry), NEW end, NEW f \in Runnable(id, h)
    PROVE  Run(id, h, end, f)[Len(h)] \in Runnable(id, h)
<1>1. Len(h) \in Nat
  BY LenProperties
<1> QED BY <1>1, RunSteps

\* History::fill of a history that has a cursor.
LEMMA FillTyped ==
    ASSUME NEW id \in Ids, NEW h \in Seq(Entry), NEW end, NEW f, HistoryOK(id, h, f, TRUE)
    PROVE  HistoryOK(id, h, Fill(id, h, end, f), TRUE)
<1>1. Fill(id, h, end, f) =
        IF f.done \/ f.ready THEN f
        ELSE IF h[f.at].tick > end THEN [f EXCEPT !.done = TRUE]
        ELSE Run(id, h, end, f)[Len(h)]
  BY FillRun
<1>2. Len(h) \in Nat /\ f \in History /\ f.at \in 0..Len(h)
  BY LenProperties DEF HistoryOK
<1>3. CASE f.done \/ f.ready
  BY <1>1, <1>3
<1>4. CASE ~(f.done \/ f.ready) /\ h[f.at].tick > end
  <2> DEFINE g == [f EXCEPT !.done = TRUE]
  <2>1. g \in History /\ g.at = f.at /\ g.done = TRUE /\ g.ready = f.ready
    BY <1>2 DEF History
  <2>2. Fill(id, h, end, f) = g
    BY <1>1, <1>4
  <2> HIDE DEF g
  <2> QED BY <1>2, <1>4, <2>1, <2>2 DEF HistoryOK
<1>5. CASE ~(f.done \/ f.ready) /\ ~(h[f.at].tick > end)
  <2>1. f \in Runnable(id, h)
    BY <1>2, <1>5 DEF HistoryOK, Runnable
  <2>2. PICK g \in Runnable(id, h) : Fill(id, h, end, f) = g
    BY <1>1, <1>5, <2>1, RunTyped
  <2>3. HistoryOK(id, h, g, TRUE)
    BY <1>2 DEF HistoryOK, Runnable
  <2> QED BY <2>2, <2>3
<1> QED BY <1>3, <1>4, <1>5

\* ... and of one that is exhausted.
LEMMA FillDone ==
    ASSUME NEW id, NEW h, NEW end, NEW f, f.done
    PROVE  Fill(id, h, end, f) = f
BY FillRun

-----------------------------------------------------------------------------
(* Streams. *)

\* A stream with other merged states.
LEMMA StreamWith ==
    ASSUME NEW s \in Stream, NEW hs \in [s.ids -> History], NEW session \in BOOLEAN
    PROVE  /\ [s EXCEPT !.session = session, !.histories = hs] \in Stream
           /\ [s EXCEPT !.session = session, !.histories = hs].ids = s.ids
           /\ [s EXCEPT !.session = session, !.histories = hs].session = session
           /\ [s EXCEPT !.session = session, !.histories = hs].histories = hs
           /\ [s EXCEPT !.session = session, !.histories = hs].started = s.started
<1>1. s.ids \in SUBSET Ids
  BY DEF Stream
<1>2. hs \in UNION {[S -> History] : S \in SUBSET Ids}
  BY <1>1
<1> QED BY <1>2 DEF Stream

\* suspend leaves no cursor.
LEMMA SuspendedOK ==
    ASSUME NEW db, NEW s, StreamOK(db, s)
    PROVE  /\ StreamOK(db, Suspended(s)) /\ ~Suspended(s).session
           /\ Suspended(s).started = s.started
<1> DEFINE hs == [id \in s.ids |-> [s.histories[id] EXCEPT !.at = 0]]
           t == [s EXCEPT !.session = FALSE, !.histories = hs]
<1>1. Suspended(s) = t
  BY DEF Suspended
<1>2. \A id \in s.ids : HistoryOK(id, db[id], [s.histories[id] EXCEPT !.at = 0], FALSE)
  <2>1. TAKE id \in s.ids
  <2>2. PICK f : f = s.histories[id] /\ HistoryOK(id, db[id], f, s.session)
    BY DEF StreamOK
  <2>3. [f EXCEPT !.at = 0] \in History
    BY <2>2 DEF HistoryOK, History
  <2>4. HistoryOK(id, db[id], [f EXCEPT !.at = 0], FALSE)
    BY <2>2, <2>3 DEF HistoryOK, History
  <2> QED BY <2>2, <2>4
<1>3. hs \in [s.ids -> History]
  BY <1>2 DEF HistoryOK
<1>4. s \in Stream
  BY DEF StreamOK
<1>5. \A id \in s.ids : HistoryOK(id, db[id], hs[id], FALSE)
  BY <1>2
<1> HIDE DEF hs
<1>6. t \in Stream /\ t.ids = s.ids /\ t.session = FALSE /\ t.histories = hs /\ t.started = s.started
  BY <1>3, <1>4, StreamWith
<1> HIDE DEF t
<1>7. StreamOK(db, t)
  BY <1>3, <1>5, <1>6 DEF StreamOK
<1> QED BY <1>1, <1>6, <1>7

\* activate leaves a cursor in every history that is not exhausted.
LEMMA ActivatedOK ==
    ASSUME NEW db \in Databases, NEW s, StreamOK(db, s), ~s.session
    PROVE  /\ StreamOK(db, Activated(db, s)) /\ Activated(db, s).session
           /\ Activated(db, s).started = s.started /\ Activated(db, s).ids = s.ids
<1> DEFINE new(id) == LET f == s.histories[id]
                          p == CursorOf(s, db[id], f)
                      IN IF f.done THEN f ELSE [f EXCEPT !.at = p, !.done = p = 0]
           hs == [id \in s.ids |-> new(id)]
           t == [s EXCEPT !.session = TRUE, !.histories = hs]
<1>1. Activated(db, s) = t
  BY DEF Activated
<1>2. ASSUME NEW id \in s.ids PROVE HistoryOK(id, db[id], new(id), TRUE)
  <2>1. id \in Ids /\ db[id] \in Seq(Entry) /\ Len(db[id]) \in Nat /\ Len(db[id]) >= 1
    BY DatabaseFacts DEF StreamOK, Stream
  <2>2. PICK f : f = s.histories[id] /\ HistoryOK(id, db[id], f, FALSE)
    <3>1. s.session = FALSE
      BY DEF StreamOK, Stream
    <3> QED BY <3>1 DEF StreamOK
  <2>3. PICK p \in 0..Len(db[id]) : p = CursorOf(s, db[id], f)
    BY <2>1, CursorTyped
  <2>4. new(id) = IF f.done THEN f ELSE [f EXCEPT !.at = p, !.done = (p = 0)]
    BY <2>2, <2>3
  <2>5. CASE f.done
    BY <2>1, <2>2, <2>4, <2>5 DEF HistoryOK
  <2>6. CASE ~f.done
    <3>1. PICK d \in BOOLEAN : d = (p = 0)
      OBVIOUS
    <3> DEFINE g == [f EXCEPT !.at = p, !.done = d]
    <3>2. new(id) = g
      <4>1. new(id) = [f EXCEPT !.at = p, !.done = (p = 0)]
        BY <2>4, <2>6
      <4> QED BY <3>1, <4>1, Zenon
    <3>3. f \in History /\ p \in Nat
      BY <2>1, <2>2 DEF HistoryOK
    <3>4. g \in History /\ g.at = p /\ g.done = d /\ g.ready = f.ready /\ g.head = f.head
      BY <3>3 DEF History
    <3>5. ~d => p # 0
      BY <3>1, Zenon
    <3> HIDE DEF g, new
    <3>6. HistoryOK(id, db[id], g, TRUE)
      BY <2>1, <2>2, <3>4, <3>5 DEF HistoryOK
    <3> QED BY <3>2, <3>6
  <2> QED BY <2>5, <2>6
<1> HIDE DEF new
<1>3. hs \in [s.ids -> History] /\ \A id \in s.ids : HistoryOK(id, db[id], hs[id], TRUE)
  BY <1>2 DEF HistoryOK
<1>4. s \in Stream
  BY DEF StreamOK
<1> HIDE DEF hs
<1>5. t \in Stream /\ t.ids = s.ids /\ t.session = TRUE /\ t.histories = hs /\ t.started = s.started
  BY <1>3, <1>4, StreamWith
<1> HIDE DEF t
<1>6. StreamOK(db, t)
  BY <1>3, <1>5 DEF StreamOK
<1> QED BY <1>1, <1>5, <1>6

\* A history is filled only through a cursor of the session.
LEMMA RefilledOK ==
    ASSUME NEW db \in Databases, NEW s, StreamOK(db, s), s.session \/ ~Wants(s)
    PROVE  /\ StreamOK(db, Refilled(db, s)) /\ Refilled(db, s).session = s.session
           /\ Refilled(db, s).ids = s.ids
<1> DEFINE new(id) == IF id \in Filling(s) THEN Fill(id, db[id], s.end, s.histories[id])
                      ELSE s.histories[id]
           hs == [id \in s.ids |-> new(id)]
           t == [s EXCEPT !.started = TRUE, !.refill = None, !.histories = hs]
<1>1. Refilled(db, s) = t
  BY DEF Refilled
<1>2. s \in Stream /\ s.ids \in SUBSET Ids /\ s.session \in BOOLEAN
  BY DEF StreamOK, Stream
<1>3. ASSUME NEW id \in s.ids PROVE HistoryOK(id, db[id], new(id), s.session)
  <2>1. id \in Ids /\ db[id] \in Seq(Entry)
    BY <1>2, DatabaseFacts
  <2>2. HistoryOK(id, db[id], s.histories[id], s.session)
    BY DEF StreamOK
  <2>3. CASE id \notin Filling(s)
    BY <2>2, <2>3
  <2>4. CASE id \in Filling(s) /\ s.session
    <3>1. s.session = TRUE
      BY <1>2, <2>4
    <3> QED BY <2>1, <2>2, <2>4, <3>1, FillTyped
  <2>5. CASE id \in Filling(s) /\ ~s.session
    <3>1. s.histories[id].done
      BY <2>5 DEF Wants, Filling
    <3> QED BY <2>2, <2>5, <3>1, FillDone
  <2> QED BY <2>3, <2>4, <2>5
<1> HIDE DEF new
<1>4. hs \in [s.ids -> History] /\ \A id \in s.ids : HistoryOK(id, db[id], hs[id], s.session)
  BY <1>3 DEF HistoryOK
<1> HIDE DEF hs
<1>5. hs \in UNION {[S -> History] : S \in SUBSET Ids}
  BY <1>2, <1>4
<1>6. t \in Stream /\ t.ids = s.ids /\ t.session = s.session /\ t.histories = hs
  BY <1>2, <1>5 DEF Stream
<1> HIDE DEF t
<1>7. StreamOK(db, t)
  BY <1>4, <1>6 DEF StreamOK
<1> QED BY <1>1, <1>6, <1>7

\* A new stream has no session yet.
LEMMA NewStreamOK ==
    ASSUME NEW db, NEW ids \in SUBSET Ids, NEW from \in Nat, NEW end \in Nat, NEW resume \in BOOLEAN
    PROVE  /\ StreamOK(db, NewStream(ids, from, end, resume))
           /\ ~NewStream(ids, from, end, resume).session
           /\ ~NewStream(ids, from, end, resume).started
<1> DEFINE f == NewHistory(resume)
           hs == [id \in ids |-> f]
           s == NewStream(ids, from, end, resume)
<1>1. f \in History /\ f.at = 0 /\ f.ready = FALSE
  BY DEF NewHistory, History
<1> HIDE DEF f
<1>2. hs \in [ids -> History]
  BY <1>1
<1>3. hs \in UNION {[S -> History] : S \in SUBSET Ids}
  BY <1>2
<1>4. /\ s.session = FALSE /\ s.started = FALSE /\ s.ids = ids /\ s.histories = hs
      /\ s \in Stream
  BY <1>3 DEF NewStream, Stream, f
<1>5. \A id \in ids : HistoryOK(id, db[id], hs[id], FALSE)
  BY <1>1 DEF HistoryOK
<1> HIDE DEF s, hs
<1>6. StreamOK(db, s)
  BY <1>2, <1>4, <1>5 DEF StreamOK
<1> QED BY <1>4, <1>6 DEF s

\* The heap has a top while a record is ready.
LEMMA EarliestIn ==
    ASSUME NEW db, NEW s, StreamOK(db, s), NEW some \in s.ids, s.histories[some].ready
    PROVE  /\ Earliest(s) \in s.ids /\ s.histories[Earliest(s)].ready
           /\ \A other \in s.ids \ {Earliest(s)} :
                s.histories[other].ready =>
                   Before(s.histories[Earliest(s)].head, s.histories[other].head)
<1> DEFINE heap == {id \in s.ids : s.histories[id].ready}
           head(id) == s.histories[id].head
           ticks == {head(id).tick : id \in heap}
<1>1. s.ids \subseteq Nat
  BY HistoryAssumption DEF StreamOK, Stream
<1>2. \A id \in heap : head(id).tick \in Nat /\ head(id).id = id
  BY DEF StreamOK, HistoryOK, Row
<1>3. PICK t \in ticks : \A u \in ticks : t <= u
  <2>1. ticks \subseteq Nat /\ ticks # {}
    BY <1>2
  <2> HIDE DEF ticks
  <2> QED BY <2>1, LeastNat
<1> DEFINE first == {id \in heap : head(id).tick = t}
<1>4. PICK id \in first : \A j \in first : id <= j
  <2>1. first \subseteq Nat /\ first # {}
    BY <1>1, <1>3
  <2> HIDE DEF first
  <2> QED BY <2>1, LeastNat
<1>5. \A other \in heap \ {id} : Before(head(id), head(other))
  <2> TAKE other \in heap \ {id}
  <2>1. head(other).tick \in ticks
    OBVIOUS
  <2>2. head(id).tick = t /\ t <= head(other).tick
    BY <1>3, <1>4, <2>1
  <2>3. other \in Nat /\ id \in Nat /\ other # id
    BY <1>1, <1>4
  <2>4. head(other).tick = t => id <= other
    BY <1>4
  <2>5. head(id).tick \in Nat /\ head(other).tick \in Nat /\ head(id).id = id /\ head(other).id = other
    BY <1>2, <1>4
  <2> HIDE DEF head, heap, first, ticks
  <2> QED BY <2>2, <2>3, <2>4, <2>5 DEF Before
<1>6. Earliest(s) = CHOOSE i \in heap : \A other \in heap \ {i} : Before(head(i), head(other))
  BY DEF Earliest
<1>7. id \in heap
  BY <1>4
<1> HIDE DEF heap, head
<1>8. Earliest(s) \in heap
      /\ \A other \in heap \ {Earliest(s)} : Before(head(Earliest(s)), head(other))
  BY <1>5, <1>6, <1>7
<1> QED BY <1>8 DEF heap, head

\* Taking a record.
LEMMA PoppedOK ==
    ASSUME NEW db, NEW s, StreamOK(db, s), NEW id \in s.ids
    PROVE  StreamOK(db, Popped(s, id)) /\ Popped(s, id).session = s.session
<1> DEFINE f == s.histories[id]
           g == [f EXCEPT !.ready = FALSE, !.head = None]
           hs == [s.histories EXCEPT ![id] = g]
           t == [s EXCEPT !.histories = hs, !.refill = id]
<1>1. s \in Stream /\ s.ids \in SUBSET Ids /\ HistoryOK(id, db[id], f, s.session)
  BY DEF StreamOK, Stream
<1>2. s.histories \in [s.ids -> History]
  BY DEF StreamOK, Stream, HistoryOK
<1>3. g \in History /\ g.ready = FALSE /\ g.at = f.at /\ g.done = f.done
  <2> HIDE DEF f
  <2>1. f \in History
    BY <1>1 DEF HistoryOK
  <2> QED BY <2>1 DEF History
<1>4. Popped(s, id) = t
  BY <1>1, <1>2 DEF Popped, Stream, History
<1>5. HistoryOK(id, db[id], g, s.session)
  <2> HIDE DEF g, f
  <2> QED BY <1>1, <1>3 DEF HistoryOK
<1> HIDE DEF g
<1>6. hs \in [s.ids -> History] /\ \A i \in s.ids : HistoryOK(i, db[i], hs[i], s.session)
  <2>1. \A i \in s.ids : HistoryOK(i, db[i], s.histories[i], s.session)
    BY DEF StreamOK
  <2>2. hs \in [s.ids -> History]
    BY <1>2, <1>3
  <2>3. \A i \in s.ids : hs[i] = IF i = id THEN g ELSE s.histories[i]
    BY <1>2
  <2> HIDE DEF hs
  <2> QED BY <1>5, <2>1, <2>2, <2>3
<1> HIDE DEF hs
<1>7. hs \in UNION {[S -> History] : S \in SUBSET Ids}
  BY <1>1, <1>6
<1>8. t \in Stream /\ t.ids = s.ids /\ t.session = s.session /\ t.histories = hs
  BY <1>1, <1>7 DEF Stream
<1> HIDE DEF t
<1>9. StreamOK(db, t)
  BY <1>6, <1>8 DEF StreamOK
<1> QED BY <1>4, <1>8, <1>9

-----------------------------------------------------------------------------
(* Batches. *)

\* A batch in the making, of a reader that held the session at its start or not.
Collecting(db, held) ==
    {g \in [stream : Stream, holds : BOOLEAN, rows : Seq(Row), status : {"more", "end", "threw"}] :
        /\ StreamOK(db, g.stream)
        /\ g.holds <=> g.stream.session
        /\ held => g.holds
        /\ g.status = "threw" => ~g.holds}

\* Stream::next, with the session it may have to reopen.
LEMMA TakeNextOK ==
    ASSUME NEW db \in Databases, NEW held, NEW fails, NEW g \in Collecting(db, held)
    PROVE  TakeNext(db, g, fails) \in Collecting(db, held)
<1> DEFINE s == g.stream
           needs == Wants(s) /\ ~g.holds
           u == IF needs THEN Activated(db, s) ELSE s
           t == Refilled(db, u)
           id == Earliest(t)
           record == t.histories[id].head
<1>1. /\ g \in [stream : Stream, holds : BOOLEAN, rows : Seq(Row), status : {"more", "end", "threw"}]
      /\ StreamOK(db, s) /\ (g.holds <=> s.session) /\ (held => g.holds)
  BY DEF Collecting
<1>2. StreamOK(db, u) /\ (u.session \/ ~Wants(u)) /\ (u.session <=> (g.holds \/ needs))
  <2>1. CASE needs
    <3>1. StreamOK(db, Activated(db, s)) /\ Activated(db, s).session
      BY <1>1, <2>1, ActivatedOK
    <3> QED BY <2>1, <3>1
  <2>2. CASE ~needs
    BY <1>1, <2>2
  <2> QED BY <2>1, <2>2
<1> HIDE DEF u
<1>3. StreamOK(db, t) /\ (t.session <=> (g.holds \/ needs))
  BY <1>2, RefilledOK
<1>4. PICK h \in BOOLEAN : h = (g.holds \/ needs)
  OBVIOUS
<1>5. (h <=> t.session) /\ (held => h)
  BY <1>1, <1>3, <1>4
<1>6. t \in Stream
  BY <1>3 DEF StreamOK
<1>7. TakeNext(db, g, fails) =
        IF needs /\ fails THEN [g EXCEPT !.stream = Suspended(s), !.status = "threw"]
        ELSE IF \A i \in t.ids : ~t.histories[i].ready
        THEN [g EXCEPT !.stream = t, !.holds = h, !.status = "end"]
        ELSE [stream |-> Popped(t, id), holds |-> h, rows |-> Append(g.rows, record),
              status |-> IF record.failed THEN "end" ELSE "more"]
  BY <1>4, Zenon DEF TakeNext, u
<1>8. CASE needs /\ fails
  <2> DEFINE z == Suspended(s)
             x == [g EXCEPT !.stream = z, !.status = "threw"]
  <2>1. StreamOK(db, z) /\ ~z.session /\ z \in Stream
    BY <1>1, SuspendedOK DEF StreamOK
  <2> HIDE DEF z, s
  <2>2. x \in [stream : Stream, holds : BOOLEAN, rows : Seq(Row), status : {"more", "end", "threw"}]
    BY <1>1, <2>1
  <2>3. x.stream = z /\ x.holds = g.holds /\ x.status = "threw"
    BY <1>1
  <2> HIDE DEF x
  <2>4. x \in Collecting(db, held)
    BY <1>1, <1>8, <2>1, <2>2, <2>3 DEF Collecting
  <2> QED BY <1>7, <1>8, <2>4 DEF x, z
<1> HIDE DEF t, needs
<1>9. CASE ~(needs /\ fails) /\ \A i \in t.ids : ~t.histories[i].ready
  <2> DEFINE x == [g EXCEPT !.stream = t, !.holds = h, !.status = "end"]
  <2>1. x \in [stream : Stream, holds : BOOLEAN, rows : Seq(Row), status : {"more", "end", "threw"}]
    BY <1>1, <1>4, <1>6
  <2>2. x.stream = t /\ x.holds = h /\ x.status = "end"
    BY <1>1
  <2> HIDE DEF x
  <2>3. x \in Collecting(db, held)
    BY <1>3, <1>5, <2>1, <2>2 DEF Collecting
  <2> QED BY <1>7, <1>9, <2>3 DEF x
<1>10. CASE ~(needs /\ fails) /\ ~(\A i \in t.ids : ~t.histories[i].ready)
  <2> DEFINE z == Popped(t, id)
             w == Append(g.rows, record)
             st == IF record.failed THEN "end" ELSE "more"
             x == [stream |-> z, holds |-> h, rows |-> w, status |-> st]
  <2>1. id \in t.ids /\ t.histories[id].ready
    BY <1>3, <1>10, EarliestIn
  <2>2. record \in Row
    BY <1>3, <2>1 DEF StreamOK, HistoryOK
  <2>3. StreamOK(db, z) /\ z.session = t.session /\ z \in Stream
    BY <1>3, <2>1, PoppedOK DEF StreamOK
  <2> HIDE DEF record, z
  <2>4. w \in Seq(Row) /\ st \in {"more", "end"}
    BY <1>1, <2>2
  <2> HIDE DEF w, st
  <2>5. x \in [stream : Stream, holds : BOOLEAN, rows : Seq(Row), status : {"more", "end", "threw"}]
    BY <1>4, <2>3, <2>4
  <2>6. x.stream = z /\ x.holds = h /\ x.status = st
    OBVIOUS
  <2> HIDE DEF x
  <2>7. x \in Collecting(db, held)
    BY <1>5, <2>3, <2>4, <2>5, <2>6 DEF Collecting
  <2> QED BY <1>7, <1>10, <2>7 DEF x, z, w, st, record
<1> QED BY <1>8, <1>9, <1>10

\* Collecting a batch as an iteration.
BatchRun(db, s, holds, limit, fails) ==
    CHOOSE run : run = [k \in 0..limit |->
        IF k = 0 THEN [stream |-> [s EXCEPT !.first = FALSE], holds |-> holds,
                       rows |-> <<>>, status |-> "more"]
        ELSE LET g == run[k - 1] IN IF g.status = "more" THEN TakeNext(db, g, fails) ELSE g]

\* The start of a batch, and one turn of its loop.
BatchStart(s, holds) ==
    [stream |-> [s EXCEPT !.first = FALSE], holds |-> holds, rows |-> <<>>, status |-> "more"]

BatchTurn(db, g, fails) == IF g.status = "more" THEN TakeNext(db, g, fails) ELSE g

\* A batch: the stream that comes out holds a session exactly when the batch says so.
LEMMA BatchSteps ==
    ASSUME NEW db \in Databases, NEW s, StreamOK(db, s), NEW holds \in BOOLEAN,
           holds <=> s.session, NEW limit \in Nat, NEW fails
    PROVE  LET run == BatchRun(db, s, holds, limit, fails)
           IN /\ Collected(db, s, holds, limit, fails) = run[limit]
              /\ run[0] = BatchStart(s, holds)
              /\ \A k \in 1..limit : run[k] = BatchTurn(db, run[k - 1], fails)
              /\ \A k \in 0..limit : run[k] \in Collecting(db, holds)
<1> DEFINE U == Collecting(db, holds)
           Step(g) == IF g.status = "more" THEN TakeNext(db, g, fails) ELSE g
           T == [g \in U |-> Step(g)]
           first == [s EXCEPT !.first = FALSE]
           f == [stream |-> first, holds |-> holds, rows |-> <<>>, status |-> "more"]
           run == BatchRun(db, s, holds, limit, fails)
           n == limit
<1>1. Collected(db, s, holds, limit, fails) = run[n]
  BY DEF Collected, BatchRun
<1>2. \A g \in U : Step(g) \in U
  BY TakeNextOK
<1>3. f \in U
  <2>1. s \in Stream
    BY DEF StreamOK
  <2>2. /\ first \in Stream /\ first.session = s.session /\ first.ids = s.ids
        /\ first.histories = s.histories
    BY <2>1 DEF Stream
  <2> HIDE DEF first
  <2>3. StreamOK(db, first)
    BY <2>2 DEF StreamOK
  <2>4. f \in [stream : Stream, holds : BOOLEAN, rows : Seq(Row), status : {"more", "end", "threw"}]
    BY <2>2
  <2>5. f.stream = first /\ f.holds = holds /\ f.status = "more"
    OBVIOUS
  <2> HIDE DEF f
  <2> QED BY <2>2, <2>3, <2>4, <2>5 DEF Collecting
<1> HIDE DEF f
<1>4. T \in [U -> U]
  BY <1>2
<1>5. PICK i \in [0..n -> U] : i[0] = f /\ \A k \in 1..n : i[k] = T[i[k - 1]]
  <2> HIDE DEF T, U, n
  <2>1. Maps(T, U)
    BY <1>4 DEF Maps
  <2>2. Iterable(T, U, f, n)
    BY <1>3, <2>1, Iteration DEF n
  <2> QED BY <2>2 DEF Iterable
<1>6. i = [k \in 0..n |-> IF k = 0 THEN f ELSE Step(i[k - 1])]
  <2>1. \A k \in 1..n : i[k - 1] \in U
    <3> HIDE DEF U
    <3> QED OBVIOUS
  <2>2. \A k \in 1..n : i[k] = Step(i[k - 1])
    <3> HIDE DEF U, Step
    <3> QED BY <1>5, <2>1
  <2> HIDE DEF U, T, Step
  <2> QED BY <1>5, <2>2
<1>7. run = [k \in 0..n |-> IF k = 0 THEN f ELSE Step(run[k - 1])]
  <2>1. \E r : r = [k \in 0..n |-> IF k = 0 THEN f ELSE Step(r[k - 1])]
    BY <1>6
  <2> QED BY <2>1 DEF BatchRun, f
<1> HIDE DEF run
<1>8. run[0] = f /\ \A k \in 1..n : run[k] = Step(run[k - 1])
  <2> HIDE DEF Step
  <2> QED BY <1>7
<1>9. \A k \in 1..n : run[k - 1] \in U => run[k] \in U
  <2> HIDE DEF Step, U
  <2> QED BY <1>2, <1>8
<1>10. \A k \in 0..n : run[k] \in U
  <2> HIDE DEF U, Step
  <2> QED BY <1>3, <1>8, <1>9, StaysIn
<1>11. \A k \in 1..n : run[k] = BatchTurn(db, run[k - 1], fails)
  BY <1>8 DEF BatchTurn
<1>12. f = BatchStart(s, holds)
  BY DEF f, BatchStart
<1> HIDE DEF Step, U
<1> QED BY <1>1, <1>8, <1>10, <1>11, <1>12 DEF run, U

\* A batch, however it ends.
LEMMA CollectedOK ==
    ASSUME NEW db \in Databases, NEW s, StreamOK(db, s), NEW holds \in BOOLEAN,
           holds <=> s.session, NEW limit \in Nat, NEW fails
    PROVE  Collected(db, s, holds, limit, fails) \in Collecting(db, holds)
<1>1. limit \in 0..limit
  OBVIOUS
<1> QED BY <1>1, BatchSteps

-----------------------------------------------------------------------------
(* Sessions. *)

\* None is no stream, no prepared read and no reader.
LEMMA NoneIsNoStream ==
    /\ \A s \in Stream : s # None
    /\ \A x \in Prepared : x # None
    /\ \A r \in Readers : r # None
BY NoneAssumption

\* An owner with another stream.
LEMMA OwnerStream ==
    ASSUME NEW o \in Owner, NEW s \in Stream \cup {None}
    PROVE  /\ [o EXCEPT !.stream = s] \in Owner
           /\ [o EXCEPT !.stream = s].stream = s
           /\ [o EXCEPT !.stream = s].batch = o.batch
           /\ [o EXCEPT !.stream = s].prepared = o.prepared
BY DEF Owner

\* What end() leaves.
LEMMA CleanOwner == Clean \in Owner /\ Clean.stream = None /\ Clean.batch = <<>> /\ Clean.prepared = None
BY DEF Clean, Owner

\* What a session of someone else leaves of an owner.
Kept(o, n) ==
    /\ n.batch = o.batch /\ n.prepared = o.prepared
    /\ n.stream = None <=> o.stream = None
    /\ o.stream # None => n.stream.started = o.stream.started

\* A reader stays where it was when somebody else opens a session.
LEMMA KeptPlace ==
    ASSUME NEW o, NEW n, Kept(o, n), NEW p, PlaceOK(o, p)
    PROVE  PlaceOK(n, p)
BY DEF Kept, PlaceOK

\* Session: afterwards no stream has one, and every owner keeps the rest.
LEMMA OpenSessionOK ==
    ASSUME NEW dbs, NEW owners, NEW current, OwnersOK(dbs, owners, current)
    PROVE  /\ OwnersOK(dbs, OpenSession(owners, current), None)
           /\ \A r \in Readers : Kept(owners[r], OpenSession(owners, current)[r])
<1>1. CASE current = None
  <2>1. OpenSession(owners, current) = owners
    BY <1>1 DEF OpenSession
  <2> QED BY <1>1, <2>1 DEF Kept
<1>2. CASE current # None
  <2> DEFINE o == owners[current]
             t == Suspended(o.stream)
             n == [o EXCEPT !.stream = t]
             new == [owners EXCEPT ![current] = n]
  <2>1. current \in Readers /\ owners \in [Readers -> Owner] /\ o \in Owner
    BY <1>2 DEF OwnersOK
  <2>2. OpenSession(owners, current) = new
    BY <1>2, <2>1 DEF OpenSession
  <2>3. o.stream # None /\ StreamOK(dbs[current], o.stream)
    BY <2>1 DEF OwnersOK
  <2>4. StreamOK(dbs[current], t) /\ ~t.session /\ t.started = o.stream.started /\ t \in Stream
    BY <2>3, SuspendedOK DEF StreamOK
  <2> HIDE DEF t, o
  <2>5. n \in Owner /\ n.stream = t /\ n.batch = o.batch /\ n.prepared = o.prepared
    BY <2>1, <2>4, OwnerStream
  <2>6. t # None
    BY <2>4, NoneIsNoStream
  <2> HIDE DEF n
  <2>7. Kept(o, n)
    BY <2>3, <2>4, <2>5, <2>6 DEF Kept
  <2>8. new \in [Readers -> Owner] /\ \A r \in Readers : new[r] = IF r = current THEN n ELSE owners[r]
    BY <2>1, <2>5
  <2> HIDE DEF new
  <2>9. \A r \in Readers : Kept(owners[r], new[r])
    BY <2>7, <2>8 DEF Kept, o
  <2>10. ASSUME NEW r \in Readers
         PROVE  /\ new[r].stream # None => StreamOK(dbs[r], new[r].stream)
                /\ (new[r].stream # None /\ new[r].stream.session) <=> None = r
    <3>1. r # None
      BY NoneIsNoStream
    <3>2. CASE r = current
      BY <2>4, <2>5, <2>8, <3>1, <3>2
    <3>3. CASE r # current
      BY <2>8, <3>1, <3>3 DEF OwnersOK
    <3> QED BY <3>2, <3>3
  <2>11. OwnersOK(dbs, new, None)
    BY <2>8, <2>10 DEF OwnersOK
  <2> QED BY <2>2, <2>9, <2>11
<1> QED BY <1>1, <1>2

\* An owner that loses its stream.
LEMMA CleanedOK ==
    ASSUME NEW dbs, NEW owners, NEW current, OwnersOK(dbs, owners, current), NEW r \in Readers
    PROVE  OwnersOK(dbs, [owners EXCEPT ![r] = Clean], IF current = r THEN None ELSE current)
<1> DEFINE new == [owners EXCEPT ![r] = Clean]
           c == IF current = r THEN None ELSE current
<1>1. owners \in [Readers -> Owner] /\ current \in Readers \cup {None}
  BY DEF OwnersOK
<1>2. new \in [Readers -> Owner] /\ \A q \in Readers : new[q] = IF q = r THEN Clean ELSE owners[q]
  BY <1>1, CleanOwner
<1> HIDE DEF new
<1>3. ASSUME NEW q \in Readers
      PROVE  /\ new[q].stream # None => StreamOK(dbs[q], new[q].stream)
             /\ (new[q].stream # None /\ new[q].stream.session) <=> c = q
  <2>1. q # None
    BY NoneIsNoStream
  <2>2. CASE q = r
    BY <1>2, <2>1, <2>2, CleanOwner
  <2>3. CASE q # r
    BY <1>2, <2>1, <2>3 DEF OwnersOK
  <2> QED BY <2>2, <2>3
<1>4. OwnersOK(dbs, new, c)
  BY <1>1, <1>2, <1>3 DEF OwnersOK
<1> QED BY <1>4 DEF new

\* An owner that is given the session.
LEMMA GivenOK ==
    ASSUME NEW dbs, NEW owners, OwnersOK(dbs, owners, None), NEW r \in Readers,
           NEW o \in Owner, o.stream # None, StreamOK(dbs[r], o.stream), o.stream.session
    PROVE  OwnersOK(dbs, [owners EXCEPT ![r] = o], r)
<1> DEFINE new == [owners EXCEPT ![r] = o]
<1>1. owners \in [Readers -> Owner]
  BY DEF OwnersOK
<1>2. new \in [Readers -> Owner] /\ \A q \in Readers : new[q] = IF q = r THEN o ELSE owners[q]
  BY <1>1
<1> HIDE DEF new
<1>3. ASSUME NEW q \in Readers
      PROVE  /\ new[q].stream # None => StreamOK(dbs[q], new[q].stream)
             /\ (new[q].stream # None /\ new[q].stream.session) <=> r = q
  <2>1. q # None
    BY NoneIsNoStream
  <2>2. CASE q = r
    BY <1>2, <2>2
  <2>3. CASE q # r
    BY <1>2, <2>1, <2>3 DEF OwnersOK
  <2> QED BY <2>2, <2>3
<1>4. OwnersOK(dbs, new, r)
  BY <1>2, <1>3 DEF OwnersOK
<1> QED BY <1>4 DEF new

\* An owner whose stream has the session exactly when it had it before.
LEMMA ReplacedOK ==
    ASSUME NEW dbs, NEW owners, NEW current, OwnersOK(dbs, owners, current), NEW r \in Readers,
           NEW o \in Owner, o.stream # None => StreamOK(dbs[r], o.stream),
           (o.stream # None /\ o.stream.session) <=> current = r
    PROVE  OwnersOK(dbs, [owners EXCEPT ![r] = o], current)
<1> DEFINE new == [owners EXCEPT ![r] = o]
<1>1. owners \in [Readers -> Owner] /\ current \in Readers \cup {None}
  BY DEF OwnersOK
<1>2. new \in [Readers -> Owner] /\ \A q \in Readers : new[q] = IF q = r THEN o ELSE owners[q]
  BY <1>1
<1> HIDE DEF new
<1>3. ASSUME NEW q \in Readers
      PROVE  /\ new[q].stream # None => StreamOK(dbs[q], new[q].stream)
             /\ (new[q].stream # None /\ new[q].stream.session) <=> current = q
  <2>2. CASE q = r
    BY <1>2, <2>2
  <2>3. CASE q # r
    BY <1>2, <2>3 DEF OwnersOK
  <2> QED BY <2>2, <2>3
<1>4. OwnersOK(dbs, new, current)
  BY <1>1, <1>2, <1>3 DEF OwnersOK
<1> QED BY <1>4 DEF new

-----------------------------------------------------------------------------
(* The steps. *)

CallArguments == [ids : SUBSET Ids, from : Nat, end : Nat, resume : BOOLEAN]

\* A step of r that moves r to p and leaves the other owners what they hold.
Settled(r, p) ==
    /\ pc' = [pc EXCEPT ![r] = p]
    /\ database' = database
    /\ result' \in [Readers -> Results]
    /\ call' \in [Readers -> CallArguments]
    /\ OwnersOK(database, native', active')
    /\ \A q \in Readers \ {r} : Kept(native[q], native'[q])
    /\ PlaceOK(native'[r], p)

\* Such a step keeps the invariant.
LEMMA Settles ==
    ASSUME StreamsInv, NEW r \in Readers, NEW p \in Busy \cup {"closed", "idle"}, Settled(r, p)
    PROVE  StreamsInv'
<1>1. \A q \in Readers : PlaceOK(native'[q], pc'[q])
  <2> TAKE q \in Readers
  <2>1. pc \in [Readers -> Busy \cup {"closed", "idle"}] /\ PlaceOK(native[q], pc[q])
    BY DEF StreamsInv
  <2>2. CASE q = r
    BY <2>1, <2>2 DEF Settled
  <2>3. CASE q # r
    <3>1. pc'[q] = pc[q] /\ Kept(native[q], native'[q])
      BY <2>1, <2>3 DEF Settled
    <3> QED BY <2>1, <3>1, KeptPlace
  <2> QED BY <2>2, <2>3
<1>2. /\ pc' \in [Readers -> Busy \cup {"closed", "idle"}]
      /\ database' \in [Readers -> Databases]
  BY DEF StreamsInv, Settled
<1>3. OwnersOK(database', native', active')
  BY DEF Settled
<1> QED BY <1>1, <1>2, <1>3 DEF StreamsInv, Settled, CallArguments

\* An owner that nobody touches.
LEMMA KeptSelf == ASSUME NEW o PROVE Kept(o, o)
BY DEF Kept

\* An owner that is replaced leaves the others alone.
LEMMA OthersKept ==
    ASSUME NEW owners \in [Readers -> Owner], NEW r, NEW o
    PROVE  \A q \in Readers \ {r} : Kept(owners[q], [owners EXCEPT ![r] = o][q])
BY KeptSelf

\* A session opened after the stream of r has been deleted.
LEMMA FreshSession ==
    ASSUME StreamsInv, NEW r \in Readers
    PROVE  LET owners == OpenSession([native EXCEPT ![r] = Clean], Released(r))
           IN /\ OwnersOK(database, owners, None)
              /\ \A q \in Readers \ {r} : Kept(native[q], owners[q])
              /\ owners[r] \in Owner /\ Kept(Clean, owners[r])
<1> DEFINE cleaned == [native EXCEPT ![r] = Clean]
           current == IF active = r THEN None ELSE active
           owners == OpenSession(cleaned, current)
<1>1. native \in [Readers -> Owner]
  BY DEF StreamsInv, OwnersOK
<1>2. OwnersOK(database, cleaned, current)
  <2>1. OwnersOK(database, native, active)
    BY DEF StreamsInv
  <2> QED BY <2>1, CleanedOK
<1>3. Released(r) = current
  BY DEF Released
<1>4. cleaned[r] = Clean /\ \A q \in Readers \ {r} : cleaned[q] = native[q]
  BY <1>1
<1> HIDE DEF cleaned, current
<1>5. OwnersOK(database, owners, None) /\ \A q \in Readers : Kept(cleaned[q], owners[q])
  BY <1>2, OpenSessionOK
<1>6. owners[r] \in Owner
  BY <1>5 DEF OwnersOK
<1> HIDE DEF owners
<1>7. /\ OwnersOK(database, owners, None)
      /\ \A q \in Readers \ {r} : Kept(native[q], owners[q])
      /\ owners[r] \in Owner /\ Kept(Clean, owners[r])
  BY <1>4, <1>5, <1>6
<1> QED BY <1>3, <1>7 DEF owners, cleaned

\* A clean owner fits every place but the middle of a traversal.
LEMMA CleanPlace ==
    ASSUME NEW o, Kept(Clean, o), NEW p, p \notin Underway
    PROVE  PlaceOK(o, p)
BY CleanOwner DEF Kept, PlaceOK

\* In particular Clean itself.
LEMMA CleanSelf == Kept(Clean, Clean)
BY KeptSelf

\* Opening a file suspends the active stream.
LEMMA OpenStep ==
    ASSUME StreamsInv, NEW r \in Readers, Open(r) PROVE StreamsInv'
<1>1. OwnersOK(database, native, active) /\ PlaceOK(native[r], pc[r])
  BY DEF StreamsInv
<1>2. OwnersOK(database, native', active') /\ \A q \in Readers : Kept(native[q], native'[q])
  BY <1>1, OpenSessionOK DEF Open
<1>3. database' = database /\ result' = result /\ call' = call
  BY DEF Open, rust, reading
<1>4. result \in [Readers -> Results] /\ call \in [Readers -> CallArguments]
  BY DEF StreamsInv, CallArguments
<1>5. pc \in [Readers -> Busy \cup {"closed", "idle"}] /\ pc[r] = "closed"
  BY DEF StreamsInv, Open
<1>6. PlaceOK(native'[r], "closed") /\ PlaceOK(native'[r], "idle")
  <2>1. PlaceOK(native'[r], pc[r])
    BY <1>1, <1>2, KeptPlace
  <2> QED BY <1>5, <2>1 DEF PlaceOK, Underway
<1>7. CASE pc' = [pc EXCEPT ![r] = "idle"]
  <2>1. Settled(r, "idle")
    BY <1>2, <1>3, <1>4, <1>6, <1>7 DEF Settled
  <2> QED BY <2>1, Settles
<1>8. CASE pc' = pc
  <2>1. pc' = [pc EXCEPT ![r] = "closed"]
    BY <1>5, <1>8
  <2>2. Settled(r, "closed")
    BY <1>2, <1>3, <1>4, <1>6, <2>1 DEF Settled
  <2> QED BY <2>2, Settles
<1> QED BY <1>7, <1>8 DEF Open

\* The steps that delete the stream of r.
LEMMA Cleans ==
    ASSUME StreamsInv, NEW r \in Readers, NEW p \in (Busy \cup {"closed", "idle"}) \ Underway,
           native' = [native EXCEPT ![r] = Clean], active' = Released(r),
           pc' = [pc EXCEPT ![r] = p], database' = database,
           result' \in [Readers -> Results], call' \in [Readers -> CallArguments]
    PROVE  StreamsInv'
<1>1. native \in [Readers -> Owner] /\ OwnersOK(database, native, active)
  BY DEF StreamsInv, OwnersOK
<1>2. OwnersOK(database, native', active')
  BY <1>1, CleanedOK DEF Released
<1>3. \A q \in Readers \ {r} : Kept(native[q], native'[q])
  BY <1>1, OthersKept
<1>4. native'[r] = Clean
  BY <1>1
<1>5. PlaceOK(native'[r], p)
  BY <1>4, CleanSelf, CleanPlace
<1>6. Settled(r, p)
  BY <1>2, <1>3, <1>5 DEF Settled
<1> QED BY <1>6, Settles

\* Dropping a reader deletes its stream.
LEMMA CloseStep ==
    ASSUME StreamsInv, NEW r \in Readers, Close(r) PROVE StreamsInv'
<1>1. /\ native' = [native EXCEPT ![r] = Clean] /\ active' = Released(r)
      /\ pc' = [pc EXCEPT ![r] = "closed"] /\ database' = database
      /\ result' = result /\ call' = call
  BY DEF Close, reading
<1>2. result' \in [Readers -> Results] /\ call' \in [Readers -> CallArguments]
  BY <1>1 DEF StreamsInv, CallArguments
<1>3. "closed" \in (Busy \cup {"closed", "idle"}) \ Underway
  BY DEF Underway
<1> QED BY <1>1, <1>2, <1>3, Cleans

\* The end of a traversal.
LEMMA EndStep ==
    ASSUME StreamsInv, NEW r \in Readers, EndTraversal(r) PROVE StreamsInv'
<1>1. /\ native' = [native EXCEPT ![r] = Clean] /\ active' = Released(r)
      /\ pc' = [pc EXCEPT ![r] = "idle"] /\ database' = database
      /\ result' = [result EXCEPT ![r] = "none"] /\ call' = [call EXCEPT ![r] = NoRead]
  BY DEF EndTraversal, Ended
<1>2. NoRead \in CallArguments /\ "none" \in Results
  BY DEF NoRead, CallArguments, Results
<1>3. result' \in [Readers -> Results] /\ call' \in [Readers -> CallArguments]
  BY <1>1, <1>2 DEF StreamsInv, CallArguments
<1>4. "idle" \in (Busy \cup {"closed", "idle"}) \ Underway
  BY DEF Underway
<1> QED BY <1>1, <1>3, <1>4, Cleans

\* The steps that touch no owner.
LEMMA Stays ==
    ASSUME StreamsInv, NEW r \in Readers, NEW p \in Busy \cup {"closed", "idle"},
           native' = native, active' = active, PlaceOK(native[r], p),
           pc' = [pc EXCEPT ![r] = p], database' = database,
           result' \in [Readers -> Results], call' \in [Readers -> CallArguments]
    PROVE  StreamsInv'
<1>1. OwnersOK(database, native', active')
  BY DEF StreamsInv
<1>2. Settled(r, p)
  BY <1>1, KeptSelf DEF Settled
<1> QED BY <1>2, Settles

\* A prepared answer makes no native call.
LEMMA SamplePreparedStep ==
    ASSUME StreamsInv, NEW r \in Readers, NEW p, SamplePrepared(r, p) PROVE StreamsInv'
BY DEF StreamsInv, SamplePrepared, reading

\* The arguments of a point read.
LEMMA PointArguments ==
    ASSUME NEW p \in Points
    PROVE  p.ids \in SUBSET Ids /\ p.end \in Nat
BY StreamAssumption

\* A point read whose session cannot be opened.
LEMMA SampleFailsStep ==
    ASSUME StreamsInv, NEW r \in Readers, NEW p, SampleFails(r, p) PROVE StreamsInv'
<1>1. /\ pc[r] = "idle" /\ active' = None /\ pc' = pc /\ database' = database
      /\ result' = result /\ call' = call
      /\ native' = OpenSession([native EXCEPT ![r] = Clean], Released(r))
  BY DEF SampleFails, reading
<1>2. /\ OwnersOK(database, native', None)
      /\ \A q \in Readers \ {r} : Kept(native[q], native'[q])
      /\ Kept(Clean, native'[r])
  BY <1>1, FreshSession
<1>3. PlaceOK(native'[r], "idle")
  BY <1>2, CleanPlace DEF Underway
<1>4. /\ pc' = [pc EXCEPT ![r] = "idle"]
      /\ result' \in [Readers -> Results] /\ call' \in [Readers -> CallArguments]
  BY <1>1 DEF StreamsInv, CallArguments
<1>5. Settled(r, "idle")
  BY <1>1, <1>2, <1>3, <1>4 DEF Settled
<1> QED BY <1>5, Settles

\* A point read: its certified answers, and a stream for the others.
LEMMA SampleBitsStep ==
    ASSUME StreamsInv, NEW r \in Readers, NEW p \in Points, SampleBits(r, p) PROVE StreamsInv'
<1>1. /\ pc[r] = "idle" /\ pc' = pc /\ database' = database /\ result' = result /\ call' = call
      /\ Unsampled(r, p) \/ Sampled(r, p)
  BY DEF SampleBits, reading
<1>2. /\ pc' = [pc EXCEPT ![r] = "idle"]
      /\ result' \in [Readers -> Results] /\ call' \in [Readers -> CallArguments]
  BY <1>1 DEF StreamsInv, CallArguments
<1>3. CASE Unsampled(r, p)
  <2>1. native' = [native EXCEPT ![r] = Clean] /\ active' = Released(r)
    BY <1>3 DEF Unsampled
  <2>2. "idle" \in (Busy \cup {"closed", "idle"}) \ Underway
    BY DEF Underway
  <2> QED BY <1>1, <1>2, <2>1, <2>2, Cleans
<1>4. CASE Sampled(r, p)
  <2> DEFINE answers == [id \in p.ids |-> CertifiedPoint(id, database[r][id], p.end)]
             missing == {id \in p.ids : answers[id] = None}
             kept == missing # {} /\ (p.prepare \/ missing # p.ids)
             owners == OpenSession([native EXCEPT ![r] = Clean], Released(r))
             s == NewStream(missing, 0, p.end, FALSE)
             t == Activated(database[r], s)
             prepared == [ids |-> missing, end |-> p.end]
             o == [stream |-> t, batch |-> <<>>, prepared |-> prepared]
  <2>1. /\ native' = IF kept THEN [owners EXCEPT ![r] = o] ELSE owners
        /\ active' = IF kept THEN r ELSE None
    BY <1>4 DEF Sampled
  <2>2. /\ OwnersOK(database, owners, None)
        /\ \A q \in Readers \ {r} : Kept(native[q], owners[q])
        /\ Kept(Clean, owners[r])
    BY FreshSession
  <2>3. missing \in SUBSET Ids /\ p.end \in Nat /\ database[r] \in Databases
    BY PointArguments DEF StreamsInv
  <2> HIDE DEF missing, owners
  <2>4. StreamOK(database[r], s) /\ ~s.session /\ ~s.started
    BY <2>3, NewStreamOK
  <2> HIDE DEF s
  <2>5. StreamOK(database[r], t) /\ t.session /\ t.started = s.started
    BY <2>3, <2>4, ActivatedOK
  <2>6. t \in Stream /\ t # None /\ prepared \in Prepared /\ prepared # None
    BY <2>3, <2>5, NoneIsNoStream DEF StreamOK, Prepared
  <2> HIDE DEF t, prepared
  <2>7. o \in Owner /\ o.stream = t /\ o.batch = <<>> /\ o.prepared = prepared
    BY <2>6 DEF Owner
  <2> HIDE DEF o
  <2>8. CASE kept
    <3>1. native' = [owners EXCEPT ![r] = o] /\ active' = r
      BY <2>1, <2>8
    <3>2. OwnersOK(database, native', active')
      BY <2>2, <2>5, <2>6, <2>7, <3>1, GivenOK
    <3>3. native'[r] = o /\ \A q \in Readers \ {r} : native'[q] = owners[q]
      BY <2>2, <3>1 DEF OwnersOK
    <3>4. PlaceOK(native'[r], "idle")
      BY <2>4, <2>5, <2>6, <2>7, <3>3 DEF PlaceOK, Underway
    <3>5. Settled(r, "idle")
      BY <1>1, <1>2, <2>2, <3>2, <3>3, <3>4 DEF Settled
    <3> QED BY <3>5, Settles
  <2>9. CASE ~kept
    <3>1. native' = owners /\ active' = None
      BY <2>1, <2>9
    <3>2. PlaceOK(native'[r], "idle")
      BY <2>2, <3>1, CleanPlace DEF Underway
    <3>3. Settled(r, "idle")
      BY <1>1, <1>2, <2>2, <3>1, <3>2 DEF Settled
    <3> QED BY <3>3, Settles
  <2> QED BY <2>8, <2>9
<1> QED BY <1>1, <1>3, <1>4

\* The Rust side of a read.
LEMMA StartReadStep ==
    ASSUME StreamsInv, NEW r \in Readers, NEW c \in Reads, StartRead(r, c) PROVE StreamsInv'
<1>1. /\ pc[r] = "idle" /\ pc' = [pc EXCEPT ![r] = "begin"] /\ database' = database
      /\ result' = [result EXCEPT ![r] = "running"] /\ call' = [call EXCEPT ![r] = c]
      /\ native' = native /\ active' = active
  BY DEF StartRead
<1>2. c \in CallArguments /\ "running" \in Results
  BY StreamAssumption DEF CallArguments, Results
<1>3. result' \in [Readers -> Results] /\ call' \in [Readers -> CallArguments]
  BY <1>1, <1>2 DEF StreamsInv, CallArguments
<1>4. PlaceOK(native[r], "idle")
  BY <1>1 DEF StreamsInv
<1>5. PlaceOK(native[r], "begin") /\ "begin" \in Busy \cup {"closed", "idle"}
  BY <1>4 DEF PlaceOK, Underway, Busy
<1> QED BY <1>1, <1>3, <1>5, Stays

\* An empty interval.
LEMMA ReadNothingStep ==
    ASSUME StreamsInv, NEW r \in Readers, ReadNothing(r) PROVE StreamsInv'
<1>1. /\ pc[r] = "begin" /\ pc' = [pc EXCEPT ![r] = "ending"] /\ database' = database
      /\ result' = [result EXCEPT ![r] = "ok"] /\ call' = call
      /\ native' = native /\ active' = active
  BY DEF ReadNothing, Leave
<1>2. result' \in [Readers -> Results] /\ call' \in [Readers -> CallArguments]
  BY <1>1 DEF StreamsInv, CallArguments, Results
<1>3. PlaceOK(native[r], "begin")
  BY <1>1 DEF StreamsInv
<1>4. PlaceOK(native[r], "ending") /\ "ending" \in Busy \cup {"closed", "idle"}
  BY <1>3 DEF PlaceOK, Underway, Busy
<1> QED BY <1>1, <1>2, <1>4, Stays

\* ondas_shm_read: a prepared stream, a new one, or none.
LEMMA NativeReadStep ==
    ASSUME StreamsInv, NEW r \in Readers, NativeRead(r) PROVE StreamsInv'
<1> DEFINE c == call[r]
           owners == OpenSession([native EXCEPT ![r] = Clean], Released(r))
           s == NewStream(c.ids, c.from, c.end, c.resume)
           fresh == Activated(database[r], s)
<1>1. /\ pc[r] = "begin" /\ database' = database /\ call' = call
      /\ \/ /\ HandedOver(native[r], c)
            /\ native' = [native EXCEPT ![r].prepared = None]
            /\ pc' = [pc EXCEPT ![r] = "reading"]
            /\ active' = active /\ result' = result
         \/ /\ native' = [owners EXCEPT ![r].stream = fresh]
            /\ active' = r
            /\ pc' = [pc EXCEPT ![r] = "reading"]
            /\ result' = result
         \/ /\ native' = owners
            /\ active' = None
            /\ Leave(r, "unopened")
  BY DEF NativeRead
<1>2. /\ OwnersOK(database, owners, None)
      /\ \A q \in Readers \ {r} : Kept(native[q], owners[q])
      /\ owners[r] \in Owner /\ Kept(Clean, owners[r])
  BY FreshSession
<1>3. c \in CallArguments /\ database[r] \in Databases
  BY DEF StreamsInv, CallArguments
<1>4. StreamOK(database[r], s) /\ ~s.session
  BY <1>3, NewStreamOK DEF CallArguments
<1> HIDE DEF s
<1>5. StreamOK(database[r], fresh) /\ fresh.session /\ fresh \in Stream /\ fresh # None
  BY <1>3, <1>4, ActivatedOK, NoneIsNoStream DEF StreamOK
<1>6. call' \in [Readers -> CallArguments] /\ result \in [Readers -> Results]
  BY <1>1 DEF StreamsInv, CallArguments
<1>7. "reading" \in Busy \cup {"closed", "idle"} /\ "ending" \in Busy \cup {"closed", "idle"}
  BY DEF Busy
<1>8. OwnersOK(database, native, active) /\ native[r] \in Owner /\ PlaceOK(native[r], pc[r])
  BY DEF StreamsInv, OwnersOK
<1> HIDE DEF owners, fresh, c
<1>9. CASE /\ HandedOver(native[r], c)
           /\ native' = [native EXCEPT ![r].prepared = None]
           /\ pc' = [pc EXCEPT ![r] = "reading"]
           /\ active' = active /\ result' = result
  <2> DEFINE o == [native[r] EXCEPT !.prepared = None]
  <2>1. native' = [native EXCEPT ![r] = o]
    BY <1>9
  <2>2. o \in Owner /\ o.stream = native[r].stream /\ o.prepared = None
    BY <1>8 DEF Owner
  <2>3. native[r].stream # None
    BY <1>8, <1>9 DEF HandedOver, PlaceOK
  <2> HIDE DEF o
  <2>4. OwnersOK(database, native', active')
    <3>1. /\ o.stream # None => StreamOK(database[r], o.stream)
          /\ (o.stream # None /\ o.stream.session) <=> active = r
      BY <1>8, <2>2 DEF OwnersOK
    <3>2. OwnersOK(database, [native EXCEPT ![r] = o], active)
      BY <1>8, <2>2, <3>1, ReplacedOK
    <3> QED BY <1>9, <2>1, <3>2
  <2>5. native'[r] = o /\ \A q \in Readers \ {r} : Kept(native[q], native'[q])
    BY <1>8, <2>1, OthersKept DEF OwnersOK
  <2>6. PlaceOK(native'[r], "reading")
    BY <2>2, <2>3, <2>5 DEF PlaceOK
  <2>7. Settled(r, "reading")
    BY <1>1, <1>6, <1>9, <2>4, <2>5, <2>6 DEF Settled
  <2> QED BY <1>7, <2>7, Settles
<1>10. CASE /\ native' = [owners EXCEPT ![r].stream = fresh]
            /\ active' = r
            /\ pc' = [pc EXCEPT ![r] = "reading"]
            /\ result' = result
  <2> DEFINE o == [owners[r] EXCEPT !.stream = fresh]
  <2>1. native' = [owners EXCEPT ![r] = o]
    BY <1>10
  <2>2. o \in Owner /\ o.stream = fresh
    BY <1>2, <1>5, OwnerStream
  <2> HIDE DEF o
  <2>3. OwnersOK(database, native', active')
    <3>1. OwnersOK(database, [owners EXCEPT ![r] = o], r)
      BY <1>2, <1>5, <2>2, GivenOK
    <3> QED BY <1>10, <2>1, <3>1
  <2>4. native'[r] = o /\ \A q \in Readers \ {r} : native'[q] = owners[q]
    BY <1>2, <2>1 DEF OwnersOK
  <2>5. PlaceOK(native'[r], "reading")
    BY <1>5, <2>2, <2>4 DEF PlaceOK
  <2>6. Settled(r, "reading")
    BY <1>1, <1>2, <1>6, <1>10, <2>3, <2>4, <2>5 DEF Settled
  <2> QED BY <1>7, <2>6, Settles
<1>11. CASE native' = owners /\ active' = None /\ Leave(r, "unopened")
  <2>1. PlaceOK(native'[r], "ending")
    BY <1>2, <1>11, CleanPlace DEF Underway
  <2>2. pc' = [pc EXCEPT ![r] = "ending"] /\ result' = [result EXCEPT ![r] = "unopened"]
    BY <1>11 DEF Leave
  <2>3. result' \in [Readers -> Results]
    BY <1>6, <2>2 DEF Results, Errors
  <2>4. Settled(r, "ending")
    BY <1>1, <1>2, <1>6, <1>11, <2>1, <2>2, <2>3 DEF Settled
  <2> QED BY <1>7, <2>4, Settles
<1> QED BY <1>1, <1>9, <1>10, <1>11

\* What the Rust side does with a record moves the reader on.
LEMMA TakeMoves ==
    ASSUME StreamsInv, NEW r \in Readers, NEW record, Take(r, record)
    PROVE  /\ \E p \in {"ending", "passed", "visit"} : pc' = [pc EXCEPT ![r] = p]
           /\ result' \in [Readers -> Results]
<1>1. result \in [Readers -> Results]
  BY DEF StreamsInv
<1>2. "disorder" \in Results /\ "error" \in Results
  BY DEF Results, Errors
<1> QED BY <1>1, <1>2 DEF Take, Leave

\* A record of the last batch.
LEMMA NextBufferedStep ==
    ASSUME StreamsInv, NEW r \in Readers, NextBuffered(r) PROVE StreamsInv'
<1> DEFINE b == native[r].batch
           o == [native[r] EXCEPT !.batch = Tail(b)]
<1>1. /\ pc[r] = "reading" /\ b # <<>> /\ native' = [native EXCEPT ![r].batch = Tail(b)]
      /\ Take(r, Head(b)) /\ database' = database /\ active' = active /\ call' = call
  BY DEF NextBuffered
<1>2. OwnersOK(database, native, active) /\ native[r] \in Owner /\ PlaceOK(native[r], pc[r])
  BY DEF StreamsInv, OwnersOK
<1>3. PICK p \in {"ending", "passed", "visit"} : pc' = [pc EXCEPT ![r] = p]
  BY <1>1, TakeMoves
<1>4. result' \in [Readers -> Results] /\ call' \in [Readers -> CallArguments]
  BY <1>1, TakeMoves DEF StreamsInv, CallArguments
<1>5. Tail(b) \in Seq(Row)
  <2>1. b \in Seq(Row)
    BY <1>2 DEF Owner
  <2> QED BY <1>1, <2>1, HeadTailProperties
<1>6. /\ native' = [native EXCEPT ![r] = o]
      /\ o \in Owner /\ o.stream = native[r].stream /\ o.prepared = native[r].prepared
  BY <1>1, <1>2, <1>5 DEF Owner
<1> HIDE DEF o
<1>7. OwnersOK(database, native', active')
  <2>1. /\ o.stream # None => StreamOK(database[r], o.stream)
        /\ (o.stream # None /\ o.stream.session) <=> active = r
    BY <1>2, <1>6 DEF OwnersOK
  <2>2. OwnersOK(database, [native EXCEPT ![r] = o], active)
    BY <1>2, <1>6, <2>1, ReplacedOK
  <2> QED BY <1>1, <1>6, <2>2
<1>8. native'[r] = o /\ \A q \in Readers \ {r} : Kept(native[q], native'[q])
  BY <1>2, <1>6, OthersKept DEF OwnersOK
<1>9. PlaceOK(native'[r], p)
  BY <1>1, <1>2, <1>6, <1>8 DEF PlaceOK, Underway
<1>10. Settled(r, p) /\ p \in Busy \cup {"closed", "idle"}
  BY <1>1, <1>3, <1>4, <1>7, <1>8, <1>9 DEF Settled, Busy
<1> QED BY <1>10, Settles

\* A record before the interval.
LEMMA PassOverStep ==
    ASSUME StreamsInv, NEW r \in Readers, PassOver(r) PROVE StreamsInv'
<1>1. /\ pc[r] = "passed" /\ pc' = [pc EXCEPT ![r] = "reading"] /\ database' = database
      /\ result' = result /\ call' = call /\ native' = native /\ active' = active
  BY DEF PassOver, rust, reading
<1>2. result' \in [Readers -> Results] /\ call' \in [Readers -> CallArguments]
  BY <1>1 DEF StreamsInv, CallArguments
<1>3. PlaceOK(native[r], "passed")
  BY <1>1 DEF StreamsInv
<1>4. PlaceOK(native[r], "reading") /\ "reading" \in Busy \cup {"closed", "idle"}
  BY <1>3 DEF PlaceOK, Underway, Busy
<1> QED BY <1>1, <1>2, <1>4, Stays

\* The visitor.
LEMMA VisitStep ==
    ASSUME StreamsInv, NEW r \in Readers, Visit(r) PROVE StreamsInv'
<1>1. /\ pc[r] = "visit" /\ database' = database /\ call' = call
      /\ native' = native /\ active' = active
  BY DEF Visit
<1>2. PlaceOK(native[r], "visit")
  BY <1>1 DEF StreamsInv
<1>3. call' \in [Readers -> CallArguments]
  BY <1>1 DEF StreamsInv, CallArguments
<1>4. /\ \E p \in {"ending", "reading"} : pc' = [pc EXCEPT ![r] = p]
      /\ result' \in [Readers -> Results]
  <2>1. result \in [Readers -> Results] /\ {"break", "panic", "error"} \subseteq Results
    BY DEF StreamsInv, Results, Errors
  <2> QED BY <2>1 DEF Visit, Leave
<1>5. PICK p \in {"ending", "reading"} : pc' = [pc EXCEPT ![r] = p]
  BY <1>4
<1>6. PlaceOK(native[r], p) /\ p \in Busy \cup {"closed", "idle"}
  BY <1>2 DEF PlaceOK, Underway, Busy
<1> QED BY <1>1, <1>3, <1>4, <1>5, <1>6, Stays

\* A batch of r that has been collected.
BatchFits(r, g) ==
    /\ g \in [stream : Stream, holds : BOOLEAN, rows : Seq(Row), status : {"more", "end", "threw"}]
    /\ StreamOK(database[r], g.stream)
    /\ g.holds <=> g.stream.session
    /\ active = r => g.holds
    /\ g.status = "threw" => ~g.holds

\* What ondas_shm_next collects for r.
LEMMA BatchOK ==
    ASSUME StreamsInv, NEW r \in Readers, pc[r] = "reading",
           NEW limit \in 1..BatchLimit(native[r].stream), NEW fails
    PROVE  BatchFits(r, Collected(database[r], native[r].stream, active = r, limit, fails))
<1> DEFINE s == native[r].stream
<1>1. s # None
  BY DEF StreamsInv, PlaceOK, Underway
<1>2. database[r] \in Databases /\ StreamOK(database[r], s) /\ (s.session <=> active = r)
  BY <1>1 DEF StreamsInv, OwnersOK
<1>3. PICK holds \in BOOLEAN : holds = (active = r)
  OBVIOUS
<1> DEFINE g == Collected(database[r], s, holds, limit, fails)
<1>4. g = Collected(database[r], s, active = r, limit, fails)
  BY <1>3, Zenon
<1>5. limit \in Nat
  BY StreamAssumption DEF BatchLimit
<1> HIDE DEF s
<1>6. holds <=> s.session
  BY <1>2, <1>3
<1>7. g \in Collecting(database[r], holds)
  BY <1>2, <1>5, <1>6, CollectedOK
<1>8. active = r => holds
  BY <1>3
<1> HIDE DEF g
<1>9. BatchFits(r, g)
  BY <1>7, <1>8 DEF Collecting, BatchFits
<1> QED BY <1>4, <1>9, Zenon DEF s

\* ondas_shm_next with a new batch.
LEMMA NextBatchStep ==
    ASSUME StreamsInv, NEW r \in Readers, NextBatch(r) PROVE StreamsInv'
<1>1. pc[r] = "reading" /\ database' = database /\ call' = call
  BY DEF NextBatch
<1>2. PICK limit \in 1..BatchLimit(native[r].stream), fails \in {FALSE, "session" \in Faults} :
        LET g == Collected(database[r], native[r].stream, active = r, limit, fails)
            opened == g.status = "threw" \/ (g.holds /\ active # r)
            owners == IF opened THEN OpenSession(native, active) ELSE native
        IN /\ active' = IF g.status = "threw" THEN None ELSE IF g.holds THEN r ELSE active
           /\ native' = [owners EXCEPT ![r].stream = g.stream,
                            ![r].batch = IF g.rows = <<>> THEN <<>> ELSE Tail(g.rows)]
           /\ IF g.status = "threw" THEN Leave(r, "unopened") /\ UNCHANGED <<item, previous>>
              ELSE IF g.rows = <<>> THEN Leave(r, "ok") /\ UNCHANGED <<item, previous>>
              ELSE Take(r, Head(g.rows))
  BY Zenon DEF NextBatch
<1> DEFINE g == Collected(database[r], native[r].stream, active = r, limit, fails)
           opened == g.status = "threw" \/ (g.holds /\ active # r)
           owners == IF opened THEN OpenSession(native, active) ELSE native
           current == IF opened THEN None ELSE active
           rest == IF g.rows = <<>> THEN <<>> ELSE Tail(g.rows)
           o == [owners[r] EXCEPT !.stream = g.stream, !.batch = rest]
<1>3. BatchFits(r, g)
  BY <1>1, BatchOK, Zenon
<1>4. /\ active' = IF g.status = "threw" THEN None ELSE IF g.holds THEN r ELSE active
      /\ native' = [owners EXCEPT ![r].stream = g.stream, ![r].batch = rest]
      /\ IF g.status = "threw" THEN Leave(r, "unopened")
         ELSE IF g.rows = <<>> THEN Leave(r, "ok")
         ELSE Take(r, Head(g.rows))
  BY <1>2, Zenon
<1> HIDE DEF g
<1> USE DEF BatchFits
<1>5. /\ \E p \in {"ending", "passed", "visit"} : pc' = [pc EXCEPT ![r] = p]
      /\ result' \in [Readers -> Results]
  <2>1. CASE Take(r, Head(g.rows))
    BY <2>1, TakeMoves
  <2>2. CASE Leave(r, "unopened") \/ Leave(r, "ok")
    <3>1. result \in [Readers -> Results] /\ "unopened" \in Results /\ "ok" \in Results
      BY DEF StreamsInv, Results, Errors
    <3> QED BY <2>2, <3>1 DEF Leave
  <2> QED BY <1>4, <2>1, <2>2
<1>6. call' \in [Readers -> CallArguments]
  BY <1>1 DEF StreamsInv, CallArguments
<1>7. OwnersOK(database, native, active)
  BY DEF StreamsInv
<1>8. /\ OwnersOK(database, owners, current)
      /\ \A q \in Readers : Kept(native[q], owners[q])
  BY <1>7, OpenSessionOK, KeptSelf
<1>9. rest \in Seq(Row)
  BY <1>3, HeadTailProperties
<1>10. owners \in [Readers -> Owner]
  BY <1>8 DEF OwnersOK
<1> HIDE DEF owners, rest
<1>11. owners[r] \in Owner /\ native' = [owners EXCEPT ![r] = o]
  BY <1>4, <1>10
<1>12. o \in Owner /\ o.stream = g.stream
  BY <1>3, <1>9, <1>11 DEF Owner
<1>13. g.stream # None
  BY <1>3, NoneIsNoStream
<1> HIDE DEF o
<1>14. OwnersOK(database, [owners EXCEPT ![r] = o], active')
  <2>1. r # None
    BY NoneIsNoStream
  <2>2. CASE g.holds /\ active # r
    <3>1. current = None /\ active' = r
      BY <1>3, <1>4, <2>2
    <3>2. OwnersOK(database, owners, None)
      BY <1>8, <3>1
    <3>3. OwnersOK(database, [owners EXCEPT ![r] = o], r)
      BY <1>3, <1>12, <1>13, <2>2, <3>2, GivenOK
    <3> QED BY <3>1, <3>3
  <2>3. CASE ~(g.holds /\ active # r)
    <3>1. active' = current /\ (g.stream.session <=> current = r)
      BY <1>3, <1>4, <2>1, <2>3
    <3> HIDE DEF current
    <3>2. OwnersOK(database, [owners EXCEPT ![r] = o], current)
      BY <1>3, <1>8, <1>12, <1>13, <3>1, ReplacedOK
    <3> QED BY <3>1, <3>2
  <2> QED BY <2>2, <2>3
<1>15. native'[r] = o /\ \A q \in Readers \ {r} : native'[q] = owners[q]
  BY <1>10, <1>11
<1>16. PICK p \in {"ending", "passed", "visit"} : pc' = [pc EXCEPT ![r] = p]
  BY <1>5
<1>17. PlaceOK(native'[r], p)
  BY <1>12, <1>13, <1>15 DEF PlaceOK
<1>18. OwnersOK(database, native', active')
  BY <1>11, <1>14
<1>19. \A q \in Readers \ {r} : Kept(native[q], native'[q])
  BY <1>8, <1>15
<1>20. Settled(r, p)
  BY <1>1, <1>5, <1>6, <1>16, <1>17, <1>18, <1>19 DEF Settled
<1>21. p \in Busy \cup {"closed", "idle"}
  BY DEF Busy
<1> QED BY <1>20, <1>21, Settles

-----------------------------------------------------------------------------
(* The theorems. *)

\* The invariant holds at first ...
LEMMA InitOK == Init => StreamsInv
<1> SUFFICES ASSUME Init PROVE StreamsInv
  OBVIOUS
<1>1. OwnersOK(database, native, active)
  <2>1. native \in [Readers -> Owner] /\ \A r \in Readers : native[r] = Clean
    BY CleanOwner DEF Init
  <2>2. active = None /\ \A r \in Readers : r # None
    BY NoneIsNoStream DEF Init
  <2> QED BY <2>1, <2>2, CleanOwner DEF OwnersOK
<1>2. \A r \in Readers : PlaceOK(native[r], pc[r])
  BY CleanOwner DEF Init, PlaceOK, Underway
<1>3. call \in [Readers -> [ids : SUBSET Ids, from : Nat, end : Nat, resume : BOOLEAN]]
  BY DEF Init, NoRead
<1>4. /\ database \in [Readers -> Databases]
      /\ pc \in [Readers -> Busy \cup {"closed", "idle"}]
      /\ result \in [Readers -> Results]
  BY DEF Init, Results
<1> QED BY <1>1, <1>2, <1>3, <1>4 DEF StreamsInv

\* ... and every step of every reader keeps it.
LEMMA NextOK ==
    ASSUME StreamsInv, [Next]_vars PROVE StreamsInv'
<1>1. CASE UNCHANGED vars
  BY <1>1 DEF vars, StreamsInv
<1>2. CASE Next
  <2>1. PICK r \in Readers :
          \/ Open(r) \/ Close(r) \/ ReadStep(r)
          \/ \E p \in Points : SamplePrepared(r, p) \/ SampleBits(r, p) \/ SampleFails(r, p)
          \/ \E c \in Reads : StartRead(r, c)
    BY <1>2 DEF Next
  <2>2. CASE Open(r)
    BY <2>2, OpenStep
  <2>3. CASE Close(r)
    BY <2>3, CloseStep
  <2>4. CASE ReadStep(r)
    BY <2>4, ReadNothingStep, NativeReadStep, NextBufferedStep, NextBatchStep, PassOverStep,
       VisitStep, EndStep DEF ReadStep
  <2>5. CASE \E p \in Points : SamplePrepared(r, p) \/ SampleBits(r, p) \/ SampleFails(r, p)
    BY <2>5, SamplePreparedStep, SampleBitsStep, SampleFailsStep
  <2>6. CASE \E c \in Reads : StartRead(r, c)
    BY <2>6, StartReadStep
  <2> QED BY <2>1, <2>2, <2>3, <2>4, <2>5, <2>6
<1> QED BY <1>1, <1>2

\* The invariant above holds in every state, for every set of readers and files.
THEOREM StreamsStaySound == Spec => []StreamsInv
BY InitOK, NextOK, PTL DEF Spec

\* It implies what the runs check.
LEMMA InvSession == StreamsInv => SessionInv
<1> SUFFICES ASSUME StreamsInv PROVE SessionInv
  OBVIOUS
<1>1. OneSession
  BY DEF StreamsInv, OwnersOK, OneSession
<1>2. active \in Readers \cup {None} /\ pc \in [Readers -> Busy \cup {"closed", "idle"}]
  BY DEF StreamsInv, OwnersOK
<1>3. ASSUME NEW r \in Readers
      PROVE  /\ result[r] \in {"none", "running", "ok", "break", "panic"} \cup Errors
             /\ native[r].prepared # None => native[r].stream # None
             /\ native[r].stream # None =>
                  \A id \in native[r].stream.ids :
                     native[r].stream.histories[id].at \in
                        IF native[r].stream.session THEN 0..Len(database[r][id]) ELSE {0}
  <2>1. result[r] \in Results
    BY DEF StreamsInv
  <2>2. PlaceOK(native[r], pc[r])
    BY DEF StreamsInv
  <2>3. native[r].stream # None => StreamOK(database[r], native[r].stream)
    BY DEF StreamsInv, OwnersOK
  <2>4. native[r].stream # None =>
          \A id \in native[r].stream.ids :
             native[r].stream.histories[id].at \in
                IF native[r].stream.session THEN 0..Len(database[r][id]) ELSE {0}
    BY <2>3 DEF StreamOK, HistoryOK
  <2> QED BY <2>1, <2>2, <2>4 DEF Results, PlaceOK
<1>4. TypeOK
  BY <1>2, <1>3 DEF TypeOK
<1> QED BY <1>1, <1>4 DEF SessionInv

\* However the readers of a process interrupt one another, fail, stop or close, a
\* stream has the session of SST2 exactly while it is the active stream, and a
\* history has a cursor only inside that session (native/shm.cpp: active_stream,
\* suspend, activate).
THEOREM SessionsStaySound == Spec => []SessionInv
BY StreamsStaySound, InvSession, PTL

\* ... and so is this part.
LEMMA InvKeeps == StreamsInv => KeepsNothing
BY DEF StreamsInv, PlaceOK, KeepsNothing

\* A reader between calls keeps no rows and no stream that has been read from: after
\* a break, an error or an unwinding visitor a later call starts afresh (Traversal's
\* drop and ondas_shm_end).
THEOREM NothingIsKept == Spec => []KeepsNothing
BY StreamsStaySound, InvKeeps, PTL

-----------------------------------------------------------------------------
(* Certified points. *)

\* The entries of a history are in the order of their ticks.
Sorted(h) == \A i, j \in DOMAIN h : i < j => h[i].tick <= h[j].tick

\* Entries g to n are the available ones up to the tick `end`: the others up to
\* there are a gap at the start, and nothing in them fails to decode.
Available(h, g, n, end) ==
    /\ n \in 1..Len(h) /\ g \in 1..n
    /\ \A i \in DOMAIN h : h[i].tick <= end <=> i <= n
    /\ \A i \in 1..n : h[i].state = "absent" <=> i < g
    /\ \A i \in DOMAIN h : h[i].state \in {"value", "absent"} /\ h[i].value # "wide"

\* The last entries of their ticks.
Ends(h, g, n) == {i \in g..n : i = n \/ h[i + 1].tick > h[i].tick}

\* A set of numbers with a greatest one.
LEMMA MaxIs ==
    ASSUME NEW S, S \subseteq Int, NEW m \in S, \A y \in S : y <= m
    PROVE  Max(S) = m
<1>1. PICK x \in Int : x = Max(S) /\ x \in S /\ \A y \in S : x >= y
  BY DEF Max
<1> QED BY <1>1

\* ... and its smallest.
LEMMA MinIs ==
    ASSUME NEW S, S \subseteq Int, NEW m \in S, \A y \in S : m <= y
    PROVE  Min(S) = m
<1>1. PICK x \in Int : x = Min(S) /\ x \in S /\ \A y \in S : x <= y
  BY DEF Min
<1> QED BY <1>1

\* The SDK's seek divides a sorted history.
LEMMA SeekDivides ==
    ASSUME NEW h \in Seq(Entry), Sorted(h), NEW tick \in Int
    PROVE  /\ Seek(h, tick) \in 0..Len(h)
           /\ \A i \in DOMAIN h : h[i].tick <= tick <=> i <= Seek(h, tick)
<1> DEFINE T == {i \in DOMAIN h : h[i].tick <= tick}
<1>1. Len(h) \in Nat /\ DOMAIN h = 1..Len(h)
  BY LenProperties
<1>2. \A i \in DOMAIN h : h[i].tick \in Nat
  <2>1. \A i \in DOMAIN h : h[i] \in Entry
    BY <1>1, ElementOfSeq
  <2> QED BY <2>1 DEF Entry
<1>3. CASE T = {}
  <2>1. Max({0} \cup T) = 0
    <3> HIDE DEF T
    <3> QED BY <1>3, MaxIs
  <2>2. Seek(h, tick) = 0
    BY <2>1 DEF Seek
  <2> QED BY <1>1, <1>2, <1>3, <2>2
<1>4. CASE T # {}
  <2>1. PICK m \in T : \A y \in T : y <= m
    <3>1. T \subseteq 1..Len(h)
      BY <1>1
    <3> HIDE DEF T
    <3> QED BY <1>1, <1>4, <3>1, GreatestPosition
  <2>2. m \in 1..Len(h) /\ h[m].tick <= tick
    BY <1>1
  <2>3. Max({0} \cup T) = m
    <3>1. {0} \cup T \subseteq Int /\ m \in {0} \cup T /\ \A y \in {0} \cup T : y <= m
      BY <1>1, <2>1
    <3> HIDE DEF T
    <3> QED BY <3>1, MaxIs
  <2>4. Seek(h, tick) = m
    BY <2>3 DEF Seek
  <2>5. ASSUME NEW i \in DOMAIN h PROVE h[i].tick <= tick <=> i <= m
    <3>1. CASE i < m
      BY <1>1, <1>2, <2>2, <3>1 DEF Sorted
    <3>2. CASE i >= m
      BY <1>1, <2>1, <2>2, <3>2
    <3> QED BY <1>1, <2>2, <3>1, <3>2
  <2> QED BY <1>1, <2>2, <2>4, <2>5
<1> QED BY <1>3, <1>4

\* point_prefix finds one gap at the start at most.
LEMMA PrefixAvailable ==
    ASSUME NEW h \in Seq(Entry), Sorted(h), NEW end \in Nat, PrefixFirst(h, end) # None,
           Len(h) >= 1,
           \A i \in DOMAIN h : h[i].state \in {"value", "absent"} /\ h[i].value # "wide"
    PROVE  \E g \in 1..Seek(h, end) :
              Available(h, g, Seek(h, end), end) /\ PrefixFirst(h, end) = h[g].tick
<1> DEFINE present == {i \in 1..Seek(h, end) : h[i].state # "absent"}
<1>1. Len(h) \in Nat /\ DOMAIN h = 1..Len(h)
  BY LenProperties
<1>2. PICK n \in 0..Len(h) : n = Seek(h, end) /\ \A i \in DOMAIN h : h[i].tick <= end <=> i <= n
  BY SeekDivides
<1>3. /\ present # {}
      /\ \A i \in (1..n) \ present, j \in present : i < j
      /\ PrefixFirst(h, end) = h[Min(present)].tick
  BY <1>2 DEF PrefixFirst
<1>4. present \subseteq 1..n
  BY <1>2
<1>5. PICK g \in present : \A y \in present : g <= y
  <2>1. present \subseteq Nat
    BY <1>4
  <2> HIDE DEF present
  <2> QED BY <1>3, <2>1, LeastNat
<1>6. Min(present) = g
  <2>1. present \subseteq Int
    BY <1>4
  <2> HIDE DEF present
  <2> QED BY <1>5, <2>1, MinIs
<1>7. \A i \in 1..n : i \in present <=> h[i].state # "absent"
  BY <1>2
<1> HIDE DEF present
<1>8. \A i \in 1..n : h[i].state = "absent" <=> i < g
  BY <1>3, <1>4, <1>5, <1>7
<1>9. g \in 1..n /\ n \in 1..Len(h)
  BY <1>1, <1>2, <1>4, <1>5
<1>10. Available(h, g, n, end)
  BY <1>2, <1>8, <1>9 DEF Available
<1> QED BY <1>2, <1>3, <1>6, <1>9, <1>10

\* What counts of such a history, and that nothing in it is broken.
LEMMA CountsAvailable ==
    ASSUME NEW db, NEW id \in Ids, Kind[id] = "bits", NEW h \in Seq(Entry), h = db[id],
           NEW end \in Nat, NEW n, NEW g, Available(h, g, n, end)
    PROVE  /\ Counted(db, id) \subseteq DOMAIN h
           /\ \A i \in 1..n : i \in Counted(db, id) <=> g <= i
           /\ \A i \in Broken(db, id) : i \in DOMAIN h /\ i > n
<1>1. Len(h) \in Nat /\ DOMAIN h = 1..Len(h) /\ n \in 1..Len(h) /\ g \in 1..n
  BY LenProperties DEF Available
<1>2. Counted(db, id) \subseteq DOMAIN h
  BY DEF Counted
<1>3. ASSUME NEW i \in 1..n PROVE i \in Counted(db, id) <=> g <= i
  <2>1. i \in DOMAIN h
    BY <1>1
  <2>2. CASE g <= i
    <3>1. h[i].state # "absent"
      BY <1>1, <2>2 DEF Available
    <3> QED BY <2>1, <2>2, <3>1 DEF Counted
  <2>3. CASE i < g
    <3>1. h[i].state = "absent"
      BY <1>1, <2>3 DEF Available
    <3>2. \A j \in 1..(i - 1) : h[j].state = "absent"
      BY <1>1, <2>3 DEF Available
    <3> QED BY <1>1, <2>1, <2>3, <3>1, <3>2 DEF Counted
  <2> QED BY <1>1, <2>2, <2>3
<1>4. ASSUME NEW i \in Broken(db, id) PROVE i \in DOMAIN h /\ i > n
  <2>1. i \in Counted(db, id) /\ (h[i].state \in {"absent", "bad"} \/ h[i].value = "wide")
    BY DEF Broken
  <2>2. i \in DOMAIN h /\ h[i].state = "absent"
    BY <1>2, <2>1 DEF Available
  <2>3. ASSUME i <= n PROVE FALSE
    <3>1. i \in 1..n
      BY <1>1, <2>2, <2>3
    <3>2. g <= i /\ i < g
      BY <1>3, <2>1, <2>2, <3>1 DEF Available
    <3> QED BY <1>1, <3>1, <3>2
  <2> QED BY <1>1, <2>2, <2>3
<1> QED BY <1>2, <1>3, <1>4

\* The record an entry stands for.
PointRow(id, h, i) == ShmRecord(id, h[i].tick, h[i].value, 0)

\* The net records of a history up to a tick are those of these entries.
NetIsEnds(db, id, end, g, n) ==
    Net(db, {id}, 0, end) = {PointRow(id, db[id], i) : i \in Ends(db[id], g, n)}

\* What a read up to the tick finds there: one record for each tick, the last entry's.
LEMMA NetAvailable ==
    ASSUME NEW db, NEW id \in Ids, Kind[id] = "bits", NEW h \in Seq(Entry), h = db[id],
           Sorted(h), NEW end \in Nat, NEW n, NEW g, Available(h, g, n, end)
    PROVE  NetIsEnds(db, id, end, g, n)
<1>1. Len(h) \in Nat /\ DOMAIN h = 1..Len(h) /\ n \in 1..Len(h) /\ g \in 1..n
  BY LenProperties DEF Available
<1>2. \A i \in DOMAIN h : h[i].tick \in Nat
  <2>1. \A i \in DOMAIN h : h[i] \in Entry
    BY <1>1, ElementOfSeq
  <2> QED BY <2>1 DEF Entry
<1>c. /\ Counted(db, id) \subseteq DOMAIN h
      /\ \A i \in 1..n : i \in Counted(db, id) <=> g <= i
      /\ \A i \in Broken(db, id) : i \in DOMAIN h /\ i > n
  BY CountsAvailable
<1>d. \A i \in DOMAIN h : h[i].tick <= end <=> i <= n
  BY DEF Available
<1>3. ASSUME NEW t \in 0..end, NEW m \in Ends(h, g, n), h[m].tick = t
      PROVE  NetRecord(db, id, t) = {PointRow(id, h, m)}
  <2> DEFINE here == AtTick(db, id, t)
             upto == {i \in here : \A j \in Broken(db, id) : i <= j}
  <2>1. m \in g..n /\ (m = n \/ h[m + 1].tick > t)
    BY <1>3 DEF Ends
  <2>2. \A i \in here : i \in g..n /\ h[i].tick = t
    <3>1. \A i \in here : i \in Counted(db, id) /\ h[i].tick = t
      BY DEF AtTick
    <3>2. \A i \in here : i \in DOMAIN h /\ i <= n
      BY <1>1, <1>2, <3>1, <1>c, <1>d
    <3> QED BY <1>1, <3>1, <3>2, <1>c
  <2>3. \A i \in g..n : h[i].tick = t => i \in here
    BY <1>1, <1>c DEF AtTick
  <2>4. upto = here
    BY <1>1, <2>2, <1>c
  <2>5. Broken(db, id) \cap here = {}
    BY <1>1, <2>2, <1>c
  <2>6. m \in here
    BY <2>1, <2>3, <1>3
  <2>7. \A y \in here : y <= m
    <3> SUFFICES ASSUME NEW y \in here, y > m PROVE FALSE
      BY <1>1, <2>1, <2>2
    <3>1. m + 1 \in DOMAIN h /\ y \in DOMAIN h /\ m + 1 <= y
      BY <1>1, <2>1, <2>2
    <3>2. h[m + 1].tick <= h[y].tick
      BY <1>1, <1>2, <3>1 DEF Sorted
    <3>3. m # n
      BY <1>1, <2>1, <2>2
    <3> QED BY <1>2, <2>1, <2>2, <3>1, <3>2, <3>3
  <2>8. Max(upto) = m
    <3>1. here \subseteq Int
      BY <1>1, <2>2
    <3> HIDE DEF here
    <3> QED BY <2>4, <2>6, <2>7, <3>1, MaxIs
  <2>9. NetRecord(db, id, t) = {ShmRecord(id, t, db[id][Max(upto)].value, 0)}
    <3>1. upto # {}
      BY <2>4, <2>6
    <3> HIDE DEF here
    <3> QED BY <2>5, <3>1 DEF NetRecord, here
  <2> QED BY <1>3, <2>8, <2>9 DEF PointRow
<1>4. ASSUME NEW t \in 0..end, \A m \in Ends(h, g, n) : h[m].tick # t
      PROVE  NetRecord(db, id, t) = {}
  <2> DEFINE here == AtTick(db, id, t)
  <2>1. \A i \in here : i \in g..n /\ h[i].tick = t
    <3>1. \A i \in here : i \in Counted(db, id) /\ h[i].tick = t
      BY DEF AtTick
    <3>2. \A i \in here : i \in DOMAIN h /\ i <= n
      BY <1>1, <1>2, <3>1, <1>c, <1>d
    <3> QED BY <1>1, <3>1, <3>2, <1>c
  <2>2. here \subseteq 1..n
    BY <1>1, <2>1
  <2>3. here = {}
    <3> SUFFICES ASSUME here # {} PROVE FALSE
      OBVIOUS
    <3>1. PICK m \in here : \A y \in here : y <= m
      <4> HIDE DEF here
      <4>1. n \in Nat
        BY <1>1
      <4> QED BY <2>2, <4>1, GreatestPosition
    <3>2. m \in g..n /\ h[m].tick = t
      BY <2>1
    <3>3. m # n /\ ~(h[m + 1].tick > t)
      BY <1>4, <3>2 DEF Ends
    <3>4. m + 1 \in g..n /\ m + 1 \in DOMAIN h /\ m \in DOMAIN h
      BY <1>1, <3>2, <3>3
    <3>5. h[m + 1].tick = t
      <4>1. h[m].tick <= h[m + 1].tick
        BY <1>1, <3>4 DEF Sorted
      <4> QED BY <1>2, <3>2, <3>3, <3>4, <4>1
    <3>6. m + 1 \in here
      BY <1>1, <3>4, <3>5, <1>c DEF AtTick
    <3> QED BY <1>1, <3>1, <3>2, <3>6
  <2> HIDE DEF here
  <2> QED BY <2>3 DEF NetRecord, here
<1>5. ASSUME NEW m \in Ends(h, g, n) PROVE h[m].tick \in 0..end
  <2>1. m \in DOMAIN h /\ m <= n
    BY <1>1 DEF Ends
  <2>2. h[m].tick <= end
    BY <2>1 DEF Available
  <2> QED BY <1>2, <2>1, <2>2
<1>6. ASSUME NEW x \in Net(db, {id}, 0, end)
      PROVE  x \in {PointRow(id, h, i) : i \in Ends(h, g, n)}
  <2>1. PICK t \in 0..end : x \in NetRecord(db, id, t)
    BY DEF Net
  <2>2. PICK m \in Ends(h, g, n) : h[m].tick = t
    BY <1>4, <2>1
  <2> QED BY <1>3, <2>1, <2>2
<1>7. ASSUME NEW m \in Ends(h, g, n) PROVE PointRow(id, h, m) \in Net(db, {id}, 0, end)
  <2>1. PointRow(id, h, m) \in NetRecord(db, id, h[m].tick)
    BY <1>3, <1>5
  <2> QED BY <1>5, <2>1 DEF Net
<1> QED BY <1>6, <1>7 DEF NetIsEnds

\* The walk back of certified_point.
Backward(h, first, v) ==
    CHOOSE back : back = [p \in DOMAIN h |->
        IF h[p].tick <= first THEN None
        ELSE LET q == Seek(h, h[p].tick - 1)
             IN IF h[q].value # v THEN h[p].tick ELSE back[q]]

\* ChangedAt is that walk.
LEMMA ChangedBackward ==
    ASSUME NEW h, NEW first, NEW end
    PROVE  ChangedAt(h, first, end) = Backward(h, first, h[Seek(h, end)].value)[Seek(h, end)]
BY DEF ChangedAt, Backward

\* Where the walk stops: at the first available tick or above another value.
Halts(h, first, v, p) == h[p].tick <= first \/ h[Seek(h, h[p].tick - 1)].value # v

\* The walk is well defined: from p it reaches the last place up to p where it stops.
LEMMA BackwardSteps ==
    ASSUME NEW h \in Seq(Entry), Sorted(h), Len(h) >= 1, NEW first \in Nat, NEW v,
           h[1].tick <= first
    PROVE  \A p \in DOMAIN h :
             Backward(h, first, v)[p] =
               IF h[p].tick <= first THEN None
               ELSE IF h[Seek(h, h[p].tick - 1)].value # v THEN h[p].tick
               ELSE Backward(h, first, v)[Seek(h, h[p].tick - 1)]
<1> DEFINE At(p) == {i \in 1..p : Halts(h, first, v, i)}
           There(p) == Max(At(p))
           Answer(m) == IF h[m].tick <= first THEN None ELSE h[m].tick
           f == [p \in DOMAIN h |-> Answer(There(p))]
           Next1(b, p) == IF h[p].tick <= first THEN None
                          ELSE LET q == Seek(h, h[p].tick - 1)
                               IN IF h[q].value # v THEN h[p].tick ELSE b[q]
<1>1. Len(h) \in Nat /\ DOMAIN h = 1..Len(h)
  BY LenProperties
<1>2. \A i \in DOMAIN h : h[i].tick \in Nat
  <2>1. \A i \in DOMAIN h : h[i] \in Entry
    BY <1>1, ElementOfSeq
  <2> QED BY <2>1 DEF Entry
<1>3. ASSUME NEW p \in DOMAIN h, NEW m \in 1..p, Halts(h, first, v, m),
             \A i \in (m + 1)..p : ~Halts(h, first, v, i)
      PROVE  There(p) = m
  <2>1. At(p) \subseteq Int /\ m \in At(p)
    BY <1>3
  <2>2. \A y \in At(p) : y <= m
    BY <1>1, <1>3
  <2> HIDE DEF At
  <2> QED BY <2>1, <2>2, MaxIs
<1>4. ASSUME NEW p \in DOMAIN h
      PROVE  \E m \in 1..p : Halts(h, first, v, m) /\ \A i \in (m + 1)..p : ~Halts(h, first, v, i)
  <2>1. 1 \in At(p) /\ At(p) \subseteq 1..p /\ p \in Nat
    BY <1>1 DEF Halts
  <2>2. PICK m \in At(p) : \A y \in At(p) : y <= m
    <3> HIDE DEF At
    <3> QED BY <2>1, GreatestPosition
  <2>3. m \in 1..p /\ Halts(h, first, v, m)
    BY <2>2
  <2>4. ASSUME NEW i \in (m + 1)..p PROVE ~Halts(h, first, v, i)
    BY <2>1, <2>2, <2>3
  <2> QED BY <2>3, <2>4
<1>5. ASSUME NEW p \in DOMAIN h PROVE f[p] = Next1(f, p)
  <2>1. CASE Halts(h, first, v, p)
    <3>1. There(p) = p
      <4>1. p \in 1..p /\ \A i \in (p + 1)..p : ~Halts(h, first, v, i)
        BY <1>1
      <4> HIDE DEF There
      <4> QED BY <1>3, <2>1, <4>1
    <3> HIDE DEF There
    <3> QED BY <2>1, <3>1 DEF Halts
  <2>2. CASE ~Halts(h, first, v, p)
    <3>1. PICK q \in 0..Len(h) : /\ q = Seek(h, h[p].tick - 1)
                                 /\ \A i \in DOMAIN h : h[i].tick <= h[p].tick - 1 <=> i <= q
      <4>1. h[p].tick - 1 \in Int
        BY <1>2
      <4> QED BY <4>1, SeekDivides
    <3>2. h[p].tick > first /\ h[q].value = v
      BY <1>2, <2>2, <3>1 DEF Halts
    <3>3. q >= 1 /\ q < p
      BY <1>1, <1>2, <3>1, <3>2
    <3>4. ASSUME NEW i \in (q + 1)..p PROVE ~Halts(h, first, v, i)
      <4>1. i \in DOMAIN h /\ h[i].tick <= h[p].tick
        <5>1. i \in DOMAIN h
          BY <1>1, <3>1
        <5> QED BY <1>1, <1>2, <5>1 DEF Sorted
      <4>2. h[i].tick = h[p].tick
        BY <1>1, <1>2, <3>1, <4>1
      <4> QED BY <2>2, <4>2 DEF Halts
    <3>5. q \in DOMAIN h
      BY <1>1, <3>1, <3>3
    <3>6. PICK m \in 1..q : Halts(h, first, v, m) /\ \A i \in (m + 1)..q : ~Halts(h, first, v, i)
      BY <1>4, <3>5
    <3>7. There(q) = m
      <4> HIDE DEF There
      <4> QED BY <1>3, <3>5, <3>6
    <3>8. There(p) = m
      <4>1. m \in 1..p /\ \A i \in (m + 1)..p : ~Halts(h, first, v, i)
        BY <1>1, <3>3, <3>4, <3>5, <3>6
      <4> HIDE DEF There
      <4> QED BY <1>3, <3>6, <4>1
    <3>9. f[p] = f[q]
      <4> HIDE DEF There, Answer
      <4> QED BY <3>5, <3>7, <3>8
    <3>10. Next1(f, p) = f[q]
      <4> HIDE DEF f
      <4> QED BY <1>2, <3>1, <3>2
    <3> QED BY <3>9, <3>10
  <2> QED BY <2>1, <2>2
<1>6. f = [p \in DOMAIN h |-> Next1(f, p)]
  <2>1. \A p \in DOMAIN h : f[p] = Next1(f, p)
    BY <1>5
  <2>2. f = [p \in DOMAIN h |-> f[p]]
    BY DEF f
  <2> HIDE DEF f, Next1
  <2> QED BY <2>1, <2>2
<1>7. \E b : b = [p \in DOMAIN h |-> Next1(b, p)]
  <2> HIDE DEF f, Next1
  <2> QED BY <1>6
<1>8. Backward(h, first, v) = [p \in DOMAIN h |-> Next1(Backward(h, first, v), p)]
  BY <1>7 DEF Backward
<1> DEFINE B == Backward(h, first, v)
<1> SUFFICES ASSUME NEW p \in DOMAIN h PROVE B[p] = Next1(B, p)
  BY Zenon
<1> HIDE DEF B, Next1
<1> QED BY <1>8 DEF B

\* From the tick t on, every net value is v.
Since(h, g, n, v, t) == \A i \in Ends(h, g, n) : h[i].tick >= t => h[i].value = v

\* The ticks from which on the net value stays v.
SinceTicks(h, g, n, v) == {h[i].tick : i \in {j \in Ends(h, g, n) : Since(h, g, n, v, h[j].tick)}}

\* The walk finds the tick at which the final value came into force.
LEMMA BackwardFinds ==
    ASSUME NEW h \in Seq(Entry), Sorted(h), NEW end \in Nat, NEW n, NEW g, NEW v,
           Available(h, g, n, end), v = h[n].value
    PROVE  Backward(h, h[g].tick, v)[n] =
             IF Since(h, g, n, v, 0) THEN None ELSE Min(SinceTicks(h, g, n, v))
<1> DEFINE B == Backward(h, h[g].tick, v)
           E == Ends(h, g, n)
           A == IF Since(h, g, n, v, 0) THEN None ELSE Min(SinceTicks(h, g, n, v))
           Wrong == {p \in E : Since(h, g, n, v, h[p].tick) /\ B[p] # A}
<1>1. Len(h) \in Nat /\ DOMAIN h = 1..Len(h) /\ n \in 1..Len(h) /\ g \in 1..n
  BY LenProperties DEF Available
<1>2. \A i \in DOMAIN h : h[i].tick \in Nat
  <2>1. \A i \in DOMAIN h : h[i] \in Entry
    BY <1>1, ElementOfSeq
  <2> QED BY <2>1 DEF Entry
<1>3. \A i, j \in DOMAIN h : i <= j => h[i].tick <= h[j].tick
  BY <1>1, <1>2 DEF Sorted
<1>4. \A p \in DOMAIN h :
        B[p] = IF h[p].tick <= h[g].tick THEN None
               ELSE IF h[Seek(h, h[p].tick - 1)].value # v THEN h[p].tick
               ELSE B[Seek(h, h[p].tick - 1)]
  <2>1. h[1].tick <= h[g].tick /\ h[g].tick \in Nat /\ Len(h) >= 1
    BY <1>1, <1>2, <1>3
  <2> QED BY <2>1, BackwardSteps
<1>5. E \subseteq g..n /\ E \subseteq DOMAIN h /\ n \in E
  BY <1>1 DEF Ends
<1>6. \A i, j \in E : i < j => h[i].tick < h[j].tick
  <2> SUFFICES ASSUME NEW i \in E, NEW j \in E, i < j PROVE h[i].tick < h[j].tick
    OBVIOUS
  <2>1. i # n /\ i + 1 <= j /\ i + 1 \in DOMAIN h /\ i \in DOMAIN h /\ j \in DOMAIN h
    BY <1>1, <1>5
  <2>2. h[i + 1].tick > h[i].tick
    BY <2>1 DEF Ends
  <2> QED BY <1>2, <1>3, <2>1, <2>2
<1>7. ASSUME NEW p \in Wrong, \A y \in Wrong : p <= y PROVE FALSE
  <2>1. p \in E /\ Since(h, g, n, v, h[p].tick) /\ B[p] # A
    OBVIOUS
  <2>2. p \in DOMAIN h /\ p \in g..n /\ h[p].tick \in Nat /\ h[g].tick \in Nat /\ g \in DOMAIN h
    BY <1>1, <1>2, <1>5, <2>1
  <2>3. CASE h[p].tick <= h[g].tick
    <3>1. \A i \in E : h[i].tick >= h[p].tick
      BY <1>1, <1>2, <1>3, <1>5, <2>2, <2>3
    <3>2. Since(h, g, n, v, 0)
      BY <2>1, <3>1 DEF Since
    <3>3. A = None
      BY <3>2
    <3> QED BY <1>4, <2>1, <2>2, <2>3, <3>3
  <2>4. CASE h[p].tick > h[g].tick
    <3>1. PICK q \in 0..Len(h) : /\ q = Seek(h, h[p].tick - 1)
                                 /\ \A i \in DOMAIN h : h[i].tick <= h[p].tick - 1 <=> i <= q
      <4>1. h[p].tick - 1 \in Int
        BY <2>2
      <4> QED BY <4>1, SeekDivides
    <3>2. g <= q /\ q < p
      BY <1>1, <2>2, <2>4, <3>1
    <3>3. q \in DOMAIN h /\ q + 1 \in DOMAIN h /\ q \in g..n
      BY <1>1, <2>2, <3>2
    <3>4. h[q].tick < h[p].tick /\ h[q + 1].tick >= h[p].tick
      BY <1>1, <1>2, <2>2, <3>1, <3>3
    <3>5. q \in E
      BY <1>2, <2>2, <3>3, <3>4 DEF Ends
    <3>6. \A i \in E : h[i].tick >= h[p].tick \/ h[i].tick <= h[q].tick
      <4> SUFFICES ASSUME NEW i \in E, h[i].tick < h[p].tick PROVE h[i].tick <= h[q].tick
        BY <1>2, <1>5, <2>2
      <4>1. i \in DOMAIN h /\ h[i].tick \in Nat
        BY <1>2, <1>5
      <4>2. i <= q
        BY <2>2, <3>1, <4>1
      <4> QED BY <1>3, <3>3, <4>1, <4>2
    <3>7. CASE h[q].value # v
      <4>1. B[p] = h[p].tick
        BY <1>2, <1>4, <2>2, <2>4, <3>1, <3>7
      <4>2. ASSUME NEW i \in E, Since(h, g, n, v, h[i].tick) PROVE h[p].tick <= h[i].tick
        <5>1. ~(h[q].tick >= h[i].tick)
          BY <3>5, <3>7, <4>2 DEF Since
        <5> QED BY <1>2, <1>5, <2>2, <3>3, <3>6, <5>1
      <4>3. ~Since(h, g, n, v, 0)
        BY <1>2, <3>3, <3>5, <3>7 DEF Since
      <4>4. Min(SinceTicks(h, g, n, v)) = h[p].tick
        <5>1. /\ SinceTicks(h, g, n, v) \subseteq Int
              /\ h[p].tick \in SinceTicks(h, g, n, v)
              /\ \A y \in SinceTicks(h, g, n, v) : h[p].tick <= y
          BY <1>2, <1>5, <2>1, <4>2 DEF SinceTicks
        <5> QED BY <5>1, MinIs
      <4> QED BY <2>1, <4>1, <4>3, <4>4
    <3>8. CASE h[q].value = v
      <4>1. B[p] = B[q]
        BY <1>2, <1>4, <2>2, <2>4, <3>1, <3>8
      <4>2. ASSUME NEW i \in E, h[i].tick >= h[q].tick PROVE h[i].value = v
        <5>1. CASE i = q
          BY <3>8, <5>1
        <5>2. CASE i # q
          <6>1. i > q
            BY <1>1, <1>2, <1>5, <1>6, <3>3, <3>5, <4>2, <5>2
          <6>2. h[i].tick >= h[p].tick
            BY <1>2, <1>5, <1>6, <3>3, <3>5, <3>6, <6>1
          <6> QED BY <2>1, <6>2 DEF Since
        <5> QED BY <5>1, <5>2
      <4>3. Since(h, g, n, v, h[q].tick)
        BY <4>2 DEF Since
      <4>4. q \in Wrong
        BY <2>1, <3>5, <4>1, <4>3
      <4>5. p <= q
        BY <1>7, <4>4
      <4> QED BY <2>2, <3>1, <3>2, <4>5
    <3> QED BY <3>7, <3>8
  <2> QED BY <2>2, <2>3, <2>4
<1>8. Wrong = {}
  <2>1. Wrong \subseteq Nat
    BY <1>1, <1>5
  <2> HIDE DEF Wrong
  <2> QED BY <1>7, <2>1, LeastNat
<1>9. Since(h, g, n, v, h[n].tick)
  <2> SUFFICES ASSUME NEW i \in E, h[i].tick >= h[n].tick PROVE h[i].value = v
    BY DEF Since
  <2>1. i = n
    BY <1>1, <1>2, <1>5, <1>6
  <2> QED BY <2>1
<1> QED BY <1>5, <1>8, <1>9

\* An answer for the tick `end` is what reading the history up to it finds.
PointExact(db, id, end, answer) ==
    LET net == {x \in Net(db, {id}, 0, end) : ~x.failed}
        final == CHOOSE x \in net : \A y \in net : y.tick <= x.tick
        since(t) == \A y \in net : y.tick >= t => y.value = final.value
    IN /\ net # {} /\ net = Net(db, {id}, 0, end)
       /\ answer.value = final.value
       /\ answer.changedAt =
            IF since(0) THEN None ELSE Min({x.tick : x \in {y \in net : since(y.tick)}})

\* A certified point is one.
LEMMA CertifiedExact ==
    ASSUME NEW db \in Databases, NEW id \in Ids, NEW end \in Nat,
           CertifiedPoint(id, db[id], end) # None
    PROVE  PointExact(db, id, end, CertifiedPoint(id, db[id], end))
<1> DEFINE h == db[id]
           n == Seek(h, end)
           answer == CertifiedPoint(id, h, end)
           net == {x \in Net(db, {id}, 0, end) : ~x.failed}
           final == CHOOSE x \in net : \A y \in net : y.tick <= x.tick
           since(t) == \A y \in net : y.tick >= t => y.value = final.value
<1>1. h \in Seq(Entry) /\ Len(h) \in Nat /\ Len(h) >= 1 /\ DOMAIN h = 1..Len(h)
  BY DatabaseFacts, LenProperties
<1>2. id \in PointTypes /\ PrefixFirst(h, end) # None
  BY DEF CertifiedPoint
<1>4. Kind[id] = "bits"
  BY <1>2, HistoryAssumption
<1>3. Sorted(h) /\ \A i \in DOMAIN h : h[i].state \in {"value", "absent"} /\ h[i].value # "wide"
  <2>1. \A i \in DOMAIN h : h[i] \in Entry
    BY <1>1, ElementOfSeq
  <2>2. \A i \in DOMAIN h : h[i].state \in {"value", "absent", "quiet", "bad"}
    BY <2>1 DEF Entry
  <2> QED BY <1>2, <1>4, <2>2, OrderAssumption DEF Sorted
<1>5. PICK g \in 1..n : Available(h, g, n, end) /\ PrefixFirst(h, end) = h[g].tick
  <2> HIDE DEF h
  <2> QED BY <1>1, <1>2, <1>3, PrefixAvailable
<1>6. answer.value = h[n].value /\ answer.changedAt = ChangedAt(h, h[g].tick, end)
  BY <1>2, <1>5 DEF CertifiedPoint
<1>7. NetIsEnds(db, id, end, g, n)
  <2>1. h = db[id]
    OBVIOUS
  <2> HIDE DEF h, n
  <2> QED BY <1>1, <1>3, <1>4, <1>5, <2>1, NetAvailable
<1>8. n \in 1..Len(h) /\ g \in 1..n /\ \A i \in DOMAIN h : h[i].tick \in Nat
  <2>1. \A i \in DOMAIN h : h[i] \in Entry
    BY <1>1, ElementOfSeq
  <2>2. \A i \in DOMAIN h : h[i].tick \in Nat
    BY <2>1 DEF Entry
  <2> QED BY <1>5, <2>2 DEF Available
<1> DEFINE v == h[n].value
           E == Ends(h, g, n)
<1> HIDE DEF h, n, answer
<1>9. E \subseteq DOMAIN h /\ n \in E /\ \A i \in E : i <= n
  BY <1>1, <1>8 DEF Ends
<1>10. \A i : /\ PointRow(id, h, i).tick = h[i].tick /\ PointRow(id, h, i).value = h[i].value
              /\ PointRow(id, h, i).failed = FALSE
  BY DEF PointRow, ShmRecord
<1> HIDE DEF E
<1>11. net = {PointRow(id, h, i) : i \in E}
  BY <1>7, <1>10 DEF E, NetIsEnds, h
<1>12. net # {} /\ net = Net(db, {id}, 0, end)
  BY <1>7, <1>9, <1>11 DEF E, NetIsEnds, h
<1>13. \A i \in E : h[i].tick <= h[n].tick /\ (h[i].tick = h[n].tick => i = n)
  <2> SUFFICES ASSUME NEW i \in E, i # n PROVE h[i].tick < h[n].tick
    BY <1>8, <1>9, <1>1
  <2>1. i \in g..n /\ i + 1 \in DOMAIN h /\ i + 1 <= n /\ h[i + 1].tick > h[i].tick
    BY <1>1, <1>8, <1>9 DEF E, Ends
  <2>2. n \in DOMAIN h /\ i \in DOMAIN h
    BY <1>1, <1>8, <1>9
  <2>3. h[i + 1].tick <= h[n].tick
    BY <1>1, <1>3, <1>8, <2>1, <2>2 DEF Sorted
  <2> QED BY <1>8, <2>1, <2>2, <2>3
<1> HIDE DEF net
<1>14. final.value = v
  <2>1. PointRow(id, h, n) \in net
    BY <1>9, <1>11
  <2>2. \A y \in net : y.tick <= PointRow(id, h, n).tick
    BY <1>10, <1>11, <1>13
  <2>3. final \in net /\ \A y \in net : y.tick <= final.tick
    BY <2>1, <2>2
  <2> HIDE DEF final
  <2>4. PICK i \in E : final = PointRow(id, h, i)
    BY <1>11, <2>3
  <2>5. h[n].tick <= h[i].tick /\ i \in DOMAIN h /\ n \in DOMAIN h
    BY <1>9, <1>10, <2>1, <2>3, <2>4
  <2>6. i = n
    BY <1>8, <1>13, <2>5
  <2> QED BY <1>10, <2>4, <2>6
<1> HIDE DEF final, v
<1>15. \A t : since(t) <=> Since(h, g, n, v, t)
  BY <1>10, <1>11, <1>14 DEF Since, E
<1>16. {x.tick : x \in {y \in net : since(y.tick)}} = SinceTicks(h, g, n, v)
  <2> HIDE DEF since
  <2>1. \A x \in {y \in net : since(y.tick)} : x.tick \in SinceTicks(h, g, n, v)
    BY <1>10, <1>11, <1>15 DEF SinceTicks, E
  <2>2. ASSUME NEW i \in E, Since(h, g, n, v, h[i].tick)
        PROVE  h[i].tick \in {x.tick : x \in {y \in net : since(y.tick)}}
    <3>1. PICK y \in net : y.tick = h[i].tick
      BY <1>10, <1>11
    <3> QED BY <1>15, <2>2, <3>1
  <2> QED BY <2>1, <2>2 DEF SinceTicks, E
<1>17. ChangedAt(h, h[g].tick, end) =
         IF Since(h, g, n, v, 0) THEN None ELSE Min(SinceTicks(h, g, n, v))
  <2>1. ChangedAt(h, h[g].tick, end) = Backward(h, h[g].tick, v)[n]
    BY ChangedBackward DEF n, v
  <2>2. v = h[n].value
    BY DEF v
  <2> QED BY <1>1, <1>3, <1>5, <2>1, <2>2, BackwardFinds
<1>18. answer.changedAt = IF since(0) THEN None ELSE Min({x.tick : x \in {y \in net : since(y.tick)}})
  <2> HIDE DEF since
  <2> QED BY <1>6, <1>15, <1>16, <1>17
<1>19. answer.value = final.value
  BY <1>6, <1>14 DEF v
<1> QED BY <1>12, <1>18, <1>19 DEF h, answer, net, final, PointExact

\* The last point read and its answers, if there are any.
PointOK(db, p) ==
    \A id \in DOMAIN p.answers :
        /\ id \in Ids /\ p.end \in Nat
        /\ p.answers[id] = CertifiedPoint(id, db[id], p.end)

PointsInv ==
    /\ database \in [Readers -> Databases]
    /\ point = [r \in Readers |-> point[r]]
    /\ \A r \in Readers : PointOK(database[r], point[r])

\* The absence of an answer is right.
LEMMA NoPointOK == ASSUME NEW db PROVE PointOK(db, NoPoint)
BY DEF PointOK, NoPoint

\* What sample_bits has found is what the histories certify.
LEMMA PointsStep == PointsInv /\ [Next]_vars => PointsInv'
<1> SUFFICES ASSUME PointsInv, [Next]_vars PROVE PointsInv'
  OBVIOUS
<1>1. CASE UNCHANGED <<database, point>>
  BY <1>1 DEF PointsInv
<1>2. ASSUME NEW r \in Readers, NEW p, PointOK(database[r], p), database' = database,
             point' = [point EXCEPT ![r] = p]
      PROVE  PointsInv'
  <2>1. \A s \in Readers : point'[s] = IF s = r THEN p ELSE point[s]
    BY <1>2 DEF PointsInv
  <2>2. point' = [s \in Readers |-> point'[s]]
    BY <1>2 DEF PointsInv
  <2> QED BY <1>2, <2>1, <2>2 DEF PointsInv
<1>3. ASSUME NEW r \in Readers, database' = database, point' = [point EXCEPT ![r] = NoPoint]
      PROVE  PointsInv'
  BY <1>2, <1>3, NoPointOK
<1>4. ASSUME NEW r \in Readers, NEW p \in Points, SampleBits(r, p) PROVE PointsInv'
  <2>1. database' = database
    BY <1>4 DEF SampleBits
  <2>2. CASE Unsampled(r, p)
    BY <1>3, <2>1, <2>2 DEF Unsampled
  <2>3. CASE Sampled(r, p)
    <3> DEFINE answers == [id \in p.ids |-> CertifiedPoint(id, database[r][id], p.end)]
               found == [end |-> p.end, answers |-> answers]
    <3>1. point' = [point EXCEPT ![r] = NoPoint] \/ point' = [point EXCEPT ![r] = found]
      BY <2>3 DEF Sampled
    <3>2. p.ids \subseteq Ids /\ p.end \in Nat
      BY StreamAssumption
    <3>3. PointOK(database[r], found)
      BY <3>2 DEF PointOK
    <3> HIDE DEF found
    <3> QED BY <1>2, <1>3, <2>1, <3>1, <3>3
  <2> QED BY <1>4, <2>2, <2>3 DEF SampleBits
<1>5. CASE UNCHANGED vars
  BY <1>1, <1>5 DEF vars
<1>6. ASSUME NEW r \in Readers, ReadStep(r) PROVE PointsInv'
  <2>1. UNCHANGED <<database, point>>
    BY <1>6 DEF ReadStep, ReadNothing, NativeRead, NextBuffered, NextBatch, PassOver, Visit,
                EndTraversal, rust
  <2> QED BY <1>1, <2>1
<1>7. ASSUME NEW r \in Readers, NEW p \in Points, SamplePrepared(r, p) \/ SampleFails(r, p)
      PROVE  PointsInv'
  BY <1>3, <1>7 DEF SamplePrepared, SampleFails
<1>8. ASSUME NEW r \in Readers, NEW c \in Reads, StartRead(r, c) PROVE PointsInv'
  BY <1>3, <1>8 DEF StartRead
<1>9. ASSUME NEW r \in Readers, Open(r) PROVE PointsInv'
  BY <1>1, <1>9 DEF Open, rust
<1>10. ASSUME NEW r \in Readers, Close(r) PROVE PointsInv'
  BY <1>3, <1>10 DEF Close
<1> QED BY <1>4, <1>5, <1>6, <1>7, <1>8, <1>9, <1>10 DEF Next

\* No point has been answered at first.
LEMMA PointsInit == Init => PointsInv
<1> SUFFICES ASSUME Init PROVE PointsInv
  OBVIOUS
<1>1. point = [r \in Readers |-> NoPoint] /\ database \in [Readers -> Databases]
  BY DEF Init
<1> QED BY <1>1, NoPointOK DEF PointsInv

\* The invariant of points implies what the runs check.
LEMMA PointsAreExact == PointsInv => SampleExact
<1> SUFFICES ASSUME PointsInv, NEW r \in Readers, NEW id \in DOMAIN point[r].answers,
                    point[r].answers[id] # None
             PROVE  PointExact(database[r], id, point[r].end, point[r].answers[id])
  BY DEF SampleExact, PointExact
<1>1. /\ id \in Ids /\ point[r].end \in Nat /\ database[r] \in Databases
      /\ point[r].answers[id] = CertifiedPoint(id, database[r][id], point[r].end)
  BY DEF PointsInv, PointOK
<1>2. CertifiedPoint(id, database[r][id], point[r].end) # None
  BY <1>1
<1> QED BY <1>1, <1>2, CertifiedExact

\* For every file whose histories are in source order, a value that sample_bits
\* certifies is the one a read of the whole history would end with, and the tick it
\* reports is the one at which that value came into force; a history with a gap after
\* its first value is never certified (certified_point, point_prefix, final_bits).
THEOREM PointsStayExact == Spec => []SampleExact
BY PointsInit, PointsStep, PointsAreExact, PTL DEF Spec

-----------------------------------------------------------------------------
(* The records of a history. *)

\* What the Rust reader makes of a row: bytes outside ASCII are a failure.
Decoded(row) == IF row.value = "wide" THEN FailedRecord(row.id, row.tick) ELSE row

\* A value has been seen among the first i entries.
Heard(h, i) == \E j \in 1..i : h[j].state \notin {"absent", "quiet"}

\* What History::fill keeps of the entries a to i of a history.
CountedIn(db, id, a, i) == {j \in a..i : j \in Counted(db, id)}

HeadIs(db, id, a, i, head) ==
    IF i \in Broken(db, id)
    THEN /\ Decoded(head) = FailedRecord(id, db[id][i].tick)
         /\ head.value = "wide" => db[id][i].value = "wide"
    ELSE IF Kind[id] = "event"
    THEN /\ head = ShmRecord(id, db[id][i].tick, None, Cardinality(CountedIn(db, id, a, i)))
         /\ Cardinality(CountedIn(db, id, a, i)) <= MaxOccurrences
    ELSE \E m \in CountedIn(db, id, a, i) :
            /\ \A j \in CountedIn(db, id, a, i) : j <= m
            /\ head = ShmRecord(id, db[id][i].tick, db[id][m].value, 0)

\* The loop of History::fill started at entry a and has read up to entry i.
Partial(db, id, end, a, f, i) ==
    /\ a \in 1..Len(db[id]) /\ i \in (a - 1)..Len(db[id])
    /\ f.available <=> Heard(db[id], i)
    /\ f.ready <=> CountedIn(db, id, a, i) # {}
    /\ \A j \in CountedIn(db, id, a, i) : db[id][j].tick = db[id][i].tick
    /\ i >= a => f.through = db[id][i].tick /\ db[id][i].tick <= end
    /\ \A j \in Broken(db, id) : j >= i /\ (j = i => f.done)
    /\ f.done => i >= a /\ f.at = i /\ (i \in Broken(db, id) \/ ~CanAdvance(db[id], i, end))
    /\ ~f.done => f.at = i + 1 /\ i + 1 <= Len(db[id]) /\ db[id][i + 1].tick <= end
    /\ f.ready => HeadIs(db, id, a, i, f.head)

\* Entry a is the first of its tick.
FirstOfTick(h, a) == \A j \in 1..(a - 1) : h[j].tick < h[a].tick

\* The facts about the histories of a file.
LEMMA HistoryFacts ==
    ASSUME NEW db \in Databases, NEW id \in Ids
    PROVE  /\ db[id] \in Seq(Entry) /\ Len(db[id]) \in Nat /\ Len(db[id]) >= 1
           /\ DOMAIN db[id] = 1..Len(db[id])
           /\ Sorted(db[id])
           /\ \A i, j \in 1..Len(db[id]) : i <= j => db[id][i].tick <= db[id][j].tick
           /\ \A i \in 1..Len(db[id]) :
                /\ db[id][i] \in Entry
                /\ db[id][i].tick \in Nat
                /\ db[id][i].value \in STRING
                /\ db[id][i].state \in {"value", "absent", "quiet", "bad"}
                /\ db[id][i].state = "quiet" => Kind[id] = "event"
                /\ db[id][i].value = "wide" => Kind[id] = "string"
<1> DEFINE h == db[id]
<1>1. h \in Seq(Entry) /\ Len(h) \in Nat /\ Len(h) >= 1 /\ DOMAIN h = 1..Len(h)
  BY DatabaseFacts, LenProperties
<1>2. \A i \in 1..Len(h) : h[i] \in Entry
  BY <1>1, ElementOfSeq
<1>3. \A i \in 1..Len(h) : h[i].tick \in Nat /\ h[i].value \in STRING
                           /\ h[i].state \in {"value", "absent", "quiet", "bad"}
  BY <1>2 DEF Entry
<1>4. Sorted(h)
  BY OrderAssumption DEF Sorted
<1>5. \A i \in 1..Len(h) : /\ h[i].state = "quiet" => Kind[id] = "event"
                           /\ h[i].value = "wide" => Kind[id] = "string"
  BY <1>1, OrderAssumption
<1> HIDE DEF h
<1>6. \A i, j \in 1..Len(h) : i <= j => h[i].tick <= h[j].tick
  BY <1>1, <1>3, <1>4 DEF Sorted
<1> QED BY <1>1, <1>2, <1>3, <1>4, <1>5, <1>6 DEF h

\* Which entries are taken.
LEMMA TakenIsCounted ==
    ASSUME NEW db \in Databases, NEW id \in Ids, NEW f, NEW q \in 1..Len(db[id]),
           f.available <=> Heard(db[id], q - 1)
    PROVE  ~Skipped(id, db[id][q], f) <=> q \in Counted(db, id)
<1>1. DOMAIN db[id] = 1..Len(db[id])
  BY HistoryFacts
<1> QED BY <1>1 DEF Skipped, Counted, Heard

\* Counting the occurrences of an event one by one.
LEMMA CountedNext ==
    ASSUME NEW db \in Databases, NEW id \in Ids, NEW a \in 1..Len(db[id]),
           NEW i \in (a - 1)..(Len(db[id]) - 1)
    PROVE  /\ IsFiniteSet(CountedIn(db, id, a, i))
           /\ Cardinality(CountedIn(db, id, a, i)) \in Nat
           /\ i + 1 \in Counted(db, id) =>
                /\ CountedIn(db, id, a, i + 1) = CountedIn(db, id, a, i) \cup {i + 1}
                /\ Cardinality(CountedIn(db, id, a, i + 1)) = Cardinality(CountedIn(db, id, a, i)) + 1
           /\ i + 1 \notin Counted(db, id) => CountedIn(db, id, a, i + 1) = CountedIn(db, id, a, i)
<1> DEFINE S == CountedIn(db, id, a, i)
<1>0. Len(db[id]) \in Nat
  BY HistoryFacts
<1>1. IsFiniteSet(S) /\ Cardinality(S) \in Nat
  <2>1. S \subseteq a..i /\ a \in Int /\ i \in Int
    BY <1>0 DEF CountedIn
  <2>2. IsFiniteSet(a..i)
    BY <2>1, FS_Interval
  <2> QED BY <2>1, <2>2, FS_Subset, FS_CardinalityType
<1>2. i + 1 \notin S
  BY <1>0 DEF CountedIn
<1>3. ASSUME i + 1 \in Counted(db, id) PROVE CountedIn(db, id, a, i + 1) = S \cup {i + 1}
  BY <1>0, <1>3 DEF CountedIn
<1>4. ASSUME i + 1 \notin Counted(db, id) PROVE CountedIn(db, id, a, i + 1) = S
  BY <1>0, <1>4 DEF CountedIn
<1>5. Cardinality(S \cup {i + 1}) = Cardinality(S) + 1
  BY <1>1, <1>2, FS_AddElement
<1> QED BY <1>1, <1>3, <1>4, <1>5

\* Which taken entries end the history.
LEMMA FailingIsBroken ==
    ASSUME NEW db \in Databases, NEW id \in Ids, NEW end, NEW a, NEW f, NEW i,
           Partial(db, id, end, a, f, i), FirstOfTick(db[id], a), ~Filled(db[id], f),
           i + 1 \in Counted(db, id)
    PROVE  i + 1 \in Broken(db, id) <=>
              Failing(id, db[id][i + 1], f) \/ db[id][i + 1].value = "wide"
<1> DEFINE h == db[id]
           q == i + 1
           S == CountedIn(db, id, a, i)
           N == {j \in AtTick(db, id, h[q].tick) : j <= q}
<1>1. /\ a \in 1..Len(h) /\ i \in (a - 1)..(Len(h) - 1) /\ q \in 1..Len(h) /\ Len(h) \in Nat
      /\ ~f.done /\ f.at = q
  BY HistoryFacts DEF Partial, Filled
<1>2. \A k, j \in 1..Len(h) : k <= j => h[k].tick <= h[j].tick
  BY HistoryFacts
<1>3. \A j \in 1..Len(h) : h[j].tick \in Nat
  BY HistoryFacts
<1>4. \A j \in N : j >= a
  <2> SUFFICES ASSUME NEW j \in N, j < a PROVE FALSE
    BY <1>1, HistoryFacts DEF AtTick, Counted
  <2>1. j \in 1..Len(h) /\ h[j].tick = h[q].tick
    BY HistoryFacts DEF AtTick, Counted
  <2>2. h[j].tick < h[a].tick /\ h[a].tick <= h[q].tick
    BY <1>1, <1>2, <2>1 DEF FirstOfTick
  <2> QED BY <1>1, <1>3, <2>1, <2>2
<1>5. N \subseteq CountedIn(db, id, a, q)
  <2>1. \A j \in N : j \in Counted(db, id) /\ j \in 1..Len(h) /\ j <= q
    BY HistoryFacts DEF AtTick, Counted
  <2> QED BY <1>1, <1>4, <2>1 DEF CountedIn
<1>c. /\ Cardinality(CountedIn(db, id, a, i)) \in Nat
      /\ CountedIn(db, id, a, i + 1) = CountedIn(db, id, a, i) \cup {i + 1}
      /\ Cardinality(CountedIn(db, id, a, i + 1)) = Cardinality(CountedIn(db, id, a, i)) + 1
  <2> HIDE DEF h
  <2>1. i \in (a - 1)..(Len(db[id]) - 1) /\ a \in 1..Len(db[id])
    BY <1>1 DEF h
  <2> QED BY <2>1, CountedNext
<1>6. CASE ~f.ready
  <2>1. S = {}
    BY <1>6 DEF Partial
  <2>2. CountedIn(db, id, a, q) = {q}
    BY <1>c, <2>1
  <2>3. N = {q}
    <3>1. q \in N
      BY <1>1 DEF AtTick
    <3> QED BY <1>5, <2>2, <3>1
  <2>4. Cardinality(N) = 1
    BY <2>3, FS_Singleton
  <2>5. ~(Cardinality(N) > MaxOccurrences)
    BY <2>4, HistoryAssumption
  <2> HIDE DEF N
  <2> QED BY <1>6, <2>5 DEF Failing, Broken, N
<1>7. CASE f.ready
  <2>1. S # {} /\ f.through = h[i].tick /\ i >= a
    <3>1. S # {}
      BY <1>7 DEF Partial
    <3>2. i >= a
      BY <1>1, <3>1 DEF CountedIn
    <3> QED BY <3>1, <3>2 DEF Partial
  <2>2. h[q].tick = h[i].tick
    BY <1>1, <1>7, <2>1 DEF Filled
  <2>3. CountedIn(db, id, a, q) = S \cup {q} /\ Cardinality(S \cup {q}) = Cardinality(S) + 1
        /\ Cardinality(S) \in Nat
    BY <1>c
  <2>4. N = S \cup {q}
    <3>1. \A j \in S : j \in N
      <4> SUFFICES ASSUME NEW j \in S PROVE j \in N
        OBVIOUS
      <4>1. j \in a..i /\ j \in Counted(db, id)
        BY DEF CountedIn
      <4>2. h[j].tick = h[i].tick
        BY DEF Partial
      <4> QED BY <1>1, <2>2, <4>1, <4>2 DEF AtTick
    <3>2. q \in N
      BY <1>1 DEF AtTick
    <3> QED BY <1>5, <2>3, <3>1, <3>2
  <2>5. i \notin Broken(db, id)
    BY <1>1 DEF Partial
  <2>6. ASSUME Kind[id] = "event"
        PROVE  f.head.occurrences = Cardinality(S) /\ Cardinality(S) <= MaxOccurrences
    BY <1>7, <2>5, <2>6 DEF Partial, HeadIs, ShmRecord
  <2>7. ASSUME Kind[id] = "event"
        PROVE  Cardinality(N) > MaxOccurrences <=> f.head.occurrences = MaxOccurrences
    <3>1. PICK n \in Nat : n = Cardinality(S) /\ n <= MaxOccurrences /\ f.head.occurrences = n
      BY <2>3, <2>6, <2>7
    <3>2. Cardinality(N) = n + 1
      <4> HIDE DEF S, N
      <4> QED BY <2>3, <2>4, <3>1
    <3> HIDE DEF N
    <3> QED BY <3>1, <3>2, HistoryAssumption
  <2> HIDE DEF N
  <2> QED BY <1>7, <2>7 DEF Failing, Broken, N
<1> QED BY <1>6, <1>7

\* The head after one more entry.
LEMMA HeadStep ==
    ASSUME NEW db \in Databases, NEW id \in Ids, NEW end, NEW a, NEW f, NEW i,
           Partial(db, id, end, a, f, i), FirstOfTick(db[id], a), ~Filled(db[id], f),
           f \in Runnable(id, db[id]),
           FillEntry(id, db[id], end, f).ready
    PROVE  HeadIs(db, id, a, i + 1, FillEntry(id, db[id], end, f).head)
<1> DEFINE h == db[id]
           q == i + 1
           e == h[q]
           g == FillEntry(id, h, end, f)
           taken == ~Skipped(id, e, f)
           failed == taken /\ Failing(id, e, f)
<1>1. /\ a \in 1..Len(h) /\ i \in (a - 1)..(Len(h) - 1) /\ q \in 1..Len(h) /\ Len(h) \in Nat
      /\ ~f.done /\ f.at = q /\ i \notin Broken(db, id)
  BY HistoryFacts DEF Partial, Filled
<1>2. /\ g.head = IF failed THEN FailedRecord(id, e.tick) ELSE IF taken THEN Merged(id, e, f) ELSE f.head
      /\ g.ready <=> f.ready \/ taken
  BY <1>1 DEF FillEntry
<1>3. taken <=> q \in Counted(db, id)
  <2>1. f.available <=> Heard(h, q - 1)
    BY <1>1 DEF Partial
  <2> QED BY <1>1, <2>1, TakenIsCounted
<1>4. ASSUME taken PROVE q \in Broken(db, id) <=> Failing(id, e, f) \/ e.value = "wide"
  BY <1>3, <1>4, FailingIsBroken
<1>5. /\ Cardinality(CountedIn(db, id, a, i)) \in Nat
      /\ q \in Counted(db, id) =>
           /\ CountedIn(db, id, a, q) = CountedIn(db, id, a, i) \cup {q}
           /\ Cardinality(CountedIn(db, id, a, q)) = Cardinality(CountedIn(db, id, a, i)) + 1
      /\ q \notin Counted(db, id) => CountedIn(db, id, a, q) = CountedIn(db, id, a, i)
  <2> HIDE DEF h
  <2>1. i \in (a - 1)..(Len(db[id]) - 1) /\ a \in 1..Len(db[id])
    BY <1>1 DEF h
  <2> QED BY <2>1, CountedNext
<1>6. ASSUME f.ready PROVE e.tick = h[i].tick /\ HeadIs(db, id, a, i, f.head)
  <2>1. i >= a
    <3>1. CountedIn(db, id, a, i) # {}
      BY <1>6 DEF Partial
    <3> QED BY <1>1, <3>1 DEF CountedIn
  <2> QED BY <1>1, <1>6, <2>1 DEF Partial, Filled
<1>7. e.tick \in Nat /\ e.value \in STRING /\ (e.value = "wide" => Kind[id] = "string")
  BY <1>1, HistoryFacts
<1> HIDE DEF g, taken, h
<1>8. CASE ~taken
  <2>1. q \notin Counted(db, id) /\ f.ready /\ g.head = f.head
    BY <1>2, <1>3, <1>8 DEF g, h
  <2>2. q \notin Broken(db, id)
    BY <2>1 DEF Broken
  <2>3. HeadIs(db, id, a, i, f.head) /\ h[q].tick = h[i].tick
        /\ CountedIn(db, id, a, q) = CountedIn(db, id, a, i)
    BY <1>5, <1>6, <2>1
  <2>4. HeadIs(db, id, a, q, f.head)
    BY <1>1, <2>2, <2>3 DEF HeadIs, h
  <2> QED BY <2>1, <2>4 DEF g, h
<1>9. CASE taken /\ (failed \/ e.value = "wide")
  <2>1. q \in Broken(db, id)
    BY <1>4, <1>9
  <2>2. CASE failed
    <3>1. g.head = FailedRecord(id, e.tick)
      BY <1>2, <2>2
    <3>2. /\ Decoded(FailedRecord(id, e.tick)) = FailedRecord(id, e.tick)
          /\ FailedRecord(id, e.tick).value # "wide"
      BY NoneAssumption DEF Decoded, FailedRecord
    <3>3. HeadIs(db, id, a, q, g.head)
      BY <2>1, <3>1, <3>2 DEF HeadIs, h
    <3> QED BY <3>3 DEF g, h
  <2>3. CASE ~failed /\ e.value = "wide"
    <3>1. g.head = ShmRecord(id, e.tick, "wide", 0)
      BY <1>2, <1>7, <1>9, <2>3 DEF Merged
    <3>2. Decoded(ShmRecord(id, e.tick, "wide", 0)) = FailedRecord(id, e.tick)
      BY DEF Decoded, ShmRecord, FailedRecord
    <3>3. HeadIs(db, id, a, q, g.head)
      BY <2>1, <2>3, <3>1, <3>2 DEF HeadIs, h
    <3> QED BY <3>3 DEF g, h
  <2> QED BY <1>9, <2>2, <2>3
<1>10. CASE taken /\ ~failed /\ e.value # "wide"
  <2>1. q \notin Broken(db, id) /\ ~Failing(id, e, f) /\ q \in Counted(db, id)
    BY <1>3, <1>4, <1>10
  <2>2. g.head = Merged(id, e, f)
    BY <1>2, <1>10
  <2>3. CASE Kind[id] = "event"
    <3> DEFINE n == Cardinality(CountedIn(db, id, a, i))
    <3>1. n \in Nat /\ Cardinality(CountedIn(db, id, a, q)) = n + 1
      BY <1>5, <2>1
    <3>2. CASE f.ready
      <4>1. f.head.occurrences = n /\ n <= MaxOccurrences
        BY <1>1, <1>6, <2>3, <3>2 DEF HeadIs, ShmRecord
      <4>2. n # MaxOccurrences
        BY <2>1, <2>3, <3>2, <4>1 DEF Failing
      <4>3. Merged(id, e, f) = ShmRecord(id, e.tick, None, n + 1)
        <5> HIDE DEF n
        <5> QED BY <2>3, <3>2, <4>1 DEF Merged
      <4>4. n + 1 <= MaxOccurrences
        <5> HIDE DEF n
        <5> QED BY <3>1, <4>1, <4>2, HistoryAssumption
      <4>5. HeadIs(db, id, a, q, g.head)
        <5> HIDE DEF n
        <5> QED BY <2>1, <2>2, <2>3, <3>1, <4>3, <4>4 DEF HeadIs, h
      <4> QED BY <4>5 DEF g, h
    <3>3. CASE ~f.ready
      <4>1. CountedIn(db, id, a, i) = {}
        BY <3>3 DEF Partial
      <4>2. n = 0
        BY <4>1, FS_EmptySet
      <4>3. Merged(id, e, f) = ShmRecord(id, e.tick, None, 1)
        BY <2>3, <3>3 DEF Merged
      <4>4. HeadIs(db, id, a, q, g.head)
        <5> HIDE DEF n
        <5>1. Cardinality(CountedIn(db, id, a, q)) = 1
          BY <3>1, <4>2
        <5> QED BY <2>1, <2>2, <2>3, <4>3, <5>1, HistoryAssumption DEF HeadIs, h
      <4> QED BY <4>4 DEF g, h
    <3> QED BY <3>2, <3>3
  <2>4. CASE Kind[id] # "event"
    <3>1. g.head = ShmRecord(id, e.tick, e.value, 0)
      BY <2>2, <2>4 DEF Merged
    <3>2. q \in CountedIn(db, id, a, q) /\ \A j \in CountedIn(db, id, a, q) : j <= q
      BY <1>1, <2>1 DEF CountedIn
    <3>3. HeadIs(db, id, a, q, g.head)
      BY <2>1, <2>4, <3>1, <3>2 DEF HeadIs, h
    <3> QED BY <3>3 DEF g, h
  <2> QED BY <2>3, <2>4
<1> QED BY <1>8, <1>9, <1>10

\* One more entry.
LEMMA PartialStep ==
    ASSUME NEW db \in Databases, NEW id \in Ids, NEW end, NEW a, NEW f, NEW i,
           Partial(db, id, end, a, f, i), FirstOfTick(db[id], a), ~Filled(db[id], f),
           f \in Runnable(id, db[id])
    PROVE  Partial(db, id, end, a, FillEntry(id, db[id], end, f), i + 1)
<1> DEFINE h == db[id]
           q == i + 1
           e == h[q]
           g == FillEntry(id, h, end, f)
           taken == ~Skipped(id, e, f)
           failed == taken /\ Failing(id, e, f)
           stops == failed \/ (taken /\ e.value = "wide") \/ ~CanAdvance(h, q, end)
<1>1. /\ a \in 1..Len(h) /\ i \in (a - 1)..(Len(h) - 1) /\ q \in 1..Len(h) /\ Len(h) \in Nat
      /\ ~f.done /\ f.at = q /\ i \notin Broken(db, id) /\ q >= a
  BY HistoryFacts DEF Partial, Filled
<1>2. /\ g.ready <=> f.ready \/ taken
      /\ g.available <=> f.available \/ taken
      /\ g.done <=> stops
      /\ g.through = e.tick
      /\ g.at = IF stops THEN q ELSE q + 1
  BY <1>1 DEF FillEntry
<1>3. taken <=> q \in Counted(db, id)
  <2>1. f.available <=> Heard(h, q - 1)
    BY <1>1 DEF Partial
  <2> QED BY <1>1, <2>1, TakenIsCounted
<1>4. q \in Broken(db, id) <=> failed \/ (taken /\ e.value = "wide")
  <2>1. q \in Broken(db, id) => q \in Counted(db, id)
    BY DEF Broken
  <2>2. ASSUME q \in Counted(db, id)
        PROVE  q \in Broken(db, id) <=> Failing(id, e, f) \/ e.value = "wide"
    BY <2>2, FailingIsBroken
  <2> QED BY <1>3, <2>1, <2>2
<1>5. /\ q \in Counted(db, id) => CountedIn(db, id, a, q) = CountedIn(db, id, a, i) \cup {q}
      /\ q \notin Counted(db, id) => CountedIn(db, id, a, q) = CountedIn(db, id, a, i)
  <2> HIDE DEF h
  <2>1. i \in (a - 1)..(Len(db[id]) - 1) /\ a \in 1..Len(db[id])
    BY <1>1 DEF h
  <2> QED BY <2>1, CountedNext
<1>6. ASSUME f.ready PROVE e.tick = h[i].tick
  <2>1. i >= a
    <3>1. CountedIn(db, id, a, i) # {}
      BY <1>6 DEF Partial
    <3> QED BY <1>1, <3>1 DEF CountedIn
  <2> QED BY <1>1, <1>6, <2>1 DEF Partial, Filled
<1>7. g.ready => HeadIs(db, id, a, q, g.head)
  BY HeadStep
<1>8. g.available <=> Heard(h, q)
  <2>1. Heard(h, q) <=> Heard(h, i) \/ e.state \notin {"absent", "quiet"}
    BY <1>1 DEF Heard
  <2>2. f.available <=> Heard(h, i)
    BY DEF Partial
  <2>3. e.state = "quiet" => Kind[id] = "event"
    BY <1>1, HistoryFacts
  <2> QED BY <1>2, <2>1, <2>2, <2>3 DEF Skipped
<1>9. g.ready <=> CountedIn(db, id, a, q) # {}
  BY <1>2, <1>3, <1>5 DEF Partial
<1>10. \A j \in CountedIn(db, id, a, q) : h[j].tick = h[q].tick
  <2> SUFFICES ASSUME NEW j \in CountedIn(db, id, a, q), j # q PROVE h[j].tick = h[q].tick
    OBVIOUS
  <2>1. j \in CountedIn(db, id, a, i)
    BY <1>5
  <2>2. f.ready /\ h[j].tick = h[i].tick
    BY <2>1 DEF Partial
  <2> QED BY <1>6, <2>2
<1>11. e.tick <= end
  BY <1>1 DEF Partial
<1>12. \A j \in Broken(db, id) : j >= q /\ (j = q => g.done)
  <2> SUFFICES ASSUME NEW j \in Broken(db, id) PROVE j >= q /\ (j = q => g.done)
    OBVIOUS
  <2>1. j \in 1..Len(h) /\ j >= i /\ j # i
    BY <1>1, HistoryFacts DEF Broken, Counted, Partial
  <2>2. j >= q
    BY <1>1, <2>1
  <2> QED BY <1>2, <1>4, <2>2
<1>13. g.done => q >= a /\ g.at = q /\ (q \in Broken(db, id) \/ ~CanAdvance(h, q, end))
  BY <1>1, <1>2, <1>4
<1>14. ~g.done => g.at = q + 1 /\ q + 1 <= Len(h) /\ h[q + 1].tick <= end
  BY <1>1, <1>2 DEF CanAdvance
<1>15. q \in (a - 1)..Len(h) /\ a \in 1..Len(h) /\ g.through = h[q].tick
  BY <1>1, <1>2
<1> HIDE DEF g, taken, failed, stops
<1>16. Partial(db, id, end, a, g, q)
  BY <1>7, <1>8, <1>9, <1>10, <1>11, <1>12, <1>13, <1>14, <1>15 DEF Partial, h
<1> QED BY <1>16 DEF g, h

\* The loop reads on until a record is complete or the history ends.
LEMMA RunPartial ==
    ASSUME NEW db \in Databases, NEW id \in Ids, NEW end, NEW a, NEW f \in Runnable(id, db[id]),
           Partial(db, id, end, a, f, a - 1), FirstOfTick(db[id], a), ~f.done, ~f.ready
    PROVE  \E i \in a..Len(db[id]) :
              /\ Partial(db, id, end, a, Run(id, db[id], end, f)[Len(db[id])], i)
              /\ Filled(db[id], Run(id, db[id], end, f)[Len(db[id])])
<1> DEFINE h == db[id]
           run == Run(id, h, end, f)
           n == Len(h)
           P(k) == \E i : Partial(db, id, end, a, run[k], i) /\ (Filled(h, run[k]) \/ i = a - 1 + k)
           Bad == {k \in 0..n : ~P(k)}
<1>1. n \in Nat /\ h \in Seq(Entry) /\ a \in 1..n
  BY HistoryFacts DEF Partial
<1>2. /\ run[0] = f
      /\ \A k \in 1..n : run[k] = FillTurn(id, h, end, run[k - 1])
      /\ \A k \in 0..n : run[k] \in Runnable(id, h)
  BY <1>1, RunSteps
<1> HIDE DEF run
<1>3. P(0)
  BY <1>1, <1>2
<1>4. ASSUME NEW k \in 1..n, P(k - 1) PROVE P(k)
  <2>1. PICK i : Partial(db, id, end, a, run[k - 1], i)
                 /\ (Filled(h, run[k - 1]) \/ i = a - 1 + (k - 1))
    BY <1>4
  <2>2. CASE Filled(h, run[k - 1])
    <3>1. run[k] = run[k - 1]
      BY <1>2, <2>2 DEF FillTurn
    <3> QED BY <2>1, <2>2, <3>1
  <2>3. CASE ~Filled(h, run[k - 1])
    <3>1. run[k] = FillEntry(id, h, end, run[k - 1])
      BY <1>2, <2>3 DEF FillTurn
    <3>2. run[k - 1] \in Runnable(id, h)
      BY <1>1, <1>2
    <3>3. Partial(db, id, end, a, run[k], i + 1)
      BY <2>1, <2>3, <3>1, <3>2, PartialStep
    <3>4. i + 1 = a - 1 + k
      BY <1>1, <2>1, <2>3
    <3> QED BY <3>3, <3>4
  <2> QED BY <2>2, <2>3
<1>5. Bad = {}
  <2>1. ASSUME NEW k \in Bad, \A y \in Bad : k <= y PROVE FALSE
    <3>1. k \in 0..n /\ ~P(k)
      OBVIOUS
    <3>2. k # 0
      BY <1>3, <3>1
    <3>3. k \in 1..n /\ k - 1 \in 0..n
      BY <1>1, <3>1, <3>2
    <3> HIDE DEF P
    <3>4. ~P(k - 1)
      BY <1>4, <3>1, <3>3
    <3>5. k - 1 \in Bad
      BY <3>3, <3>4
    <3>6. k <= k - 1
      BY <2>1, <3>5
    <3> QED BY <3>3, <3>6
  <2>2. Bad \subseteq Nat
    BY <1>1
  <2> HIDE DEF Bad
  <2> QED BY <2>1, <2>2, LeastNat
<1>6. P(n)
  <2>1. n \in 0..n
    BY <1>1
  <2> HIDE DEF P
  <2> QED BY <1>5, <2>1
<1>7. PICK i : Partial(db, id, end, a, run[n], i) /\ (Filled(h, run[n]) \/ i = a - 1 + n)
  BY <1>6
<1>8. i \in (a - 1)..n
  BY <1>7 DEF Partial
<1>9. Filled(h, run[n])
  <2> SUFFICES ASSUME i = a - 1 + n PROVE run[n].done
    BY <1>7 DEF Filled
  <2>1. i = n
    BY <1>1, <1>8
  <2> QED BY <1>1, <1>7, <2>1 DEF Partial
<1>10. i >= a
  <2> SUFFICES ASSUME i = a - 1 PROVE FALSE
    BY <1>1, <1>8
  <2>1. run[n].done \/ run[n].ready
    BY <1>9 DEF Filled
  <2>2. CountedIn(db, id, a, i) = {}
    BY <1>1 DEF CountedIn
  <2> QED BY <1>1, <1>7, <2>1, <2>2 DEF Partial
<1>11. i \in a..n
  BY <1>1, <1>8, <1>10
<1> QED BY <1>7, <1>9, <1>11 DEF run

\* A tick without a counted entry has no record, ...
LEMMA NetNothing ==
    ASSUME NEW db, NEW id, NEW t, \A j \in Counted(db, id) : db[id][j].tick # t
    PROVE  NetRecord(db, id, t) = {}
<1>1. AtTick(db, id, t) = {}
  BY DEF AtTick
<1> QED BY <1>1 DEF NetRecord

\* ... nor has one after the entry that ends the history.
LEMMA NetAfter ==
    ASSUME NEW db \in Databases, NEW id \in Ids, NEW b \in Broken(db, id), NEW t \in Int,
           db[id][b].tick < t
    PROVE  NetRecord(db, id, t) = {}
<1> DEFINE here == AtTick(db, id, t)
           upto == {i \in here : \A j \in Broken(db, id) : i <= j}
<1>1. b \in 1..Len(db[id])
  BY HistoryFacts DEF Broken, Counted
<1>2. \A i \in here : i \in 1..Len(db[id]) /\ db[id][i].tick = t
  BY HistoryFacts DEF AtTick, Counted
<1>3. \A i \in here : ~(i <= b)
  <2> SUFFICES ASSUME NEW i \in here, i <= b PROVE FALSE
    OBVIOUS
  <2>1. i \in 1..Len(db[id]) /\ db[id][i].tick = t
    BY <1>2
  <2>2. db[id][i].tick <= db[id][b].tick /\ db[id][b].tick \in Nat
    BY <1>1, <2>1, HistoryFacts
  <2> QED BY <2>1, <2>2
<1>4. upto = {}
  BY <1>3
<1> QED BY <1>4 DEF NetRecord

\* The record that the loop has completed is the net record of its tick.
LEMMA NetHere ==
    ASSUME NEW db \in Databases, NEW id \in Ids, NEW end \in Nat, NEW a, NEW f, NEW i,
           Partial(db, id, end, a, f, i), FirstOfTick(db[id], a), Filled(db[id], f), f.ready
    PROVE  NetRecord(db, id, db[id][i].tick) = {Decoded(f.head)}
<1> DEFINE h == db[id]
           t == h[i].tick
           S == CountedIn(db, id, a, i)
           here == AtTick(db, id, t)
           upto == {j \in here : \A b \in Broken(db, id) : j <= b}
<1>1. /\ a \in 1..Len(h) /\ i \in (a - 1)..Len(h) /\ Len(h) \in Nat
      /\ S # {} /\ HeadIs(db, id, a, i, f.head)
      /\ \A j \in S : h[j].tick = t
      /\ \A j \in Broken(db, id) : j >= i
  BY HistoryFacts DEF Partial
<1>2. i \in a..Len(h) /\ f.through = t /\ t <= end
  <2>1. i >= a
    BY <1>1 DEF CountedIn
  <2> QED BY <1>1, <2>1 DEF Partial
<1>3. \A k, j \in 1..Len(h) : k <= j => h[k].tick <= h[j].tick
  BY HistoryFacts
<1>4. \A j \in 1..Len(h) : h[j].tick \in Nat
  BY HistoryFacts
<1>5. \A j \in here : j \in a..Len(h) /\ j \in Counted(db, id) /\ h[j].tick = t
  <2> SUFFICES ASSUME NEW j \in here PROVE j \in a..Len(h) /\ j \in Counted(db, id) /\ h[j].tick = t
    OBVIOUS
  <2>1. j \in 1..Len(h) /\ j \in Counted(db, id) /\ h[j].tick = t
    BY HistoryFacts DEF AtTick, Counted
  <2>2. ~(j < a)
    <3> SUFFICES ASSUME j < a PROVE FALSE
      OBVIOUS
    <3>1. h[j].tick < h[a].tick /\ h[a].tick <= h[i].tick
      BY <1>1, <1>2, <1>3, <2>1 DEF FirstOfTick
    <3> QED BY <1>1, <1>2, <1>4, <2>1, <3>1
  <2> QED BY <1>1, <2>1, <2>2
<1>6. S \subseteq here
  BY <1>1, <1>2 DEF CountedIn, AtTick
<1> HIDE DEF here
<1>7. CASE i \in Broken(db, id)
  <2>1. i \in here
    BY <1>7 DEF Broken, AtTick, here
  <2>2. upto # {} /\ Broken(db, id) \cap here # {}
    BY <1>1, <1>7, <2>1
  <2>3. NetRecord(db, id, t) = {FailedRecord(id, t)}
    BY <2>2 DEF NetRecord, here
  <2> QED BY <1>1, <1>7, <2>3 DEF HeadIs
<1>8. CASE i \notin Broken(db, id)
  <2>1. \A j \in Broken(db, id) : j \in 1..Len(h) /\ j > i
    <3>1. \A j \in Broken(db, id) : j \in 1..Len(h)
      BY HistoryFacts DEF Broken, Counted
    <3> QED BY <1>1, <1>2, <1>8, <3>1
  <2>2. i < Len(h) => h[i + 1].tick # t
    <3> SUFFICES ASSUME i < Len(h), h[i + 1].tick = t PROVE FALSE
      OBVIOUS
    <3>1. CanAdvance(h, i, end)
      BY <1>2 DEF CanAdvance
    <3>2. ~f.done /\ f.at = i + 1
      BY <1>8, <3>1 DEF Partial
    <3> QED BY <1>2, <3>2 DEF Filled
  <2>3. \A j \in here : j <= i
    <3> SUFFICES ASSUME NEW j \in here, j > i PROVE FALSE
      BY <1>1, <1>2, <1>5
    <3>1. j \in a..Len(h) /\ h[j].tick = t
      BY <1>5
    <3>2. i + 1 \in 1..Len(h) /\ i + 1 <= j /\ j \in 1..Len(h) /\ i \in 1..Len(h)
      BY <1>1, <1>2, <3>1
    <3>3. h[i].tick <= h[i + 1].tick /\ h[i + 1].tick <= h[j].tick
      BY <1>3, <3>2
    <3> QED BY <1>1, <1>2, <1>4, <2>2, <3>1, <3>2, <3>3
  <2>4. here = S
    BY <1>1, <1>2, <1>5, <1>6, <2>3 DEF CountedIn
  <2>5. Broken(db, id) \cap here = {} /\ upto = here
    BY <1>1, <1>2, <1>5, <2>1, <2>3
  <2>6. CASE Kind[id] = "event"
    <3>1. NetRecord(db, id, t) = {ShmRecord(id, t, None, Cardinality(here))}
      BY <1>1, <2>4, <2>5, <2>6 DEF NetRecord, here
    <3>2. f.head = ShmRecord(id, t, None, Cardinality(S))
      BY <1>1, <1>8, <2>6 DEF HeadIs
    <3>3. Decoded(f.head) = f.head
      BY <3>2, NoneAssumption DEF Decoded, ShmRecord
    <3> QED BY <2>4, <3>1, <3>2, <3>3
  <2>7. CASE Kind[id] # "event"
    <3>1. PICK m \in S : (\A j \in S : j <= m) /\ f.head = ShmRecord(id, t, h[m].value, 0)
      BY <1>1, <1>8, <2>7 DEF HeadIs
    <3>2. Max(upto) = m
      <4>1. S \subseteq Int
        BY <1>1 DEF CountedIn
      <4> HIDE DEF S
      <4> QED BY <2>4, <2>5, <3>1, <4>1, MaxIs
    <3>3. NetRecord(db, id, t) = {ShmRecord(id, t, h[Max(upto)].value, 0)}
      BY <1>1, <2>4, <2>5, <2>7 DEF NetRecord, here
    <3>4. h[m].value # "wide"
      <4> SUFFICES ASSUME h[m].value = "wide" PROVE FALSE
        OBVIOUS
      <4>1. m \in Counted(db, id) /\ m \in a..i
        BY DEF CountedIn
      <4>2. m \in Broken(db, id)
        BY <4>1 DEF Broken
      <4> QED BY <1>1, <1>2, <2>1, <4>1, <4>2
    <3>5. Decoded(f.head) = f.head
      BY <3>1, <3>4 DEF Decoded, ShmRecord
    <3> QED BY <3>1, <3>2, <3>3, <3>5
  <2> QED BY <2>6, <2>7
<1> QED BY <1>7, <1>8

\* The last tick a history has completed, of a read from the tick `low` on.
Mark(low, f) == IF f.through = None THEN low - 1 ELSE f.through

\* The records of a history from a tick on.
Records(db, id, t, end) == UNION {NetRecord(db, id, u) : u \in t..end}

\* The first tick that has not been taken, and the records to come.
Cut(low, f) == IF f.ready THEN f.head.tick ELSE Mark(low, f) + 1
Pending(db, id, low, end, f) == Records(db, id, Cut(low, f), end)

\* A row with bytes outside ASCII comes from an entry that has them.
Honest(db, row) ==
    row.value = "wide" =>
        \E i \in Broken(db, row.id) : db[row.id][i].value = "wide" /\ db[row.id][i].tick = row.tick

\* The merged state of a history tells what it has completed: no record is lost, none
\* is kept twice, and the cursor, if there is one, is where a new one would be put.
HistoryExact(db, id, low, end, session, f) ==
    LET p == Seek(db[id], Mark(low, f))
    IN /\ f.through # None => low <= f.through /\ f.through <= end
       /\ f.ready => f.through = f.head.tick /\ NetRecord(db, id, f.head.tick) = {Decoded(f.head)}
                   /\ Honest(db, f.head)
       /\ f.done => Records(db, id, Mark(low, f) + 1, end) = {}
       /\ ~f.done => /\ f.available <=> Heard(db[id], p)
                     /\ \A j \in Broken(db, id) : j > p
                     /\ f.through # None \/ low > 0 => p >= 1
                     /\ f.through # None => CanAdvance(db[id], p, end)
                     /\ session => f.at = p + 1

\* A net record carries its identity and tick, and there is one at most.
LEMMA NetShape ==
    ASSUME NEW db, NEW id, NEW t, NEW x \in NetRecord(db, id, t)
    PROVE  x.id = id /\ x.tick = t /\ x.failed \in BOOLEAN /\ NetRecord(db, id, t) = {x}
<1> DEFINE here == AtTick(db, id, t)
           upto == {i \in here : \A j \in Broken(db, id) : i <= j}
           n == Cardinality(here)
           v == db[id][Max(upto)].value
<1> HIDE DEF here, upto, n, v
<1>1. \/ NetRecord(db, id, t) = {} \/ NetRecord(db, id, t) = {FailedRecord(id, t)}
      \/ NetRecord(db, id, t) = {ShmRecord(id, t, None, n)}
      \/ NetRecord(db, id, t) = {ShmRecord(id, t, v, 0)}
  BY DEF NetRecord, here, upto, n, v
<1>2. /\ FailedRecord(id, t).id = id /\ FailedRecord(id, t).tick = t
      /\ FailedRecord(id, t).failed \in BOOLEAN
      /\ \A w, o : /\ ShmRecord(id, t, w, o).id = id /\ ShmRecord(id, t, w, o).tick = t
                   /\ ShmRecord(id, t, w, o).failed \in BOOLEAN
  BY DEF FailedRecord, ShmRecord
<1>3. PICK y : NetRecord(db, id, t) = {y} /\ y.id = id /\ y.tick = t /\ y.failed \in BOOLEAN
  BY <1>1, <1>2
<1>4. x = y
  BY <1>3
<1> QED BY <1>3, <1>4

\* A record of a history from a tick on.
LEMMA RecordsShape ==
    ASSUME NEW db, NEW id, NEW t \in Int, NEW end \in Int, NEW x \in Records(db, id, t, end)
    PROVE  /\ x.id = id /\ x.tick \in t..end /\ x.failed \in BOOLEAN
           /\ x \in NetRecord(db, id, x.tick) /\ NetRecord(db, id, x.tick) = {x}
<1>1. PICK u \in t..end : x \in NetRecord(db, id, u)
  BY DEF Records
<1> QED BY <1>1, NetShape

\* ... and when a record is one.
LEMMA RecordsIn ==
    ASSUME NEW db, NEW id, NEW t \in Int, NEW end \in Int, NEW u \in t..end
    PROVE  NetRecord(db, id, u) \subseteq Records(db, id, t, end)
BY DEF Records

\* Skipping ticks without records.
LEMMA RecordsSkip ==
    ASSUME NEW db, NEW id, NEW t \in Int, NEW end \in Int, NEW u \in Int, t <= u,
           \A w \in t..(u - 1) : w <= end => NetRecord(db, id, w) = {}
    PROVE  Records(db, id, t, end) = Records(db, id, u, end)
<1>1. ASSUME NEW x \in Records(db, id, t, end) PROVE x \in Records(db, id, u, end)
  <2>1. PICK w \in t..end : x \in NetRecord(db, id, w)
    BY DEF Records
  <2>2. w \in u..end
    BY <2>1
  <2> QED BY <2>1, <2>2 DEF Records
<1>2. ASSUME NEW x \in Records(db, id, u, end) PROVE x \in Records(db, id, t, end)
  <2>1. PICK w \in u..end : x \in NetRecord(db, id, w)
    BY DEF Records
  <2> QED BY <2>1 DEF Records
<1> QED BY <1>1, <1>2

\* A history has no more records when no tick has one.
LEMMA RecordsEmpty ==
    ASSUME NEW db, NEW id, NEW t \in Int, NEW end \in Int
    PROVE  Records(db, id, t, end) = {} <=> \A w \in t..end : NetRecord(db, id, w) = {}
BY DEF Records

\* Decoding keeps the place of a row.
LEMMA DecodedPlace ==
    ASSUME NEW x
    PROVE  Decoded(x).id = x.id /\ Decoded(x).tick = x.tick /\ (x.failed => Decoded(x).failed)
BY DEF Decoded, FailedRecord

\* Entries after the one in force.
LEMMA AfterSeek ==
    ASSUME NEW db \in Databases, NEW id \in Ids, NEW tick \in Int
    PROVE  /\ Seek(db[id], tick) \in 0..Len(db[id])
           /\ \A i \in 1..Len(db[id]) : db[id][i].tick <= tick <=> i <= Seek(db[id], tick)
<1>1. db[id] \in Seq(Entry) /\ Sorted(db[id]) /\ DOMAIN db[id] = 1..Len(db[id])
  BY HistoryFacts
<1> QED BY <1>1, SeekDivides

\* Where the history goes on no further than `end`, there are no more records.
LEMMA NoneBeyond ==
    ASSUME NEW db \in Databases, NEW id \in Ids, NEW end \in Int, NEW i \in 0..Len(db[id]),
           NEW t \in Int, ~CanAdvance(db[id], i, end),
           \A j \in 1..i : j \in Counted(db, id) => db[id][j].tick < t
    PROVE  Records(db, id, t, end) = {}
<1> SUFFICES ASSUME NEW w \in t..end PROVE NetRecord(db, id, w) = {}
  BY RecordsEmpty
<1>0. Len(db[id]) \in Nat
  BY HistoryFacts
<1>1. ASSUME NEW j \in Counted(db, id), db[id][j].tick = w PROVE FALSE
  <2>1. j \in 1..Len(db[id])
    BY HistoryFacts DEF Counted
  <2>2. j > i
    BY <1>0, <1>1, <2>1
  <2>3. i < Len(db[id]) /\ i + 1 \in 1..Len(db[id]) /\ i + 1 <= j
    BY <1>0, <2>1, <2>2
  <2>4. db[id][i + 1].tick <= db[id][j].tick /\ db[id][i + 1].tick \in Nat /\ ~(db[id][i + 1].tick <= end)
    BY <2>1, <2>3, HistoryFacts DEF CanAdvance
  <2> QED BY <1>1, <2>4
<1> QED BY <1>1, NetNothing

\* History::fill finds the next record and loses none.
LEMMA HeadHonest ==
    ASSUME NEW db \in Databases, NEW id \in Ids, NEW end, NEW a, NEW f, NEW i,
           Partial(db, id, end, a, f, i), f.ready, Decoded(f.head).id = id,
           Decoded(f.head).tick = db[id][i].tick
    PROVE  Honest(db, f.head)
<1> SUFFICES ASSUME f.head.value = "wide"
             PROVE  \E j \in Broken(db, id) : db[id][j].value = "wide" /\ db[id][j].tick = f.head.tick
  BY DecodedPlace DEF Honest
<1>1. f.head.tick = db[id][i].tick
  BY DecodedPlace
<1>2. CASE i \in Broken(db, id)
  BY <1>1, <1>2 DEF Partial, HeadIs
<1>3. CASE i \notin Broken(db, id)
  <2>1. HeadIs(db, id, a, i, f.head) /\ \A j \in Broken(db, id) : j >= i
    BY DEF Partial
  <2>2. Kind[id] # "event"
    BY <1>3, <2>1, NoneAssumption DEF HeadIs, ShmRecord
  <2>3. PICK m \in CountedIn(db, id, a, i) : f.head = ShmRecord(id, db[id][i].tick, db[id][m].value, 0)
    BY <1>3, <2>1, <2>2 DEF HeadIs
  <2>4. db[id][m].value = "wide" /\ m \in Counted(db, id) /\ m \in a..i
    BY <2>3 DEF ShmRecord, CountedIn
  <2>5. m \in Broken(db, id) /\ m <= i /\ a \in Int /\ i \in Int
    BY <2>4, HistoryFacts DEF Broken, Partial
  <2> QED BY <1>3, <2>1, <2>4, <2>5
<1> QED BY <1>2, <1>3

\* History::fill: the record that becomes ready is the next one of the history, and
\* nothing is left behind.
LEMMA FillExact ==
    ASSUME NEW db \in Databases, NEW id \in Ids, NEW low \in Nat, NEW end \in Nat, NEW session, NEW f,
           HistoryOK(id, db[id], f, session), HistoryExact(db, id, low, end, session, f),
           session \/ f.done \/ f.ready
    PROVE  /\ HistoryExact(db, id, low, end, session, Fill(id, db[id], end, f))
           /\ Pending(db, id, low, end, Fill(id, db[id], end, f)) = Pending(db, id, low, end, f)
           /\ Fill(id, db[id], end, f).ready \/ Fill(id, db[id], end, f).done
<1> DEFINE h == db[id]
           m == Mark(low, f)
           p == Seek(h, m)
           a == p + 1
           g == Fill(id, h, end, f)
<1>1. CASE f.done \/ f.ready
  <2>1. g = f
    BY <1>1 DEF Fill
  <2> QED BY <1>1, <2>1
<1>2. CASE ~f.done /\ ~f.ready
  <2>1. /\ Len(h) \in Nat /\ h \in Seq(Entry) /\ f \in History /\ f.at \in 1..Len(h) /\ session
        /\ f.through \in Nat \cup {None}
    BY <1>2, HistoryFacts DEF HistoryOK, History
  <2>2. m \in Int /\ low - 1 <= m
    BY <2>1 DEF Mark, HistoryExact
  <2>3. p \in 0..Len(h) /\ \A i \in 1..Len(h) : h[i].tick <= m <=> i <= p
    BY <2>2, AfterSeek
  <2>4. f.at = a /\ (f.available <=> Heard(h, p)) /\ \A j \in Broken(db, id) : j > p
    BY <1>2, <2>1 DEF HistoryExact
  <2>5. a \in 1..Len(h) /\ h[a].tick > m /\ h[a].tick \in Nat
    <3>1. a \in 1..Len(h)
      BY <2>1, <2>4
    <3> QED BY <2>1, <2>2, <2>3, <3>1, HistoryFacts
  <2>6. \A i, j \in 1..Len(h) : i <= j => h[i].tick <= h[j].tick
    BY HistoryFacts
  <2>t. \A j \in 1..Len(h) : h[j].tick \in Nat
    BY HistoryFacts
  <2>7. f.ready = FALSE /\ f.done = FALSE
    BY <1>2, <2>1 DEF History
  <2> HIDE DEF m, p
  <2>8. CASE h[a].tick > end
    <3>1. g = [f EXCEPT !.done = TRUE]
      BY <1>2, <2>4, <2>8 DEF Fill
    <3>2. /\ g.through = f.through /\ g.ready = f.ready /\ g.done = TRUE /\ g.available = f.available
          /\ g.head = f.head
      BY <2>1, <3>1 DEF History
    <3>3. Mark(low, g) = m /\ Cut(low, g) = Cut(low, f)
      BY <3>2 DEF Mark, Cut, m
    <3>4. Records(db, id, m + 1, end) = {}
      <4>1. ~CanAdvance(h, p, end)
        BY <2>1, <2>3, <2>5, <2>8 DEF CanAdvance
      <4>2. \A j \in 1..p : h[j].tick < m + 1
        BY <2>1, <2>2, <2>3, <2>t
      <4> QED BY <2>2, <2>3, <4>1, <4>2, NoneBeyond
    <3>5. HistoryExact(db, id, low, end, session, g)
      BY <2>7, <3>2, <3>3, <3>4 DEF HistoryExact
    <3> QED BY <3>2, <3>3, <3>5 DEF Pending
  <2>9. CASE ~(h[a].tick > end)
    <3>1. g = Run(id, h, end, f)[Len(h)]
      BY <1>2, <2>4, <2>9, FillRun
    <3>2. f \in Runnable(id, h)
      BY <1>2, <2>1 DEF Runnable
    <3>3. FirstOfTick(h, a)
      BY <2>1, <2>2, <2>3, <2>5, <2>t DEF FirstOfTick
    <3>4. Partial(db, id, end, a, f, a - 1)
      <4>1. CountedIn(db, id, a, a - 1) = {}
        BY <2>5 DEF CountedIn
      <4>2. a - 1 = p /\ a - 1 \in (a - 1)..Len(h) /\ ~(a - 1 >= a) /\ (a - 1) + 1 = a
        BY <2>1, <2>3
      <4>3. \A j \in Broken(db, id) : j >= a - 1 /\ (j = a - 1 => f.done)
        <5>1. \A j \in Broken(db, id) : j \in 1..Len(h)
          BY HistoryFacts DEF Broken, Counted
        <5> QED BY <2>1, <2>3, <2>4, <4>2, <5>1
      <4>4. h[a].tick <= end /\ a <= Len(h)
        BY <2>1, <2>5, <2>9
      <4> HIDE DEF a, h
      <4>5. f.available <=> Heard(h, a - 1)
        BY <2>4, <4>2
      <4> QED BY <1>2, <2>4, <2>5, <4>1, <4>2, <4>3, <4>4, <4>5 DEF Partial, h
    <3>5. PICK i \in a..Len(h) : Partial(db, id, end, a, g, i) /\ Filled(h, g)
      BY <1>2, <3>1, <3>2, <3>3, <3>4, RunPartial
    <3>6. g \in Runnable(id, h)
      BY <2>1, <3>1, <3>2, RunTyped
    <3>7. g \in History
      BY <3>6 DEF Runnable
    <3> DEFINE t == h[i].tick
    <3>8. /\ i \in 1..Len(h) /\ a <= i /\ t \in Nat /\ t <= end /\ g.through = t /\ m < t
          /\ t >= low /\ t # None
      <4>1. i \in 1..Len(h) /\ a <= i /\ t \in Nat
        BY <2>1, <2>5, <2>t, <3>5
      <4>2. t <= end /\ g.through = t
        BY <3>5, <4>1 DEF Partial
      <4>3. h[a].tick <= t
        BY <2>5, <2>6, <4>1
      <4> QED BY <2>2, <2>5, <4>1, <4>2, <4>3, NoneAssumption
    <3>9. Mark(low, g) = t
      BY <3>8 DEF Mark
    <3> HIDE DEF g
    <3>10. \A w \in (m + 1)..(t - 1) : NetRecord(db, id, w) = {}
      <4> SUFFICES ASSUME NEW w \in (m + 1)..(t - 1), NEW j \in Counted(db, id), h[j].tick = w
                   PROVE  FALSE
        BY NetNothing
      <4>1. j \in 1..Len(h)
        BY HistoryFacts DEF Counted
      <4>2. j > p /\ ~(i <= j)
        BY <2>1, <2>2, <2>3, <2>6, <2>t, <3>8, <4>1
      <4>3. j \in CountedIn(db, id, a, i)
        BY <2>1, <2>3, <3>8, <4>1, <4>2 DEF CountedIn
      <4>4. h[j].tick = t
        BY <3>5, <4>3 DEF Partial
      <4> QED BY <3>8, <4>4
    <3>11. ~CanAdvance(h, i, end) => \A j \in 1..i : h[j].tick < t + 1
      <4>1. \A j \in 1..i : j \in 1..Len(h) /\ j <= i
        BY <2>1, <3>8
      <4>2. \A j \in 1..i : h[j].tick <= t /\ h[j].tick \in Nat
        BY <2>6, <2>t, <3>8, <4>1
      <4> QED BY <3>8, <4>2
    <3>12. g.done => Records(db, id, t + 1, end) = {}
      <4> SUFFICES ASSUME g.done PROVE Records(db, id, t + 1, end) = {}
        OBVIOUS
      <4>1. i \in Broken(db, id) \/ ~CanAdvance(h, i, end)
        BY <3>5 DEF Partial
      <4>2. CASE i \in Broken(db, id)
        <5> SUFFICES ASSUME NEW w \in (t + 1)..end PROVE NetRecord(db, id, w) = {}
          BY <3>8, RecordsEmpty
        <5> QED BY <3>8, <4>2, NetAfter
      <4>3. CASE ~CanAdvance(h, i, end)
        <5>1. i \in 0..Len(h) /\ t + 1 \in Int /\ end \in Int
          BY <2>1, <3>8
        <5>2. \A j \in 1..i : j \in Counted(db, id) => h[j].tick < t + 1
          BY <3>11, <4>3
        <5> HIDE DEF t
        <5> QED BY <4>3, <5>1, <5>2, NoneBeyond
      <4> QED BY <4>1, <4>2, <4>3
    <3>13. ~g.done => /\ Seek(h, t) = i /\ (g.available <=> Heard(h, i))
                      /\ (\A j \in Broken(db, id) : j > i) /\ CanAdvance(h, i, end) /\ g.at = i + 1
                      /\ g.ready
      <4> SUFFICES ASSUME ~g.done
                   PROVE  /\ Seek(h, t) = i /\ (g.available <=> Heard(h, i))
                          /\ (\A j \in Broken(db, id) : j > i) /\ CanAdvance(h, i, end) /\ g.at = i + 1
                          /\ g.ready
        OBVIOUS
      <4>1. /\ g.at = i + 1 /\ i + 1 <= Len(h) /\ h[i + 1].tick <= end
            /\ (g.available <=> Heard(h, i)) /\ \A j \in Broken(db, id) : j >= i /\ j # i
        BY <3>5 DEF Partial
      <4>2. g.ready /\ h[i + 1].tick # t
        BY <3>5, <3>8, <4>1 DEF Filled
      <4>3. i + 1 \in 1..Len(h)
        BY <2>1, <3>8, <4>1
      <4>4. h[i + 1].tick > t
        BY <2>6, <2>t, <3>8, <4>2, <4>3
      <4>5. Seek(h, t) \in 0..Len(h) /\ \A j \in 1..Len(h) : h[j].tick <= t <=> j <= Seek(h, t)
        <5>1. t \in Int
          BY <3>8
        <5> HIDE DEF t
        <5> QED BY <5>1, AfterSeek
      <4>6. Seek(h, t) = i
        <5>1. PICK y \in 0..Len(h) : y = Seek(h, t)
          BY <4>5
        <5>2. i <= y /\ ~(i + 1 <= y)
          BY <2>t, <3>8, <4>3, <4>4, <4>5, <5>1
        <5> QED BY <2>1, <3>8, <5>1, <5>2
      <4>7. CanAdvance(h, i, end)
        BY <2>1, <3>8, <4>1 DEF CanAdvance
      <4>8. \A j \in Broken(db, id) : j > i
        <5>1. \A j \in Broken(db, id) : j \in 1..Len(h)
          BY HistoryFacts DEF Broken, Counted
        <5> QED BY <2>1, <3>8, <4>1, <5>1
      <4> QED BY <4>1, <4>2, <4>6, <4>7, <4>8
    <3>14. g.ready => /\ NetRecord(db, id, t) = {Decoded(g.head)} /\ g.head.tick = t
                      /\ Honest(db, g.head)
      <4> SUFFICES ASSUME g.ready
                   PROVE  /\ NetRecord(db, id, t) = {Decoded(g.head)} /\ g.head.tick = t
                          /\ Honest(db, g.head)
        OBVIOUS
      <4>1. NetRecord(db, id, t) = {Decoded(g.head)}
        BY <3>3, <3>5, NetHere
      <4>2. Decoded(g.head).tick = t /\ Decoded(g.head).id = id
        <5>1. Decoded(g.head) \in NetRecord(db, id, t)
          BY <4>1
        <5> HIDE DEF t
        <5> QED BY <5>1, NetShape
      <4>3. Honest(db, g.head)
        BY <3>5, <4>2, HeadHonest
      <4> QED BY <4>1, <4>2, <4>3, DecodedPlace
    <3>15. HistoryExact(db, id, low, end, session, g)
      <4>1. ~g.done => i >= 1
        BY <3>8
      <4> HIDE DEF t, h
      <4> QED BY <3>8, <3>9, <3>12, <3>13, <3>14, <4>1 DEF HistoryExact, h
    <3>16. g.ready \/ g.done
      BY <3>13
    <3>17. Pending(db, id, low, end, f) = Records(db, id, m + 1, end)
      BY <2>7 DEF Pending, Cut, m
    <3>18. Pending(db, id, low, end, g) = Records(db, id, m + 1, end)
      <4>1. CASE g.ready
        <5>1. Pending(db, id, low, end, g) = Records(db, id, t, end)
          BY <3>14, <4>1 DEF Pending, Cut
        <5>2. Records(db, id, m + 1, end) = Records(db, id, t, end)
          <6>1. m + 1 \in Int /\ t \in Int /\ m + 1 <= t /\ end \in Int
            BY <2>2, <3>8
          <6> HIDE DEF t
          <6> QED BY <3>10, <6>1, RecordsSkip
        <5> QED BY <5>1, <5>2
      <4>2. CASE ~g.ready
        <5>1. g.done /\ CountedIn(db, id, a, i) = {}
          BY <3>5, <3>16, <4>2 DEF Partial
        <5>2. Pending(db, id, low, end, g) = {}
          BY <3>9, <3>12, <4>2, <5>1 DEF Pending, Cut
        <5>3. i \notin Broken(db, id)
          BY <2>1, <3>8, <5>1 DEF CountedIn, Broken
        <5>4. ~CanAdvance(h, i, end)
          BY <3>5, <5>1, <5>3 DEF Partial
        <5>5. \A j \in 1..i : j \in Counted(db, id) => h[j].tick < m + 1
          <6> SUFFICES ASSUME NEW j \in 1..i, j \in Counted(db, id) PROVE h[j].tick < m + 1
            OBVIOUS
          <6>1. j < a
            BY <2>1, <2>3, <3>8, <5>1 DEF CountedIn
          <6>2. j <= p /\ j \in 1..Len(h)
            BY <2>1, <2>3, <3>8, <6>1
          <6> QED BY <2>2, <2>3, <2>t, <6>2
        <5>6. Records(db, id, m + 1, end) = {}
          <6>1. i \in 0..Len(h) /\ m + 1 \in Int /\ end \in Int
            BY <2>1, <2>2, <3>8
          <6> QED BY <5>4, <5>5, <6>1, NoneBeyond
        <5> QED BY <5>2, <5>6
      <4> QED BY <4>1, <4>2
    <3> QED BY <3>15, <3>16, <3>17, <3>18 DEF g
  <2> QED BY <2>8, <2>9
<1> QED BY <1>1, <1>2

\* A history whose record has been taken, a suspended and a reopened one.
SameMark(f, g) == g.through = f.through /\ g.available = f.available
IsPopped(f, g) == SameMark(f, g) /\ g.ready = FALSE /\ g.done = f.done /\ g.at = f.at
IsSuspended(f, g) == SameMark(f, g) /\ g.ready = f.ready /\ g.head = f.head /\ g.done = f.done
IsReopened(f, g, q) ==
    SameMark(f, g) /\ g.ready = f.ready /\ g.head = f.head /\ g.at = q /\ g.done = (q = 0)

\* Two states of a history with the same records to come.
SamePending(db, id, low, end, f, g) == Pending(db, id, low, end, g) = Pending(db, id, low, end, f)

\* Taking the record of a history.
LEMMA PopExact ==
    ASSUME NEW db \in Databases, NEW id \in Ids, NEW low \in Nat, NEW end \in Nat, NEW session,
           NEW f \in History, HistoryExact(db, id, low, end, session, f), f.ready,
           f.head \in Row, NEW x, x = Decoded(f.head),
           NEW g, IsPopped(f, g)
    PROVE  /\ HistoryExact(db, id, low, end, session, g)
           /\ x \in Pending(db, id, low, end, f)
           /\ x.id = id /\ x.tick = f.head.tick
           /\ Pending(db, id, low, end, g) = Pending(db, id, low, end, f) \ {x}
           /\ \A y \in Pending(db, id, low, end, f) : y = x \/ y.tick > x.tick
<1> DEFINE t == f.head.tick
<1>1. /\ g.ready = FALSE /\ g.done = f.done /\ g.through = f.through /\ g.available = f.available
      /\ g.at = f.at
  BY DEF SameMark, IsPopped, IsSuspended, IsReopened
<1>2. t \in Nat /\ t # None /\ f.through = t /\ low <= t /\ t <= end /\ NetRecord(db, id, t) = {x}
  <2>1. t \in Nat /\ t # None
    BY NoneAssumption DEF Row
  <2> QED BY <2>1 DEF HistoryExact
<1> HIDE DEF t
<1>3. HistoryExact(db, id, low, end, session, g)
  <2>1. Mark(low, g) = Mark(low, f)
    BY <1>1 DEF Mark
  <2> QED BY <1>1, <2>1 DEF HistoryExact
<1>4. x.id = id /\ x.tick = t
  <2>1. x \in NetRecord(db, id, t)
    BY <1>2
  <2> QED BY <2>1, NetShape
<1>5. Pending(db, id, low, end, f) = Records(db, id, t, end)
  BY DEF Pending, Cut, t
<1>6. Pending(db, id, low, end, g) = Records(db, id, t + 1, end)
  BY <1>1, <1>2 DEF Pending, Cut, Mark
<1>7. x \in Records(db, id, t, end)
  <2>1. t \in t..end
    BY <1>2
  <2> QED BY <1>2, <2>1, RecordsIn
<1>8. ASSUME NEW y \in Records(db, id, t, end) PROVE y = x \/ (y.tick > t /\ y \in Records(db, id, t + 1, end))
  <2>1. y.tick \in t..end /\ y \in NetRecord(db, id, y.tick)
    BY <1>2, RecordsShape
  <2>2. CASE y.tick = t
    BY <1>2, <2>1, <2>2
  <2>3. CASE y.tick # t
    <3>1. y.tick \in (t + 1)..end
      BY <1>2, <2>1, <2>3
    <3>2. y \in Records(db, id, t + 1, end)
      BY <1>2, <2>1, <3>1 DEF Records
    <3> QED BY <1>2, <3>1, <3>2
  <2> QED BY <2>2, <2>3
<1>9. ASSUME NEW y \in Records(db, id, t + 1, end) PROVE y \in Records(db, id, t, end) /\ y # x
  <2>1. y.tick \in (t + 1)..end /\ y \in NetRecord(db, id, y.tick)
    BY <1>2, RecordsShape
  <2>2. y.tick \in t..end /\ y.tick # t
    BY <1>2, <2>1
  <2> QED BY <1>4, <2>1, <2>2 DEF Records
<1>10. Records(db, id, t + 1, end) = Records(db, id, t, end) \ {x}
  BY <1>8, <1>9
<1>11. \A y \in Pending(db, id, low, end, f) : y = x \/ y.tick > x.tick
  BY <1>4, <1>5, <1>8
<1>12. Pending(db, id, low, end, g) = Pending(db, id, low, end, f) \ {x}
  BY <1>5, <1>6, <1>10
<1>13. x \in Pending(db, id, low, end, f)
  BY <1>5, <1>7
<1> QED BY <1>3, <1>4, <1>11, <1>12, <1>13 DEF t

\* Suspending a history keeps what it has completed.
LEMMA SuspendExact ==
    ASSUME NEW db, NEW id, NEW low, NEW end, NEW session, NEW f \in History,
           HistoryExact(db, id, low, end, session, f),
           NEW g, IsSuspended(f, g)
    PROVE  /\ HistoryExact(db, id, low, end, FALSE, g)
           /\ SamePending(db, id, low, end, f, g)
<1>1. /\ g.ready = f.ready /\ g.done = f.done /\ g.through = f.through /\ g.available = f.available
      /\ g.head = f.head
  BY DEF SameMark, IsPopped, IsSuspended, IsReopened
<1>2. Mark(low, g) = Mark(low, f) /\ Cut(low, g) = Cut(low, f)
  BY <1>1 DEF Mark, Cut
<1>3. HistoryExact(db, id, low, end, FALSE, g)
  BY <1>1, <1>2 DEF HistoryExact
<1> QED BY <1>2, <1>3 DEF Pending, SamePending

\* A reopened history continues where it was.
LEMMA ActivateExact ==
    ASSUME NEW db \in Databases, NEW id \in Ids, NEW s, s.from \in Nat, s.resume \in BOOLEAN,
           s.end \in Nat, s.resume => s.from > 0,
           NEW session, NEW f \in History, NEW low \in Nat, low = IF s.resume THEN s.from ELSE 0,
           HistoryExact(db, id, low, s.end, session, f), ~f.done,
           NEW q, q = CursorOf(s, db[id], f),
           NEW g, IsReopened(f, g, q)
    PROVE  /\ HistoryExact(db, id, low, s.end, TRUE, g)
           /\ SamePending(db, id, low, s.end, f, g)
<1> DEFINE h == db[id]
           end == s.end
           m == Mark(low, f)
           p == Seek(h, m)
<1>1. /\ g.ready = f.ready /\ g.done = (q = 0) /\ g.through = f.through /\ g.available = f.available
      /\ g.head = f.head /\ g.at = q
  BY DEF SameMark, IsPopped, IsSuspended, IsReopened
<1>2. Len(h) \in Nat /\ Len(h) >= 1 /\ f.through \in Nat \cup {None}
  BY HistoryFacts DEF History
<1>3. m \in Int
  BY <1>2 DEF Mark
<1>4. p \in 0..Len(h) /\ \A i \in 1..Len(h) : h[i].tick <= m <=> i <= p
  BY <1>3, AfterSeek
<1>5. /\ f.through # None => low <= f.through /\ f.through <= end
      /\ f.ready => f.through = f.head.tick /\ NetRecord(db, id, f.head.tick) = {Decoded(f.head)}
      /\ f.available <=> Heard(h, p)
      /\ \A j \in Broken(db, id) : j > p
      /\ f.through # None \/ low > 0 => p >= 1
      /\ f.through # None => CanAdvance(h, p, end)
  BY DEF HistoryExact
<1>6. Mark(low, g) = m /\ Cut(low, g) = Cut(low, f)
  BY <1>1 DEF Mark, Cut
<1>7. q = p + 1 \/ (q = 0 /\ ~CanAdvance(h, p, end))
  <2>1. CASE f.through # None \/ s.resume
    <3>1. p >= 1 /\ q = PastBoundary(h, m, end)
      <4>1. low > 0 <=> s.resume
        OBVIOUS
      <4> QED BY <1>5, <2>1, <4>1 DEF CursorOf, Mark
    <3> QED BY <1>2, <1>4, <3>1 DEF PastBoundary
  <2>2. CASE f.through = None /\ ~s.resume
    <3>1. m = -1 /\ q = 1
      BY <2>2 DEF Mark, CursorOf
    <3>2. ~(h[1].tick <= -1) /\ 1 \in 1..Len(h)
      BY <1>2, HistoryFacts
    <3>3. p = 0
      BY <1>2, <1>4, <3>1, <3>2
    <3> QED BY <3>1, <3>3
  <2> QED BY <1>2, <2>1, <2>2
<1> HIDE DEF m, p
<1>8. q = 0 => Records(db, id, m + 1, end) = {}
  <2> SUFFICES ASSUME q = 0 PROVE Records(db, id, m + 1, end) = {}
    OBVIOUS
  <2>1. ~CanAdvance(h, p, end)
    BY <1>4, <1>7
  <2>2. \A j \in 1..p : h[j].tick < m + 1
    <3>1. \A j \in 1..p : j \in 1..Len(h) /\ j <= p
      BY <1>2, <1>4
    <3>2. \A j \in 1..p : h[j].tick <= m /\ h[j].tick \in Nat
      BY <1>4, <3>1, HistoryFacts
    <3> QED BY <1>3, <3>2
  <2>3. p \in 0..Len(h) /\ m + 1 \in Int /\ end \in Int
    BY <1>3, <1>4
  <2> HIDE DEF end
  <2> QED BY <2>1, <2>2, <2>3, NoneBeyond
<1>9. HistoryExact(db, id, low, end, TRUE, g)
  <2>1. ~g.done => g.at = p + 1
    BY <1>1, <1>7
  <2>2. g.done => Records(db, id, m + 1, end) = {}
    BY <1>1, <1>8
  <2> HIDE DEF end
  <2> QED BY <1>1, <1>5, <1>6, <2>1, <2>2 DEF HistoryExact, p
<1> QED BY <1>6, <1>9 DEF Pending, SamePending

\* A new history, of a read from the beginning or one that resumes.
LEMMA NewExact ==
    ASSUME NEW db \in Databases, NEW id \in Ids, NEW resume \in BOOLEAN, NEW end \in Nat,
           NEW low \in Nat, resume <=> low > 0,
           resume => Net(db, {id}, 0, low - 1) # {},
           resume => \A x \in Net(db, {id}, 0, low - 1) : ~x.failed
    PROVE  HistoryExact(db, id, low, end, FALSE, NewHistory(resume))
<1> DEFINE h == db[id]
           f == NewHistory(resume)
           p == Seek(h, low - 1)
<1>1. /\ f.ready = FALSE /\ f.done = FALSE /\ f.available = resume /\ f.through = None
  BY DEF NewHistory
<1> HIDE DEF f
<1>2. Mark(low, f) = low - 1
  BY <1>1 DEF Mark
<1>3. Len(h) \in Nat /\ p \in 0..Len(h) /\ \A i \in 1..Len(h) : h[i].tick <= low - 1 <=> i <= p
  <2>1. low - 1 \in Int
    OBVIOUS
  <2> QED BY <2>1, AfterSeek, HistoryFacts
<1>4. \A j \in Broken(db, id) : j \in Counted(db, id) /\ j \in 1..Len(h) /\ h[j].tick \in Nat
  BY HistoryFacts DEF Broken, Counted
<1> HIDE DEF p
<1>5. CASE ~resume
  <2>1. p = 0
    <3>1. \A i \in 1..Len(h) : ~(i <= p)
      BY <1>3, <1>5, HistoryFacts
    <3> QED BY <1>3, <3>1
  <2>2. ~Heard(h, p)
    BY <2>1 DEF Heard
  <2>3. ~(low > 0) /\ \A j \in Broken(db, id) : j > p
    BY <1>3, <1>4, <1>5, <2>1
  <2>9. HistoryExact(db, id, low, end, FALSE, f)
    <3>1. p = Seek(db[id], Mark(low, f))
      BY <1>2 DEF p
    <3> HIDE DEF h
    <3> QED BY <1>1, <1>5, <2>2, <2>3, <3>1 DEF HistoryExact, h
  <2> QED BY <2>9 DEF f
<1>6. CASE resume
  <2>1. PICK t \in 0..(low - 1) : NetRecord(db, id, t) # {}
    BY <1>6 DEF Net
  <2>2. PICK i : i \in AtTick(db, id, t)
    BY <2>1 DEF NetRecord
  <2>3. i \in Counted(db, id) /\ i \in 1..Len(h) /\ h[i].tick = t
    BY <2>2, HistoryFacts DEF AtTick, Counted
  <2>4. i <= p
    BY <1>3, <2>3
  <2>5. Heard(h, p)
    <3>1. \/ h[i].state \notin {"absent", "quiet"}
          \/ \E j \in 1..(i - 1) : h[j].state \notin {"absent", "quiet"}
      BY <2>3, HistoryFacts DEF Counted
    <3> QED BY <1>3, <2>3, <2>4, <3>1 DEF Heard
  <2>6. ASSUME NEW b \in Broken(db, id), b <= p PROVE FALSE
    <3> DEFINE Early == {j \in Broken(db, id) : j <= p}
    <3>1. PICK c \in Early : \A y \in Early : c <= y
      <4>1. Early \subseteq Nat /\ Early # {}
        BY <1>4, <2>6
      <4> HIDE DEF Early
      <4> QED BY <4>1, LeastNat
    <3>2. c \in Broken(db, id) /\ \A j \in Broken(db, id) : c <= j
      BY <1>3, <1>4, <3>1
    <3>3. c \in AtTick(db, id, h[c].tick)
      BY <1>4, <3>2 DEF AtTick
    <3>4. NetRecord(db, id, h[c].tick) = {FailedRecord(id, h[c].tick)}
      BY <3>2, <3>3 DEF NetRecord
    <3>5. h[c].tick \in 0..(low - 1)
      BY <1>3, <1>4, <3>1
    <3>6. FailedRecord(id, h[c].tick) \in Net(db, {id}, 0, low - 1)
      BY <3>4, <3>5 DEF Net
    <3> QED BY <1>6, <3>6 DEF FailedRecord
  <2>7. \A j \in Broken(db, id) : j > p
    BY <1>3, <1>4, <2>6
  <2>8. p >= 1
    BY <1>3, <2>3, <2>4
  <2>9. HistoryExact(db, id, low, end, FALSE, f)
    <3>1. p = Seek(db[id], Mark(low, f))
      BY <1>2 DEF p
    <3> HIDE DEF h
    <3> QED BY <1>1, <1>6, <2>5, <2>7, <2>8, <3>1 DEF HistoryExact, h
  <2> QED BY <2>9 DEF f
<1> QED BY <1>5, <1>6

-----------------------------------------------------------------------------
(* The merged stream. *)

\* The first tick a stream has to deliver.
Low(s) == IF s.resume THEN s.from ELSE 0

\* A stream is exact when its histories are; before its start none of them has been
\* read, afterwards only the one to refill may lack a record.
StreamExact(db, s) ==
    /\ s.resume => s.from > 0
    /\ \A id \in s.ids : HistoryExact(db, id, Low(s), s.end, s.session, s.histories[id])
    /\ ~s.started => \A id \in s.ids : s.histories[id].through = None /\ ~s.histories[id].ready
    /\ s.started => \A id \in s.ids \ {s.refill} : s.histories[id].ready \/ s.histories[id].done

\* The records of a history that are still to be taken, and those of the stream.
LeftIn(db, s, id) == Pending(db, id, Low(s), s.end, s.histories[id])
Left(db, s) == UNION {LeftIn(db, s, id) : id \in s.ids}

\* Two streams of the same read.
SameRead(s, t) == t.ids = s.ids /\ t.from = s.from /\ t.end = s.end /\ t.resume = s.resume

\* The parts of a stream.
LEMMA StreamFields ==
    ASSUME NEW db, NEW s, StreamOK(db, s)
    PROVE  /\ s \in Stream /\ s.ids \subseteq Ids /\ s.from \in Nat /\ s.end \in Nat
           /\ s.resume \in BOOLEAN /\ s.session \in BOOLEAN /\ s.started \in BOOLEAN
           /\ Low(s) \in Nat /\ s.histories \in [s.ids -> History]
           /\ \A id \in s.ids : /\ s.histories[id] \in History
                                /\ HistoryOK(id, db[id], s.histories[id], s.session)
<1>1. /\ s \in Stream /\ s.ids \subseteq Ids /\ s.from \in Nat /\ s.end \in Nat
      /\ s.resume \in BOOLEAN /\ s.session \in BOOLEAN /\ s.started \in BOOLEAN
  BY DEF StreamOK, Stream
<1>2. \A id \in s.ids : s.histories[id] \in History /\ HistoryOK(id, db[id], s.histories[id], s.session)
  BY DEF StreamOK, HistoryOK
<1>3. s.histories \in [s.ids -> History]
  BY <1>1, <1>2 DEF StreamOK, Stream
<1> QED BY <1>1, <1>2, <1>3 DEF Low

\* Changing the histories of a stream one by one.
LEMMA StreamChanged ==
    ASSUME NEW db, NEW s, NEW t, SameRead(s, t), s.resume => s.from > 0,
           \A id \in s.ids :
              /\ HistoryExact(db, id, Low(s), s.end, t.session, t.histories[id])
              /\ LeftIn(db, t, id) = LeftIn(db, s, id),
           ~t.started => \A id \in t.ids : t.histories[id].through = None /\ ~t.histories[id].ready,
           t.started => \A id \in t.ids \ {t.refill} : t.histories[id].ready \/ t.histories[id].done
    PROVE  StreamExact(db, t) /\ Left(db, t) = Left(db, s)
<1>1. Low(t) = Low(s) /\ t.ids = s.ids /\ t.end = s.end /\ t.from = s.from /\ t.resume = s.resume
  BY DEF SameRead, Low
<1>2. StreamExact(db, t)
  BY <1>1 DEF StreamExact
<1>3. Left(db, t) = Left(db, s)
  BY <1>1 DEF Left
<1> QED BY <1>2, <1>3

\* suspend: a stream that loses its session has the same records left.
LEMMA SuspendedExact ==
    ASSUME NEW db, NEW s, StreamOK(db, s), StreamExact(db, s)
    PROVE  /\ StreamExact(db, Suspended(s)) /\ Left(db, Suspended(s)) = Left(db, s)
           /\ SameRead(s, Suspended(s)) /\ Suspended(s).started = s.started
<1> DEFINE new(id) == [s.histories[id] EXCEPT !.at = 0]
           hs == [id \in s.ids |-> new(id)]
           t == Suspended(s)
<1>1. t = [s EXCEPT !.session = FALSE, !.histories = hs]
  BY DEF Suspended
<1>2. s \in Stream /\ \A id \in s.ids : s.histories[id] \in History
  BY StreamFields
<1> HIDE DEF hs
<1>3. /\ SameRead(s, t) /\ t.session = FALSE /\ t.histories = hs /\ t.started = s.started
      /\ t.refill = s.refill
  BY <1>1, <1>2 DEF Stream, SameRead
<1>4. ASSUME NEW id \in s.ids
      PROVE  /\ HistoryExact(db, id, Low(s), s.end, FALSE, new(id))
             /\ Pending(db, id, Low(s), s.end, new(id)) = Pending(db, id, Low(s), s.end, s.histories[id])
  <2>1. HistoryExact(db, id, Low(s), s.end, s.session, s.histories[id])
    BY DEF StreamExact
  <2>2. PICK f \in History : f = s.histories[id]
    BY <1>2
  <2>g. /\ new(id).through = f.through /\ new(id).available = f.available
        /\ new(id).ready = f.ready /\ new(id).head = f.head /\ new(id).done = f.done
    BY <2>2 DEF History
  <2> HIDE DEF new
  <2>3. PICK g : g = new(id) /\ IsSuspended(f, g)
    BY <2>g DEF IsSuspended, SameMark
  <2>4. /\ HistoryExact(db, id, Low(s), s.end, FALSE, g)
        /\ SamePending(db, id, Low(s), s.end, f, g)
    BY <2>1, <2>2, <2>3, SuspendExact
  <2> QED BY <2>2, <2>3, <2>4 DEF SamePending
<1>5. \A id \in s.ids : /\ new(id).through = s.histories[id].through
                        /\ new(id).ready = s.histories[id].ready
                        /\ new(id).done = s.histories[id].done
  BY <1>2 DEF History
<1>6. \A id \in s.ids : t.histories[id] = new(id)
  BY <1>3 DEF hs
<1> HIDE DEF t, new
<1>7. Low(t) = Low(s) /\ t.end = s.end /\ t.ids = s.ids
  BY <1>3 DEF SameRead, Low
<1>8. \A id \in s.ids : /\ HistoryExact(db, id, Low(s), s.end, t.session, t.histories[id])
                        /\ LeftIn(db, t, id) = LeftIn(db, s, id)
  BY <1>3, <1>4, <1>6, <1>7 DEF LeftIn
<1>9. /\ s.resume => s.from > 0
      /\ ~t.started => \A id \in t.ids : t.histories[id].through = None /\ ~t.histories[id].ready
      /\ t.started => \A id \in t.ids \ {t.refill} : t.histories[id].ready \/ t.histories[id].done
  BY <1>3, <1>5, <1>6, <1>7 DEF StreamExact
<1>10. StreamExact(db, t) /\ Left(db, t) = Left(db, s)
  BY <1>3, <1>8, <1>9, StreamChanged
<1> QED BY <1>3, <1>10 DEF t

\* activate: so has one that gets a session.
LEMMA ActivatedExact ==
    ASSUME NEW db \in Databases, NEW s, StreamOK(db, s), StreamExact(db, s)
    PROVE  /\ StreamExact(db, Activated(db, s)) /\ Left(db, Activated(db, s)) = Left(db, s)
           /\ SameRead(s, Activated(db, s)) /\ Activated(db, s).started = s.started
           /\ Activated(db, s).refill = s.refill
<1> DEFINE cur(id) == CursorOf(s, db[id], s.histories[id])
           new(id) == IF s.histories[id].done THEN s.histories[id]
                      ELSE [s.histories[id] EXCEPT !.at = cur(id), !.done = cur(id) = 0]
           hs == [id \in s.ids |-> new(id)]
           t == Activated(db, s)
<1>1. t = [s EXCEPT !.session = TRUE, !.histories = hs]
  BY DEF Activated
<1>2. /\ s \in Stream /\ s.ids \subseteq Ids /\ s.from \in Nat /\ s.end \in Nat
      /\ s.resume \in BOOLEAN /\ Low(s) \in Nat /\ (s.resume => s.from > 0)
      /\ \A id \in s.ids : s.histories[id] \in History
  BY StreamFields DEF StreamExact
<1> HIDE DEF hs
<1>3. /\ SameRead(s, t) /\ t.session = TRUE /\ t.histories = hs /\ t.started = s.started
      /\ t.refill = s.refill
  BY <1>1, <1>2 DEF Stream, SameRead
<1>4. ASSUME NEW id \in s.ids
      PROVE  /\ HistoryExact(db, id, Low(s), s.end, TRUE, new(id))
             /\ Pending(db, id, Low(s), s.end, new(id)) = Pending(db, id, Low(s), s.end, s.histories[id])
  <2>1. HistoryExact(db, id, Low(s), s.end, s.session, s.histories[id]) /\ id \in Ids
    BY <1>2 DEF StreamExact
  <2>2. CASE s.histories[id].done
    <3>1. new(id) = s.histories[id]
      BY <2>2
    <3> HIDE DEF new
    <3> QED BY <2>1, <2>2, <3>1 DEF HistoryExact
  <2>3. CASE ~s.histories[id].done
    <3>1. Low(s) = IF s.resume THEN s.from ELSE 0
      BY DEF Low
    <3>2. PICK f \in History : f = s.histories[id]
      BY <1>2
    <3>3. PICK low \in Nat : low = Low(s)
      BY <1>2
    <3>4. PICK q : q = CursorOf(s, db[id], f)
      OBVIOUS
    <3>g. /\ new(id).through = f.through /\ new(id).available = f.available
          /\ new(id).ready = f.ready /\ new(id).head = f.head /\ new(id).done = (q = 0)
          /\ new(id).at = q
      BY <2>3, <3>2, <3>4 DEF History
    <3> HIDE DEF new
    <3>6. PICK g : g = new(id) /\ IsReopened(f, g, q)
      BY <3>g DEF IsReopened, SameMark
    <3>5. /\ HistoryExact(db, id, low, s.end, TRUE, g)
          /\ SamePending(db, id, low, s.end, f, g)
      <4>1. HistoryExact(db, id, low, s.end, s.session, f) /\ ~f.done
        BY <2>1, <2>3, <3>2, <3>3
      <4>2. low = IF s.resume THEN s.from ELSE 0
        BY <3>1, <3>3
      <4> QED BY <1>2, <2>1, <3>4, <3>6, <4>1, <4>2, ActivateExact
    <3> QED BY <3>2, <3>3, <3>5, <3>6 DEF SamePending
  <2> QED BY <2>2, <2>3
<1>5. \A id \in s.ids : /\ new(id).through = s.histories[id].through
                        /\ new(id).ready = s.histories[id].ready
                        /\ s.histories[id].done => new(id).done
  BY <1>2 DEF History
<1>6. \A id \in s.ids : t.histories[id] = new(id)
  BY <1>3 DEF hs
<1> HIDE DEF t, new
<1>7. Low(t) = Low(s) /\ t.end = s.end /\ t.ids = s.ids
  BY <1>3 DEF SameRead, Low
<1>8. \A id \in s.ids : /\ HistoryExact(db, id, Low(s), s.end, t.session, t.histories[id])
                        /\ LeftIn(db, t, id) = LeftIn(db, s, id)
  BY <1>3, <1>4, <1>6, <1>7 DEF LeftIn
<1>9. /\ s.resume => s.from > 0
      /\ ~t.started => \A id \in t.ids : t.histories[id].through = None /\ ~t.histories[id].ready
      /\ t.started => \A id \in t.ids \ {t.refill} : t.histories[id].ready \/ t.histories[id].done
  BY <1>3, <1>5, <1>6, <1>7 DEF StreamExact
<1>10. StreamExact(db, t) /\ Left(db, t) = Left(db, s)
  BY <1>3, <1>8, <1>9, StreamChanged
<1> QED BY <1>3, <1>10 DEF t

\* Filling the histories that lack a record takes none.
LEMMA RefilledExact ==
    ASSUME NEW db \in Databases, NEW s, StreamOK(db, s), StreamExact(db, s), s.session \/ ~Wants(s)
    PROVE  /\ StreamExact(db, Refilled(db, s)) /\ Left(db, Refilled(db, s)) = Left(db, s)
           /\ SameRead(s, Refilled(db, s)) /\ Refilled(db, s).started
           /\ \A id \in s.ids : Refilled(db, s).histories[id].ready \/ Refilled(db, s).histories[id].done
<1> DEFINE new(id) == IF id \in Filling(s) THEN Fill(id, db[id], s.end, s.histories[id])
                      ELSE s.histories[id]
           hs == [id \in s.ids |-> new(id)]
           t == Refilled(db, s)
<1>1. t = [s EXCEPT !.started = TRUE, !.refill = None, !.histories = hs]
  BY DEF Refilled
<1>2. /\ s \in Stream /\ s.ids \subseteq Ids /\ s.end \in Nat /\ Low(s) \in Nat
      /\ \A id \in s.ids : /\ s.histories[id] \in History
                           /\ HistoryOK(id, db[id], s.histories[id], s.session)
  BY StreamFields
<1> HIDE DEF hs
<1>3. SameRead(s, t) /\ t.session = s.session /\ t.histories = hs /\ t.started = TRUE
  BY <1>1, <1>2 DEF Stream, SameRead
<1>4. ASSUME NEW id \in s.ids
      PROVE  /\ HistoryExact(db, id, Low(s), s.end, s.session, new(id))
             /\ Pending(db, id, Low(s), s.end, new(id)) = Pending(db, id, Low(s), s.end, s.histories[id])
             /\ new(id).ready \/ new(id).done
  <2>1. HistoryExact(db, id, Low(s), s.end, s.session, s.histories[id]) /\ id \in Ids
    BY <1>2 DEF StreamExact
  <2>2. CASE id \in Filling(s)
    <3>1. s.session \/ s.histories[id].done
      BY <2>2 DEF Wants, Filling
    <3> QED BY <1>2, <2>1, <2>2, <3>1, FillExact
  <2>3. CASE id \notin Filling(s)
    <3>1. s.started
      BY <2>3 DEF Filling
    <3>2. id # s.refill
      BY <2>1, <2>3, <3>1, HistoryAssumption, NoneAssumption DEF Filling
    <3>3. s.histories[id].ready \/ s.histories[id].done
      BY <3>1, <3>2 DEF StreamExact
    <3> QED BY <2>1, <2>3, <3>3
  <2> QED BY <2>2, <2>3
<1>6. \A id \in s.ids : t.histories[id] = new(id)
  BY <1>3 DEF hs
<1> HIDE DEF t, new
<1>7. Low(t) = Low(s) /\ t.end = s.end /\ t.ids = s.ids
  BY <1>3 DEF SameRead, Low
<1>8. \A id \in s.ids : /\ HistoryExact(db, id, Low(s), s.end, t.session, t.histories[id])
                        /\ LeftIn(db, t, id) = LeftIn(db, s, id)
  BY <1>3, <1>4, <1>6, <1>7 DEF LeftIn
<1>9. /\ s.resume => s.from > 0
      /\ t.started
      /\ \A id \in s.ids : t.histories[id].ready \/ t.histories[id].done
  BY <1>3, <1>4, <1>6, <1>7 DEF StreamExact
<1>10. StreamExact(db, t) /\ Left(db, t) = Left(db, s)
  BY <1>3, <1>7, <1>8, <1>9, StreamChanged
<1> QED BY <1>3, <1>9, <1>10 DEF t

\* The records still to come are net records of the read, each known by its identity
\* and tick.
LEMMA LeftShape ==
    ASSUME NEW db \in Databases, NEW s, StreamOK(db, s), StreamExact(db, s), NEW x \in Left(db, s)
    PROVE  /\ x.id \in s.ids /\ x.tick \in Nat /\ Low(s) <= x.tick /\ x.tick <= s.end
           /\ x \in LeftIn(db, s, x.id) /\ x \in NetRecord(db, x.id, x.tick)
<1>1. PICK id \in s.ids : x \in LeftIn(db, s, id)
  BY DEF Left
<1>2. PICK f \in History : f = s.histories[id] /\ HistoryOK(id, db[id], f, s.session)
  BY StreamFields
<1>3. HistoryExact(db, id, Low(s), s.end, s.session, f) /\ Low(s) \in Nat /\ s.end \in Nat
  BY <1>2, StreamFields DEF StreamExact
<1>4. f.through \in Nat \cup {None} /\ (f.ready => f.head.tick \in Nat)
  BY <1>2 DEF History, HistoryOK, Row
<1>5. Cut(Low(s), f) \in Nat /\ Low(s) <= Cut(Low(s), f)
  <2>1. f.through # None => Low(s) <= f.through
    BY <1>3 DEF HistoryExact
  <2>2. f.ready => f.through = f.head.tick
    BY <1>3 DEF HistoryExact
  <2> QED BY <1>3, <1>4, <2>1, <2>2, NoneAssumption DEF Cut, Mark
<1>6. PICK t \in Nat : t = Cut(Low(s), f)
  BY <1>5
<1>7. x \in Records(db, id, t, s.end)
  BY <1>1, <1>2, <1>6 DEF LeftIn, Pending
<1>8. x.id = id /\ x.tick \in t..s.end /\ x \in NetRecord(db, id, x.tick)
  BY <1>3, <1>7, RecordsShape
<1> QED BY <1>1, <1>3, <1>5, <1>6, <1>8

\* The record that is taken next: the first of those still to come.
IsNext(x, left) == x \in left /\ \A y \in left : y = x \/ Before(x, y)

\* Taking a record changes one history.
LEMMA PoppedIs ==
    ASSUME NEW db, NEW s, StreamOK(db, s), NEW id \in s.ids, NEW t, t = Popped(s, id)
    PROVE  /\ t.ids = s.ids /\ t.from = s.from /\ t.end = s.end /\ t.resume = s.resume
           /\ t.session = s.session /\ (s.started => t.started) /\ t.refill = id
           /\ IsPopped(s.histories[id], t.histories[id])
           /\ \A i \in s.ids \ {id} : t.histories[i] = s.histories[i]
<1> DEFINE f == s.histories[id]
           g == [f EXCEPT !.ready = FALSE, !.head = None]
           hs == [s.histories EXCEPT ![id] = g]
<1>0. s \in Stream /\ s.histories \in [s.ids -> History]
  BY StreamFields
<1>1. t = [s EXCEPT !.histories = hs, !.refill = id]
  BY <1>0 DEF Popped, Stream, History
<1>2. g.through = f.through /\ g.available = f.available /\ g.ready = FALSE /\ g.done = f.done /\ g.at = f.at
  <2>1. f \in History
    BY <1>0
  <2> HIDE DEF f
  <2> QED BY <2>1 DEF History
<1> HIDE DEF g
<1>3. hs[id] = g /\ \A i \in s.ids \ {id} : hs[i] = s.histories[i]
  BY <1>0
<1> HIDE DEF hs
<1>4. /\ t.ids = s.ids /\ t.from = s.from /\ t.end = s.end /\ t.resume = s.resume
      /\ t.session = s.session /\ t.started = s.started /\ t.refill = id /\ t.histories = hs
  BY <1>0, <1>1 DEF Stream
<1>5. IsPopped(f, g)
  BY <1>2 DEF IsPopped, SameMark
<1> QED BY <1>3, <1>4, <1>5

\* A history that is not ready has nothing left.
LEMMA PoppedExact ==
    ASSUME NEW db \in Databases, NEW s, StreamOK(db, s), StreamExact(db, s), s.started,
           \A id \in s.ids : s.histories[id].ready \/ s.histories[id].done,
           NEW some \in s.ids, s.histories[some].ready,
           NEW id, id = Earliest(s), NEW row, row = s.histories[id].head,
           NEW t, t = Popped(s, id)
    PROVE  /\ StreamExact(db, t) /\ SameRead(s, t)
           /\ row \in Row /\ Honest(db, row) /\ IsNext(Decoded(row), Left(db, s))
           /\ Left(db, t) = Left(db, s) \ {Decoded(row)}
<1> DEFINE x == Decoded(row)
<1>1. /\ id \in s.ids /\ s.histories[id].ready
      /\ \A other \in s.ids \ {id} :
            s.histories[other].ready => Before(row, s.histories[other].head)
  BY EarliestIn
<1>2. /\ s \in Stream /\ s.ids \subseteq Ids /\ s.end \in Nat /\ Low(s) \in Nat
      /\ s.histories \in [s.ids -> History]
      /\ \A i \in s.ids : /\ s.histories[i] \in History
                          /\ HistoryOK(i, db[i], s.histories[i], s.session)
  BY StreamFields
<1>3. PICK f \in History : f = s.histories[id] /\ HistoryOK(id, db[id], f, s.session)
  BY <1>1, <1>2
<1>4. row = f.head /\ f.ready /\ row \in Row /\ row.id = id /\ row.tick \in Nat
  BY <1>1, <1>3 DEF HistoryOK, Row
<1>5. /\ HistoryExact(db, id, Low(s), s.end, s.session, f) /\ (s.resume => s.from > 0)
      /\ \A i \in s.ids : HistoryExact(db, i, Low(s), s.end, s.session, s.histories[i])
  BY <1>1, <1>3 DEF StreamExact
<1>6. /\ t.ids = s.ids /\ t.from = s.from /\ t.end = s.end /\ t.resume = s.resume
      /\ t.session = s.session /\ (s.started => t.started) /\ t.refill = id
      /\ IsPopped(s.histories[id], t.histories[id])
      /\ \A i \in s.ids \ {id} : t.histories[i] = s.histories[i]
  <2>1. id \in s.ids
    BY <1>1
  <2>2. /\ t.ids = s.ids /\ t.from = s.from /\ t.end = s.end /\ t.resume = s.resume
        /\ t.session = s.session /\ (s.started => t.started) /\ t.refill = id
    BY <2>1, PoppedIs
  <2>3. IsPopped(s.histories[id], t.histories[id])
    BY <2>1, PoppedIs
  <2>4. \A i \in s.ids \ {id} : t.histories[i] = s.histories[i]
    BY <2>1, PoppedIs
  <2> QED BY <2>2, <2>3, <2>4
<1>7. PICK g : g = t.histories[id]
  OBVIOUS
<1>8. t.histories[id] = g /\ \A i \in s.ids \ {id} : t.histories[i] = s.histories[i]
  BY <1>6, <1>7
<1>9. /\ SameRead(s, t) /\ t.session = s.session /\ (s.started => t.started)
      /\ t.refill = id /\ t.ids = s.ids /\ t.end = s.end
  BY <1>6 DEF SameRead
<1>10. Low(t) = Low(s)
  BY <1>9 DEF Low, SameRead
<1>11. IsPopped(f, g)
  BY <1>3, <1>6, <1>7
<1>12. PICK left : left = LeftIn(db, s, id)
  OBVIOUS
<1>13. /\ HistoryExact(db, id, Low(s), s.end, s.session, g)
       /\ x \in left /\ x.id = id /\ x.tick = row.tick
       /\ Pending(db, id, Low(s), s.end, g) = left \ {x}
       /\ \A y \in left : y = x \/ y.tick > x.tick
  <2>1. left = Pending(db, id, Low(s), s.end, f)
    BY <1>3, <1>12 DEF LeftIn
  <2> HIDE DEF x
  <2>2. x = Decoded(f.head) /\ f.head \in Row /\ id \in Ids
    BY <1>1, <1>2, <1>4 DEF x
  <2> QED BY <1>2, <1>4, <1>5, <1>11, <2>1, <2>2, PopExact
<1>14. LeftIn(db, t, id) = left \ {x}
  BY <1>8, <1>9, <1>10, <1>13 DEF LeftIn
<1>15. \A i \in s.ids \ {id} : LeftIn(db, t, i) = LeftIn(db, s, i)
  BY <1>8, <1>9, <1>10 DEF LeftIn
<1> HIDE DEF x
<1>16. ASSUME NEW y \in Left(db, s), y.id # id PROVE Before(x, y) /\ y # x
  <2>1. /\ y.id \in s.ids \ {id} /\ y.tick \in Nat /\ y \in LeftIn(db, s, y.id) /\ y.id \in Nat
        /\ id \in Nat
    BY <1>1, <1>2, <1>16, LeftShape, HistoryAssumption
  <2>2. PICK k \in History : k = s.histories[y.id] /\ HistoryOK(y.id, db[y.id], k, s.session)
    BY <1>2, <2>1
  <2>3. HistoryExact(db, y.id, Low(s), s.end, s.session, k)
    BY <1>5, <2>1, <2>2
  <2>4. y \in Pending(db, y.id, Low(s), s.end, k)
    BY <2>1, <2>2 DEF LeftIn
  <2>5. CASE ~k.ready
    <3>1. k.done /\ Pending(db, y.id, Low(s), s.end, k) = {}
      BY <2>1, <2>2, <2>3, <2>5 DEF HistoryExact, Pending, Cut
    <3> QED BY <2>4, <3>1
  <2>6. CASE k.ready
    <3>1. Before(row, k.head) /\ k.head.tick \in Nat /\ k.head.id = y.id
      BY <1>1, <2>1, <2>2, <2>6 DEF HistoryOK, Row
    <3>2. PICK u \in Nat : u = k.head.tick
      BY <3>1
    <3>3. y \in Records(db, y.id, u, s.end)
      BY <2>4, <2>6, <3>2 DEF Pending, Cut
    <3>4. y.tick \in u..s.end
      BY <1>2, <3>3, RecordsShape
    <3>5. u <= y.tick
      BY <1>2, <2>1, <3>4
    <3> QED BY <1>4, <1>13, <1>16, <2>1, <3>1, <3>2, <3>5 DEF Before
  <2> QED BY <2>5, <2>6
<1>17. ASSUME NEW y \in Left(db, s), y.id = id PROVE y \in left
  BY <1>12, <1>17, LeftShape
<1>18. \A y \in Left(db, s) : y = x \/ Before(x, y)
  <2> TAKE y \in Left(db, s)
  <2>1. CASE y.id = id
    <3>1. y = x \/ y.tick > x.tick
      BY <1>13, <1>17, <2>1
    <3> QED BY <3>1, <1>4, <1>13, LeftShape DEF Before
  <2>2. CASE y.id # id
    BY <1>16, <2>2
  <2> QED BY <2>1, <2>2
<1>19. x \in Left(db, s)
  BY <1>1, <1>12, <1>13 DEF Left
<1>20. Left(db, t) = Left(db, s) \ {x}
  <2>1. ASSUME NEW y \in Left(db, t) PROVE y \in Left(db, s) \ {x}
    <3>1. PICK i \in s.ids : y \in LeftIn(db, t, i)
      BY <1>9 DEF Left
    <3>2. CASE i = id
      BY <1>1, <1>12, <1>14, <3>1, <3>2 DEF Left
    <3>3. CASE i # id
      <4>1. y \in LeftIn(db, s, i) /\ y \in Left(db, s)
        BY <1>15, <3>1, <3>3 DEF Left
      <4>2. y.id = i
        <5>1. PICK k \in History : k = s.histories[i] /\ HistoryOK(i, db[i], k, s.session)
          BY <1>2
        <5>2. PICK u : y \in NetRecord(db, i, u)
          BY <4>1 DEF LeftIn, Pending, Records
        <5> QED BY <5>2, NetShape
      <4> QED BY <1>13, <3>3, <4>1, <4>2
    <3> QED BY <3>2, <3>3
  <2>2. ASSUME NEW y \in Left(db, s) \ {x} PROVE y \in Left(db, t)
    <3>1. y.id \in s.ids /\ y \in LeftIn(db, s, y.id)
      BY LeftShape
    <3>2. y \in LeftIn(db, t, y.id)
      BY <1>12, <1>14, <1>15, <3>1
    <3> QED BY <1>9, <3>1, <3>2 DEF Left
  <2> QED BY <2>1, <2>2
<1>21. StreamExact(db, t)
  <2>1. \A i \in t.ids : HistoryExact(db, i, Low(t), t.end, t.session, t.histories[i])
    BY <1>5, <1>8, <1>9, <1>10, <1>13
  <2>2. t.started /\ (t.resume => t.from > 0)
    BY <1>5, <1>9 DEF SameRead
  <2>3. \A i \in t.ids \ {t.refill} : t.histories[i].ready \/ t.histories[i].done
    BY <1>8, <1>9
  <2> QED BY <2>1, <2>2, <2>3 DEF StreamExact
<1>22. Honest(db, row)
  BY <1>4, <1>5 DEF HistoryExact
<1> QED BY <1>4, <1>9, <1>18, <1>19, <1>20, <1>21, <1>22 DEF IsNext, x

\* The flag of the first batch does not matter.
LEMMA FirstExact ==
    ASSUME NEW db, NEW s, StreamOK(db, s), StreamExact(db, s),
           NEW t, t = [s EXCEPT !.first = FALSE]
    PROVE  StreamExact(db, t) /\ SameRead(s, t) /\ Left(db, t) = Left(db, s)
<1>1. /\ t.ids = s.ids /\ t.from = s.from /\ t.end = s.end /\ t.resume = s.resume
      /\ t.session = s.session /\ (s.started => t.started) /\ t.refill = s.refill
      /\ t.histories = s.histories
  BY DEF StreamOK, Stream
<1>2. SameRead(s, t) /\ Low(t) = Low(s)
  BY <1>1 DEF SameRead, Low
<1>3. StreamExact(db, t)
  BY <1>1, <1>2 DEF StreamExact
<1>4. \A id \in s.ids : LeftIn(db, t, id) = LeftIn(db, s, id)
  BY <1>1, <1>2 DEF LeftIn
<1> QED BY <1>1, <1>2, <1>3, <1>4 DEF Left

-----------------------------------------------------------------------------
(* Rows that have been collected. *)

\* What the rows of a batch are to the Rust reader.
Rows(rows) == {Decoded(rows[k]) : k \in 1..Len(rows)}

\* The rows of a batch, in order, precede what is left in the stream; together they are
\* all that has not been handed to the Rust reader.
QueueOK(db, rows, left, all) ==
    /\ \A k \in 1..Len(rows) : Honest(db, rows[k])
    /\ \A j, k \in 1..Len(rows) : j < k => Before(Decoded(rows[j]), Decoded(rows[k]))
    /\ \A k \in 1..Len(rows), y \in left : Before(Decoded(rows[k]), y)
    /\ all = left \cup Rows(rows)

\* No rows, and everything is left.
LEMMA QueueEmpty ==
    ASSUME NEW db, NEW left
    PROVE  QueueOK(db, <<>>, left, left)
<1>1. Len(<<>>) = 0 /\ 1..0 = {}
  OBVIOUS
<1> QED BY <1>1 DEF QueueOK, Rows

\* A set that has lost an element.
Without(left, x, rest) == rest = left \ {x}

\* Collecting one more row.
LEMMA QueueAppend ==
    ASSUME NEW db, NEW rows \in Seq(Row), NEW left, NEW all, QueueOK(db, rows, left, all),
           NEW row \in Row, Honest(db, row), IsNext(Decoded(row), left),
           NEW rest, Without(left, Decoded(row), rest),
           NEW more, more = Append(rows, row)
    PROVE  QueueOK(db, more, rest, all)
<1> DEFINE x == Decoded(row)
<1>1. /\ Len(rows) \in Nat /\ Len(more) = Len(rows) + 1 /\ more[Len(rows) + 1] = row
      /\ \A k \in 1..Len(rows) : more[k] = rows[k]
  BY AppendProperties
<1>2. PICK n \in Nat : n = Len(rows)
  BY <1>1
<1>3. \A k \in 1..Len(more) : k = n + 1 \/ k \in 1..n
  BY <1>1, <1>2
<1>4. x \in left /\ \A y \in rest : Before(x, y)
  BY DEF IsNext, Without
<1> HIDE DEF x
<1>5. \A k \in 1..Len(more) : Honest(db, more[k])
  BY <1>1, <1>2, <1>3 DEF QueueOK
<1>6. ASSUME NEW j \in 1..Len(more), NEW k \in 1..Len(more), j < k
      PROVE  Before(Decoded(more[j]), Decoded(more[k]))
  <2>1. j \in 1..n
    BY <1>1, <1>2, <1>6
  <2>2. CASE k = n + 1
    <3>1. Before(Decoded(rows[j]), x)
      BY <1>2, <1>4, <2>1 DEF QueueOK
    <3> QED BY <1>1, <1>2, <2>1, <2>2, <3>1 DEF x
  <2>3. CASE k \in 1..n
    BY <1>1, <1>2, <1>6, <2>1, <2>3 DEF QueueOK
  <2> QED BY <1>3, <2>2, <2>3
<1>7. ASSUME NEW k \in 1..Len(more), NEW y \in rest PROVE Before(Decoded(more[k]), y)
  <2>1. CASE k = n + 1
    BY <1>1, <1>2, <1>4, <2>1 DEF x
  <2>2. CASE k \in 1..n
    BY <1>1, <1>2, <2>2 DEF QueueOK, Without
  <2> QED BY <1>3, <2>1, <2>2
<1>8. Rows(more) = Rows(rows) \cup {x}
  <2>1. \A k \in 1..n : k \in 1..Len(more) /\ more[k] = rows[k]
    BY <1>1, <1>2
  <2>2. n + 1 \in 1..Len(more) /\ more[n + 1] = row
    BY <1>1, <1>2
  <2> QED BY <1>2, <1>3, <2>1, <2>2 DEF Rows, x
<1>9. all = rest \cup Rows(more)
  BY <1>4, <1>8 DEF QueueOK, Without, x
<1> QED BY <1>5, <1>6, <1>7, <1>9 DEF QueueOK

\* Handing over the first row.
LEMMA QueueHead ==
    ASSUME NEW db, NEW rows \in Seq(Row), NEW left, NEW all, QueueOK(db, rows, left, all),
           rows # <<>>, \A y \in all : y.id \in Nat /\ y.tick \in Nat,
           NEW x, x = Decoded(Head(rows)), NEW rest, rest = Tail(rows)
    PROVE  /\ Head(rows) \in Row /\ Honest(db, Head(rows)) /\ IsNext(x, all)
           /\ QueueOK(db, rest, left, all \ {x})
<1>1. /\ Len(rows) \in Nat /\ Len(rows) >= 1 /\ Head(rows) = rows[1] /\ Head(rows) \in Row
      /\ Len(rest) = Len(rows) - 1 /\ \A k \in 1..Len(rest) : rest[k] = rows[k + 1]
  BY HeadTailProperties, EmptySeq, LenProperties
<1>2. PICK n \in Nat : n = Len(rest) /\ Len(rows) = n + 1
  <2>1. PICK m \in Nat : m = Len(rows) /\ m >= 1
    BY <1>1
  <2>2. PICK k \in Nat : k = m - 1 /\ m = k + 1
    BY <2>1
  <2>3. Len(rest) = k
    BY <1>1, <2>1, <2>2
  <2> QED BY <2>1, <2>2, <2>3
<1>3. \A k \in 1..Len(rows) : k = 1 \/ (k > 1 /\ k - 1 \in 1..n /\ rest[k - 1] = rows[k])
  <2> TAKE k \in 1..Len(rows)
  <2>1. k = 1 \/ (k - 1 \in 1..n /\ (k - 1) + 1 = k /\ k > 1)
    BY <1>2
  <2> QED BY <1>1, <1>2, <2>1
<1>4. 1 \in 1..Len(rows) /\ x = Decoded(rows[1])
  BY <1>1
<1>5. \A k \in 1..n : k + 1 \in 1..Len(rows) /\ rest[k] = rows[k + 1]
  BY <1>1, <1>2
<1>6. /\ \A k \in 1..Len(rest) : Honest(db, rest[k])
      /\ \A j, k \in 1..Len(rest) : j < k => Before(Decoded(rest[j]), Decoded(rest[k]))
      /\ \A k \in 1..Len(rest), y \in left : Before(Decoded(rest[k]), y)
  BY <1>2, <1>5 DEF QueueOK
<1>7. \A k \in 1..Len(rows) : k = 1 \/ Before(x, Decoded(rows[k]))
  BY <1>3, <1>4 DEF QueueOK
<1>8. \A y \in left : Before(x, y)
  BY <1>4 DEF QueueOK
<1>9. Rows(rows) = Rows(rest) \cup {x}
  <2>1. ASSUME NEW y \in Rows(rows) PROVE y = x \/ y \in Rows(rest)
    <3>1. PICK k \in 1..Len(rows) : y = Decoded(rows[k])
      BY DEF Rows
    <3> QED BY <1>2, <1>3, <1>4, <3>1 DEF Rows
  <2>2. ASSUME NEW y \in Rows(rest) PROVE y \in Rows(rows)
    BY <1>2, <1>5 DEF Rows
  <2>3. x \in Rows(rows)
    BY <1>4 DEF Rows
  <2> QED BY <2>1, <2>2, <2>3
<1>10. \A y \in Rows(rest) : Before(x, y)
  <2> TAKE y \in Rows(rest)
  <2>1. PICK k \in 1..n : y = Decoded(rest[k])
    BY <1>2 DEF Rows
  <2>2. k + 1 \in 1..Len(rows) /\ k + 1 # 1 /\ y = Decoded(rows[k + 1])
    BY <1>5, <2>1
  <2> QED BY <1>7, <2>2
<1>11. x \in all /\ x.id \in Nat /\ x.tick \in Nat
  BY <1>9 DEF QueueOK
<1>12. ~Before(x, x)
  BY <1>11 DEF Before
<1>13. all \ {x} = left \cup Rows(rest)
  BY <1>8, <1>9, <1>10, <1>12 DEF QueueOK
<1>14. IsNext(x, all)
  BY <1>8, <1>9, <1>10, <1>11 DEF QueueOK, IsNext
<1>15. Honest(db, Head(rows))
  BY <1>1, <1>4 DEF QueueOK
<1>16. QueueOK(db, rest, left, all \ {x})
  BY <1>6, <1>13 DEF QueueOK
<1> QED BY <1>1, <1>14, <1>15, <1>16

\* A batch in the making of the stream s.
BatchExact(db, s, g, fails) ==
    /\ SameRead(s, g.stream) /\ StreamExact(db, g.stream)
    /\ QueueOK(db, g.rows, Left(db, g.stream), Left(db, s))
    /\ g.status = "end" /\ g.rows = <<>> => Left(db, g.stream) = {}
    /\ g.status = "threw" => fails

\* Streams of the same read as a third.
LEMMA SameReadTwice ==
    ASSUME NEW s, NEW t, NEW u, SameRead(s, t), SameRead(t, u) PROVE SameRead(s, u)
BY DEF SameRead

\* Stream::next takes the first record that is left, or finds that there is none.
LEMMA TakeNextExact ==
    ASSUME NEW db \in Databases, NEW held, NEW fails, NEW g \in Collecting(db, held), NEW s,
           BatchExact(db, s, g, fails), g.status = "more",
           NEW n, n = TakeNext(db, g, fails)
    PROVE  BatchExact(db, s, n, fails) /\ (n.status = "more" => n.rows # <<>>)
<1> DEFINE v == g.stream
           needs == Wants(v) /\ ~g.holds
           u == IF needs THEN Activated(db, v) ELSE v
           t == Refilled(db, u)
           id == Earliest(t)
           row == t.histories[id].head
<1>1. /\ g \in [stream : Stream, holds : BOOLEAN, rows : Seq(Row), status : {"more", "end", "threw"}]
      /\ StreamOK(db, v) /\ (g.holds <=> v.session) /\ g.rows \in Seq(Row)
  BY DEF Collecting
<1>2. /\ SameRead(s, v) /\ StreamExact(db, v) /\ QueueOK(db, g.rows, Left(db, v), Left(db, s))
  BY DEF BatchExact
<1>3. PICK h \in BOOLEAN : h = (g.holds \/ needs)
  OBVIOUS
<1>4. n = IF needs /\ fails THEN [g EXCEPT !.stream = Suspended(v), !.status = "threw"]
          ELSE IF \A i \in t.ids : ~t.histories[i].ready
          THEN [g EXCEPT !.stream = t, !.holds = h, !.status = "end"]
          ELSE [stream |-> Popped(t, id), holds |-> h, rows |-> Append(g.rows, row),
                status |-> IF row.failed THEN "end" ELSE "more"]
  BY <1>3, Zenon DEF TakeNext
<1>5. CASE needs /\ fails
  <2>1. PICK z : z = Suspended(v)
    OBVIOUS
  <2>2. StreamExact(db, z) /\ Left(db, z) = Left(db, v) /\ SameRead(v, z)
    BY <1>1, <1>2, <2>1, SuspendedExact
  <2>3. n = [g EXCEPT !.stream = z, !.status = "threw"]
    BY <1>4, <1>5, <2>1
  <2>4. n.stream = z /\ n.rows = g.rows /\ n.status = "threw"
    BY <1>1, <2>3
  <2>5. SameRead(s, z)
    BY <1>2, <2>2, SameReadTwice
  <2> QED BY <1>2, <1>5, <2>2, <2>4, <2>5 DEF BatchExact
<1>6. /\ StreamOK(db, u) /\ (u.session \/ ~Wants(u)) /\ StreamExact(db, u)
      /\ Left(db, u) = Left(db, v) /\ SameRead(v, u)
  <2>1. CASE needs
    <3>1. PICK z : z = Activated(db, v)
      OBVIOUS
    <3>2. StreamOK(db, z) /\ z.session
      BY <1>1, <2>1, <3>1, ActivatedOK
    <3>3. StreamExact(db, z) /\ Left(db, z) = Left(db, v) /\ SameRead(v, z)
      BY <1>1, <1>2, <3>1, ActivatedExact
    <3>4. u = z
      BY <2>1, <3>1
    <3> HIDE DEF u
    <3> QED BY <3>2, <3>3, <3>4
  <2>2. CASE ~needs
    <3>1. SameRead(v, v)
      BY DEF SameRead
    <3>2. u = v /\ (v.session \/ ~Wants(v))
      BY <1>1, <2>2
    <3> HIDE DEF u
    <3> QED BY <1>1, <1>2, <3>1, <3>2
  <2> QED BY <2>1, <2>2
<1> HIDE DEF u
<1>7. /\ StreamOK(db, t) /\ StreamExact(db, t) /\ Left(db, t) = Left(db, u) /\ SameRead(u, t)
      /\ t.started /\ \A i \in u.ids : t.histories[i].ready \/ t.histories[i].done
  BY <1>6, RefilledOK, RefilledExact
<1> HIDE DEF t
<1>8. SameRead(s, t) /\ t.ids = u.ids /\ Left(db, t) = Left(db, v)
  <2>1. SameRead(s, u)
    BY <1>2, <1>6, SameReadTwice
  <2>2. SameRead(s, t)
    BY <1>7, <2>1, SameReadTwice
  <2> QED BY <1>6, <1>7, <2>2 DEF SameRead
<1>9. CASE ~(needs /\ fails) /\ \A i \in t.ids : ~t.histories[i].ready
  <2>1. n = [g EXCEPT !.stream = t, !.holds = h, !.status = "end"]
    BY <1>4, <1>9
  <2>2. n.stream = t /\ n.rows = g.rows /\ n.status = "end"
    BY <1>1, <2>1
  <2>3. Left(db, t) = {}
    <3> SUFFICES ASSUME NEW i \in t.ids PROVE LeftIn(db, t, i) = {}
      BY DEF Left
    <3>1. ~t.histories[i].ready /\ t.histories[i].done
      BY <1>7, <1>8, <1>9
    <3>2. HistoryExact(db, i, Low(t), t.end, t.session, t.histories[i])
      BY <1>7 DEF StreamExact
    <3> QED BY <3>1, <3>2 DEF HistoryExact, LeftIn, Pending, Cut
  <2> QED BY <1>2, <1>7, <1>8, <2>2, <2>3 DEF BatchExact
<1>10. CASE ~(needs /\ fails) /\ ~(\A i \in t.ids : ~t.histories[i].ready)
  <2>1. PICK some \in t.ids : t.histories[some].ready
    BY <1>10
  <2>2. PICK z : z = Popped(t, id)
    OBVIOUS
  <2>3. /\ StreamExact(db, z) /\ SameRead(t, z)
        /\ row \in Row /\ Honest(db, row) /\ IsNext(Decoded(row), Left(db, t))
        /\ Left(db, z) = Left(db, t) \ {Decoded(row)}
    <3>1. PICK i : i = id
      OBVIOUS
    <3>2. PICK w : w = row
      OBVIOUS
    <3>3. \A j \in t.ids : t.histories[j].ready \/ t.histories[j].done
      BY <1>7, <1>8
    <3>4. i = Earliest(t) /\ w = t.histories[i].head /\ z = Popped(t, i)
      BY <2>2, <3>1, <3>2
    <3>5. /\ StreamExact(db, z) /\ SameRead(t, z)
          /\ w \in Row /\ Honest(db, w) /\ IsNext(Decoded(w), Left(db, t))
          /\ Left(db, z) = Left(db, t) \ {Decoded(w)}
      BY <1>7, <2>1, <3>3, <3>4, PoppedExact
    <3> QED BY <3>2, <3>5
  <2>4. PICK more : more = Append(g.rows, row)
    OBVIOUS
  <2>5. n.stream = z /\ n.rows = more /\ n.status \in {"more", "end"}
    BY <1>4, <1>10, <2>2, <2>4
  <2> HIDE DEF row, id
  <2>6. QueueOK(db, more, Left(db, z), Left(db, s))
    <3>1. QueueOK(db, g.rows, Left(db, t), Left(db, s))
      BY <1>2, <1>8
    <3>2. Without(Left(db, t), Decoded(row), Left(db, z))
      BY <2>3 DEF Without
    <3> QED BY <1>1, <2>3, <2>4, <3>1, <3>2, QueueAppend
  <2>9. more # <<>>
    <3>1. Append(g.rows, row) # <<>>
      BY <1>1, <2>3, AppendProperties
    <3> QED BY <2>4, <3>1
  <2>7. SameRead(s, z)
    BY <1>8, <2>3, SameReadTwice
  <2> QED BY <2>3, <2>5, <2>6, <2>7, <2>9 DEF BatchExact
<1> QED BY <1>5, <1>9, <1>10

\* A batch of ondas_shm_next: its rows precede the rest, nothing is lost on the way, and
\* it is empty only at the end.
LEMMA CollectedExact ==
    ASSUME NEW db \in Databases, NEW s, StreamOK(db, s), StreamExact(db, s),
           NEW holds \in BOOLEAN, holds <=> s.session, NEW limit \in Nat \ {0}, NEW fails,
           NEW g, g = Collected(db, s, holds, limit, fails)
    PROVE  /\ g \in Collecting(db, holds) /\ BatchExact(db, s, g, fails)
           /\ g.status = "more" => g.rows # <<>>
<1> DEFINE run == BatchRun(db, s, holds, limit, fails)
           U == {x \in Collecting(db, holds) : BatchExact(db, s, x, fails)}
<1>1. /\ g = run[limit] /\ run[0] = BatchStart(s, holds)
      /\ \A k \in 1..limit : run[k] = BatchTurn(db, run[k - 1], fails)
      /\ \A k \in 0..limit : run[k] \in Collecting(db, holds)
  BY BatchSteps
<1> HIDE DEF run
<1>2. run[0] \in U
  <2>1. PICK t : t = [s EXCEPT !.first = FALSE]
    OBVIOUS
  <2>2. StreamExact(db, t) /\ SameRead(s, t) /\ Left(db, t) = Left(db, s)
    BY <2>1, FirstExact
  <2>3. run[0].stream = t /\ run[0].rows = <<>> /\ run[0].status = "more"
    BY <1>1, <2>1 DEF BatchStart
  <2>4. QueueOK(db, <<>>, Left(db, t), Left(db, s))
    BY <2>2, QueueEmpty
  <2>5. BatchExact(db, s, run[0], fails)
    BY <2>2, <2>3, <2>4 DEF BatchExact
  <2>6. 0 \in 0..limit
    OBVIOUS
  <2> QED BY <1>1, <2>5, <2>6
<1>3. ASSUME NEW k \in 1..limit, run[k - 1] \in U
      PROVE  run[k] \in U /\ (run[k].status = "more" => run[k].rows # <<>>)
  <2>1. k \in 0..limit /\ run[k] \in Collecting(db, holds)
    BY <1>1
  <2>2. PICK a \in Collecting(db, holds) : a = run[k - 1] /\ BatchExact(db, s, a, fails)
    BY <1>3
  <2>3. run[k] = IF a.status = "more" THEN TakeNext(db, a, fails) ELSE a
    BY <1>1, <2>2 DEF BatchTurn
  <2>4. CASE a.status = "more"
    <3>1. PICK b : b = TakeNext(db, a, fails)
      OBVIOUS
    <3>2. BatchExact(db, s, b, fails) /\ (b.status = "more" => b.rows # <<>>)
      BY <2>2, <2>4, <3>1, TakeNextExact
    <3>3. run[k] = b
      BY <2>3, <2>4, <3>1
    <3> QED BY <2>1, <3>2, <3>3
  <2>5. CASE a.status # "more"
    BY <2>1, <2>2, <2>3, <2>5
  <2> QED BY <2>4, <2>5
<1>4. \A k \in 1..limit : run[k - 1] \in U => run[k] \in U
  BY <1>3
<1>5. \A k \in 0..limit : run[k] \in U
  <2> HIDE DEF U
  <2> QED BY <1>2, <1>4, StaysIn
<1>6. limit \in 1..limit /\ limit - 1 \in 0..limit
  OBVIOUS
<1>7. run[limit] \in U /\ (run[limit].status = "more" => run[limit].rows # <<>>)
  <2> HIDE DEF U
  <2>1. run[limit - 1] \in U
    BY <1>5, <1>6
  <2> QED BY <1>3, <1>6, <2>1
<1> QED BY <1>1, <1>7

-----------------------------------------------------------------------------
(* Records in order. *)

\* Records with identities and ticks, and at most one for each of both.
Ordered(S) ==
    /\ \A x \in S : x.id \in Nat /\ x.tick \in Nat
    /\ \A x, y \in S : x.id = y.id /\ x.tick = y.tick => x = y

\* The records that precede x, and all of them in order.
Earlier(S, x) == {y \in S : Before(y, x)}
InOrder(S) == [i \in 1..Cardinality(S) |-> CHOOSE x \in S : Cardinality(Earlier(S, x)) = i - 1]

\* The order of records is total and strict ...
LEMMA BeforeTotal ==
    ASSUME NEW S, Ordered(S), NEW x \in S, NEW y \in S
    PROVE  /\ ~Before(x, x) /\ (x = y \/ Before(x, y) \/ Before(y, x))
           /\ Before(x, y) => ~Before(y, x) /\ x # y /\ x.tick <= y.tick
BY DEF Ordered, Before

\* ... and transitive.
LEMMA BeforeTransitive ==
    ASSUME NEW S, Ordered(S), NEW x \in S, NEW y \in S, NEW z \in S, Before(x, y), Before(y, z)
    PROVE  Before(x, z)
BY DEF Ordered, Before

\* The place of a record is the number of those that precede it.
LEMMA Ranked ==
    ASSUME NEW S, Ordered(S), IsFiniteSet(S), NEW x \in S,
           NEW n, n = Cardinality(Earlier(S, x))
    PROVE  n \in Nat /\ n + 1 \in 1..Cardinality(S) /\ InOrder(S)[n + 1] = x
<1>1. ASSUME NEW z \in S
      PROVE  /\ IsFiniteSet(Earlier(S, z)) /\ Cardinality(Earlier(S, z)) \in Nat
             /\ Cardinality(Earlier(S, z)) + 1 <= Cardinality(S)
  <2>1. IsFiniteSet(S \ {z}) /\ Cardinality(S \ {z}) = Cardinality(S) - 1
    BY FS_RemoveElement
  <2>2. Earlier(S, z) \in SUBSET (S \ {z})
    BY BeforeTotal DEF Earlier
  <2>3. IsFiniteSet(Earlier(S, z)) /\ Cardinality(Earlier(S, z)) <= Cardinality(S \ {z})
    BY <2>1, <2>2, FS_Subset
  <2>4. Cardinality(Earlier(S, z)) \in Nat /\ Cardinality(S) \in Nat
    BY <2>3, FS_CardinalityType
  <2> QED BY <2>1, <2>3, <2>4
<1>2. n \in Nat /\ n + 1 \in 1..Cardinality(S)
  <2>1. Cardinality(S) \in Nat
    BY FS_CardinalityType
  <2> QED BY <1>1, <2>1
<1>3. ASSUME NEW y \in S, NEW z \in S, Before(y, z)
      PROVE  Cardinality(Earlier(S, y)) # Cardinality(Earlier(S, z))
  <2>1. Earlier(S, y) \in SUBSET Earlier(S, z)
    BY <1>3, BeforeTransitive DEF Earlier
  <2>2. y \in Earlier(S, z) /\ y \notin Earlier(S, y)
    BY <1>3, BeforeTotal DEF Earlier
  <2>3. Earlier(S, y) # Earlier(S, z)
    BY <2>2
  <2> QED BY <1>1, <2>1, <2>3, FS_Subset
<1>4. ASSUME NEW z \in S, Cardinality(Earlier(S, z)) = n PROVE z = x
  <2>1. ~Before(z, x) /\ ~Before(x, z)
    BY <1>3, <1>4
  <2> QED BY <2>1, BeforeTotal
<1>5. InOrder(S)[n + 1] = CHOOSE z \in S : Cardinality(Earlier(S, z)) = (n + 1) - 1
  BY <1>2 DEF InOrder
<1>6. (n + 1) - 1 = n
  BY <1>2
<1> QED BY <1>2, <1>4, <1>5, <1>6

\* InOrder is a sequence of the records.
LEMMA InOrderSeq ==
    ASSUME NEW S, IsFiniteSet(S)
    PROVE  /\ Len(InOrder(S)) = Cardinality(S) /\ Cardinality(S) \in Nat
           /\ \E T : InOrder(S) \in Seq(T)
<1>1. Cardinality(S) \in Nat
  BY FS_CardinalityType
<1>2. PICK n \in Nat : n = Cardinality(S)
  BY <1>1
<1> DEFINE v(i) == CHOOSE x \in S : Cardinality(Earlier(S, x)) = i - 1
           T == {v(i) : i \in 1..n}
<1>3. InOrder(S) = [i \in 1..n |-> v(i)]
  BY <1>2 DEF InOrder
<1> HIDE DEF v
<1>4. [i \in 1..n |-> v(i)] \in [1..n -> T]
  OBVIOUS
<1>5. [i \in 1..n |-> v(i)] \in Seq(T)
  <2> HIDE DEF T
  <2> QED BY <1>4
<1>6. Len([i \in 1..n |-> v(i)]) = n
  OBVIOUS
<1> QED BY <1>1, <1>2, <1>3, <1>5, <1>6

\* The next record of a sequence.
LEMMA Continue ==
    ASSUME NEW T, NEW s \in Seq(T), NEW n \in Nat, n + 1 \in 1..Len(s)
    PROVE  Append(SubSeq(s, 1, n), s[n + 1]) = SubSeq(s, 1, n + 1)
<1>1. Len(s) \in Nat
  BY LenProperties
<1>2. \A i \in 1..(n + 1) : s[i] \in T
  BY <1>1, ElementOfSeq
<1>3. SubSeq(s, 1, n) \in Seq(T) /\ Len(SubSeq(s, 1, n)) = n /\ \A i \in 1..n : SubSeq(s, 1, n)[i] = s[i]
  <2>1. /\ SubSeq(s, 1, n) \in Seq(T)
        /\ Len(SubSeq(s, 1, n)) = IF 1 <= n THEN n - 1 + 1 ELSE 0
        /\ \A i \in 1..(n - 1 + 1) : SubSeq(s, 1, n)[i] = s[1 + i - 1]
    <3>1. \A i \in 1..n : s[i] \in T
      BY <1>2
    <3> QED BY <3>1, SubSeqProperties
  <2> QED BY <2>1
<1>4. /\ SubSeq(s, 1, n + 1) \in Seq(T) /\ Len(SubSeq(s, 1, n + 1)) = n + 1
      /\ \A i \in 1..(n + 1) : SubSeq(s, 1, n + 1)[i] = s[i]
  <2>1. /\ SubSeq(s, 1, n + 1) \in Seq(T)
        /\ Len(SubSeq(s, 1, n + 1)) = IF 1 <= n + 1 THEN (n + 1) - 1 + 1 ELSE 0
        /\ \A i \in 1..((n + 1) - 1 + 1) : SubSeq(s, 1, n + 1)[i] = s[1 + i - 1]
    <3>1. n + 1 \in Int
      OBVIOUS
    <3> QED BY <1>2, <3>1, SubSeqProperties
  <2> QED BY <2>1
<1> DEFINE a == SubSeq(s, 1, n)
           b == SubSeq(s, 1, n + 1)
           e == s[n + 1]
<1>5. e \in T
  BY <1>2
<1> HIDE DEF a, b, e
<1>6. /\ Append(a, e) \in Seq(T) /\ Len(Append(a, e)) = n + 1 /\ Append(a, e)[n + 1] = e
      /\ \A i \in 1..n : Append(a, e)[i] = a[i]
  BY <1>3, <1>5, AppendProperties DEF a
<1>7. \A i \in 1..(n + 1) : Append(a, e)[i] = b[i]
  <2> TAKE i \in 1..(n + 1)
  <2>1. CASE i = n + 1
    BY <1>4, <1>6, <2>1 DEF b, e
  <2>2. CASE i # n + 1
    <3>1. i \in 1..n
      BY <2>2
    <3> QED BY <1>3, <1>4, <1>6, <3>1 DEF a, b
  <2> QED BY <2>1, <2>2
<1>8. Append(a, e) = b
  <2>1. b \in Seq(T) /\ Len(b) = n + 1
    BY <1>4 DEF b
  <2> QED BY <1>6, <1>7, <2>1, SeqEqual
<1> QED BY <1>8 DEF a, b, e

-----------------------------------------------------------------------------
(* What a read promises. *)

\* The net records of a read are finite, and there is one at most for an identity and
\* a tick.
LEMMA NetShapes ==
    ASSUME NEW db, NEW ids, ids \subseteq Ids, NEW from \in Nat, NEW end \in Nat
    PROVE  /\ Ordered(Net(db, ids, from, end)) /\ IsFiniteSet(Net(db, ids, from, end))
           /\ \A x \in Net(db, ids, from, end) :
                /\ x.id \in ids /\ x.tick \in from..end /\ x.failed \in BOOLEAN
                /\ x \in NetRecord(db, x.id, x.tick)
<1> DEFINE N == Net(db, ids, from, end)
<1>1. ASSUME NEW x \in N
      PROVE  /\ x.id \in ids /\ x.tick \in from..end /\ x.failed \in BOOLEAN
             /\ NetRecord(db, x.id, x.tick) = {x}
  <2>1. PICK id \in ids, t \in from..end : x \in NetRecord(db, id, t)
    BY DEF Net
  <2> QED BY <2>1, NetShape
<1> HIDE DEF N
<1>2. \A x \in N : x.id \in Nat /\ x.tick \in Nat
  <2>1. (\A t \in from..end : t \in Nat) /\ ids \subseteq Nat
    BY HistoryAssumption
  <2> QED BY <1>1, <2>1
<1>3. \A x, y \in N : x.id = y.id /\ x.tick = y.tick => x = y
  <2> TAKE x \in N, y \in N
  <2> HAVE x.id = y.id /\ x.tick = y.tick
  <2>1. {x} = {y}
    BY <1>1
  <2> QED BY <2>1
<1>4. IsFiniteSet(N)
  <2> DEFINE P == ids \X (from..end)
             f == [x \in N |-> <<x.id, x.tick>>]
  <2>1. IsFiniteSet(ids)
    <3>1. IsFiniteSet(Ids) /\ ids \in SUBSET Ids
      BY HistoryAssumption
    <3> QED BY <3>1, FS_Subset
  <2>2. IsFiniteSet(from..end)
    BY FS_Interval
  <2>3. IsFiniteSet(P)
    BY <2>1, <2>2, FS_Product
  <2>4. f \in [N -> P]
    BY <1>1
  <2>5. IsInjective(f)
    BY <1>3 DEF IsInjective
  <2>6. f \in Injection(N, P)
    BY <2>4, <2>5 DEF Injection
  <2> HIDE DEF f, P
  <2> QED BY <2>3, <2>6, FS_Injection
<1> QED BY <1>1, <1>2, <1>3, <1>4 DEF Ordered, N

\* The records of a read, and those that are shown to its visitor.
ReadAll(db, c) == Net(db, c.ids, Low(c), c.end)
Due(db, c) ==
    {x \in Net(db, c.ids, 0, c.end) :
        /\ x.tick >= c.from
        /\ \A y \in Net(db, c.ids, 0, c.end) : y.failed => x = y \/ Before(x, y)}

\* The promise is what is due, in order.
LEMMA PromisedIs == ASSUME NEW db, NEW c PROVE Promised(db, c) = InOrder(Due(db, c))
<1> DEFINE all == Net(db, c.ids, 0, c.end)
           failures == {x \in all : x.failed}
           due == {x \in all : \A f \in failures : x = f \/ Before(x, f)}
           shown == {x \in due : x.tick >= c.from}
<1>1. shown = Due(db, c)
  BY DEF Due
<1>2. Promised(db, c) = InOrder(shown)
  BY DEF Promised, InOrder, Earlier
<1> HIDE DEF shown
<1> QED BY <1>1, <1>2

\* The arguments of a read that may be asked for.
CallOK(db, c) == db \in Databases /\ c \in CallArguments /\ Eligible(db, c)

\* The arguments of a read and its records: a failure is never in a prefix that is not
\* read.
LEMMA CallFacts ==
    ASSUME NEW db, NEW c, CallOK(db, c), NEW all, all = ReadAll(db, c),
           NEW net, net = Net(db, c.ids, 0, c.end)
    PROVE  /\ c.ids \subseteq Ids /\ c.from \in Nat /\ c.end \in Nat /\ c.resume \in BOOLEAN
           /\ Low(c) \in Nat /\ Low(c) <= c.from
           /\ Ordered(net) /\ IsFiniteSet(net) /\ all \subseteq net
           /\ \A x \in net : x.tick \in 0..c.end /\ x.id \in c.ids /\ x.failed \in BOOLEAN
           /\ \A x \in all : x.tick \in Low(c)..c.end
           /\ \A x \in net : x.tick >= Low(c) \/ x.failed => x \in all
<1>1. /\ c.ids \subseteq Ids /\ c.from \in Nat /\ c.end \in Nat /\ c.resume \in BOOLEAN
  BY DEF CallOK, CallArguments
<1>2. Low(c) \in Nat /\ Low(c) <= c.from
  BY <1>1 DEF Low
<1>3. /\ Ordered(net) /\ IsFiniteSet(net)
      /\ \A x \in net : /\ x.tick \in 0..c.end /\ x.id \in c.ids /\ x.failed \in BOOLEAN
                        /\ x \in NetRecord(db, x.id, x.tick)
  BY <1>1, NetShapes
<1>4. \A x \in all : x.tick \in Low(c)..c.end /\ x.id \in c.ids /\ x \in NetRecord(db, x.id, x.tick)
  BY <1>1, <1>2, NetShapes DEF ReadAll
<1>5. all \subseteq net
  <2> SUFFICES ASSUME NEW x \in all PROVE x \in net
    OBVIOUS
  <2>1. x.tick \in 0..c.end
    BY <1>1, <1>2, <1>4
  <2> QED BY <1>4, <2>1 DEF Net
<1>6. ASSUME NEW x \in net, x.tick >= Low(c) PROVE x \in all
  <2>1. x.tick \in Low(c)..c.end /\ x.id \in c.ids /\ x \in NetRecord(db, x.id, x.tick)
    BY <1>1, <1>2, <1>3, <1>6
  <2> QED BY <2>1 DEF ReadAll, Net
<1>7. ASSUME NEW x \in net, x.failed PROVE x.tick >= Low(c)
  <2> SUFFICES ASSUME ~(x.tick >= Low(c)) PROVE FALSE
    OBVIOUS
  <2>1. x.tick \in 0..c.end /\ x.id \in c.ids /\ x \in NetRecord(db, x.id, x.tick)
    BY <1>3
  <2>2. c.resume /\ Low(c) = c.from
    BY <1>1, <2>1 DEF Low
  <2>3. x.tick \in 0..(c.from - 1)
    BY <1>1, <2>1, <2>2
  <2>4. x \in Net(db, c.ids, 0, c.from - 1)
    BY <2>1, <2>3 DEF Net
  <2> QED BY <1>7, <2>2, <2>4 DEF CallOK, Eligible
<1> QED BY <1>1, <1>2, <1>3, <1>4, <1>5, <1>6, <1>7

\* A read in the middle of things: what has been taken precedes what is left, and what
\* has been shown is the beginning of what was promised.
Shown(db, c, todo) == {x \in ReadAll(db, c) \ todo : x.tick >= c.from}
ToShow(db, c, p, todo, it) == IF p = "visit" THEN Shown(db, c, todo) \ {it} ELSE Shown(db, c, todo)

MidRead(db, c, p, todo, prev, it, del) ==
    /\ todo \subseteq ReadAll(db, c)
    /\ \A x \in ReadAll(db, c) \ todo, y \in todo : Before(x, y)
    /\ prev \in Nat /\ \A y \in todo : y.tick >= prev
    /\ \A x \in ReadAll(db, c) \ todo : x.failed => p = "visit" /\ x = it
    /\ p = "visit" => /\ it \in ReadAll(db, c) \ todo /\ it.tick >= c.from
                      /\ \A x \in ReadAll(db, c) \ todo : x = it \/ Before(x, it)
    /\ del = SubSeq(Promised(db, c), 1, Cardinality(ToShow(db, c, p, todo, it)))

\* At the start nothing has been taken.
LEMMA MidStart ==
    ASSUME NEW db, NEW c, CallOK(db, c), NEW p, p # "visit", NEW it
    PROVE  MidRead(db, c, p, ReadAll(db, c), 0, it, <<>>)
<1>1. PICK all : all = ReadAll(db, c)
  OBVIOUS
<1>2. \A x \in all : x.tick \in Nat
  <2>1. Low(c) \in Nat /\ c.end \in Nat /\ \A x \in all : x.tick \in Low(c)..c.end
    BY <1>1, CallFacts
  <2> QED BY <2>1
<1>3. Shown(db, c, all) = {}
  BY <1>1 DEF Shown
<1>4. Cardinality(ToShow(db, c, p, all, it)) = 0
  BY <1>3, FS_EmptySet DEF ToShow
<1>5. SubSeq(Promised(db, c), 1, 0) = <<>>
  BY SubSeqEmpty
<1>6. MidRead(db, c, p, all, 0, it, <<>>)
  BY <1>1, <1>2, <1>4, <1>5 DEF MidRead
<1> QED BY <1>1, <1>6

\* What is shown is due, and until something fails it is what is due first.
LEMMA ShownDue ==
    ASSUME NEW db, NEW c, CallOK(db, c), NEW p, NEW todo, NEW prev, NEW it, NEW del,
           MidRead(db, c, p, todo, prev, it, del)
    PROVE  /\ IsFiniteSet(Due(db, c)) /\ Ordered(Due(db, c))
           /\ Shown(db, c, todo) \subseteq Due(db, c)
           /\ p = "visit" => Earlier(Due(db, c), it) = Shown(db, c, todo) \ {it}
           /\ (\E x \in ReadAll(db, c) \ todo : x.failed) \/ todo = {} =>
                 Due(db, c) = Shown(db, c, todo)
<1>1. PICK all : all = ReadAll(db, c)
  OBVIOUS
<1>2. PICK net : net = Net(db, c.ids, 0, c.end)
  OBVIOUS
<1>3. /\ c.from \in Nat /\ c.end \in Nat /\ Low(c) \in Nat /\ Low(c) <= c.from
      /\ Ordered(net) /\ IsFiniteSet(net) /\ all \subseteq net
      /\ \A x \in net : x.tick \in 0..c.end
      /\ \A x \in net : x.tick >= Low(c) \/ x.failed => x \in all
  BY <1>1, <1>2, CallFacts
<1>4. Due(db, c) = {x \in net : x.tick >= c.from /\ \A y \in net : y.failed => x = y \/ Before(x, y)}
  BY <1>2 DEF Due
<1>5. Shown(db, c, todo) = {x \in all \ todo : x.tick >= c.from}
  BY <1>1 DEF Shown
<1>6. /\ todo \subseteq all
      /\ \A x \in all \ todo, y \in todo : Before(x, y)
      /\ \A x \in all \ todo : x.failed => p = "visit" /\ x = it
      /\ p = "visit" => /\ it \in all \ todo /\ it.tick >= c.from
                        /\ \A x \in all \ todo : x = it \/ Before(x, it)
  BY <1>1 DEF MidRead
<1>7. PICK D : D = Due(db, c)
  OBVIOUS
<1>8. PICK W : W = Shown(db, c, todo)
  OBVIOUS
<1>9. D \in SUBSET net /\ IsFiniteSet(D) /\ Ordered(D)
  <2>1. D \in SUBSET net
    BY <1>4, <1>7
  <2>2. IsFiniteSet(D)
    BY <1>3, <2>1, FS_Subset
  <2> QED BY <1>3, <2>1, <2>2 DEF Ordered
<1>10. ASSUME NEW x \in all \ todo, x.tick >= c.from, NEW y \in net, y.failed
       PROVE  x = y \/ Before(x, y)
  <2>1. y \in all
    BY <1>3, <1>10
  <2>2. CASE y \in todo
    BY <1>6, <1>10, <2>2
  <2>3. CASE y \notin todo
    <3>1. p = "visit" /\ y = it
      BY <1>6, <1>10, <2>1, <2>3
    <3> QED BY <1>6, <1>10, <3>1
  <2> QED BY <2>2, <2>3
<1>11. W \subseteq D
  BY <1>3, <1>4, <1>5, <1>7, <1>8, <1>10
<1>12. ASSUME NEW x \in D PROVE x \in all /\ x \in net /\ x.tick >= c.from
  <2>1. x \in net /\ x.tick >= c.from
    BY <1>4, <1>7
  <2>2. x.tick >= Low(c)
    <3>1. x.tick \in 0..c.end
      BY <1>3, <2>1
    <3> QED BY <1>3, <2>1, <3>1
  <2> QED BY <1>3, <2>1, <2>2
<1>13. ASSUME p = "visit" PROVE Earlier(D, it) = W \ {it}
  <2>1. it \in net /\ it \in all \ todo
    BY <1>3, <1>6, <1>13
  <2>2. ASSUME NEW x \in D, Before(x, it) PROVE x \in W \ {it}
    <3>1. x \in net /\ x \in all /\ x.tick >= c.from
      BY <1>12
    <3>2. x # it /\ ~Before(it, x)
      BY <1>3, <2>1, <2>2, <3>1, BeforeTotal
    <3>3. x \notin todo
      BY <1>6, <2>1, <3>2
    <3> QED BY <1>5, <1>8, <3>1, <3>2, <3>3
  <2>3. ASSUME NEW x \in W \ {it} PROVE x \in D /\ Before(x, it)
    <3>1. x \in all \ todo
      BY <1>5, <1>8
    <3> QED BY <1>6, <1>11, <1>13, <3>1
  <2> QED BY <2>2, <2>3 DEF Earlier
<1>14. ASSUME NEW x \in all \ todo, x.failed PROVE D \subseteq W
  <2> SUFFICES ASSUME NEW y \in D PROVE y \in W
    OBVIOUS
  <2>1. y \in net /\ y \in all /\ y.tick >= c.from /\ x \in net
    BY <1>3, <1>12
  <2>2. y = x \/ Before(y, x)
    BY <1>4, <1>7, <1>14, <2>1
  <2>3. ~Before(x, y)
    BY <1>3, <2>1, <2>2, BeforeTotal
  <2>4. y \notin todo
    BY <1>6, <2>3
  <2> QED BY <1>5, <1>8, <2>1, <2>4
<1>15. ASSUME todo = {} PROVE D \subseteq W
  BY <1>5, <1>8, <1>12, <1>15
<1>16. (\E x \in all \ todo : x.failed) \/ todo = {} => D = W
  BY <1>11, <1>14, <1>15
<1> QED BY <1>1, <1>7, <1>8, <1>9, <1>11, <1>13, <1>16

\* Between two records a part of the promise has been delivered.
LEMMA MidLen ==
    ASSUME NEW db, NEW c, CallOK(db, c), NEW p, NEW todo, NEW prev, NEW it, NEW del,
           MidRead(db, c, p, todo, prev, it, del)
    PROVE  /\ Len(Promised(db, c)) \in Nat /\ Len(del) \in 0..Len(Promised(db, c))
           /\ del = SubSeq(Promised(db, c), 1, Len(del))
           /\ Len(del) = Cardinality(ToShow(db, c, p, todo, it))
<1>1. PICK D : D = Due(db, c) /\ IsFiniteSet(D)
  BY ShownDue
<1>2. PICK W : W = ToShow(db, c, p, todo, it)
  OBVIOUS
<1>3. W \in SUBSET D
  BY <1>1, <1>2, ShownDue DEF ToShow
<1>4. IsFiniteSet(W) /\ Cardinality(W) <= Cardinality(D)
  BY <1>1, <1>3, FS_Subset
<1>5. Cardinality(W) \in Nat /\ Cardinality(D) \in Nat
  BY <1>1, <1>4, FS_CardinalityType
<1>6. PICK s, T : s = Promised(db, c) /\ s \in Seq(T) /\ Len(s) = Cardinality(D)
  BY <1>1, PromisedIs, InOrderSeq
<1>7. PICK n \in Nat : n = Cardinality(W) /\ n <= Len(s)
  BY <1>4, <1>5, <1>6
<1>8. Len(SubSeq(s, 1, n)) = n
  <2>1. \A i \in 1..n : s[i] \in T
    BY <1>6, <1>7, ElementOfSeq, LenProperties
  <2>2. Len(SubSeq(s, 1, n)) = IF 1 <= n THEN n - 1 + 1 ELSE 0
    BY <2>1, SubSeqProperties
  <2> QED BY <2>2
<1>9. del = SubSeq(s, 1, n)
  BY <1>2, <1>6, <1>7 DEF MidRead
<1> QED BY <1>2, <1>5, <1>6, <1>7, <1>8, <1>9

\* The visitor is shown the next record of the promise.
NextShown(db, c, todo, prev, it, del, new) ==
    /\ Len(del) + 1 \in 1..Len(Promised(db, c))
    /\ new = SubSeq(Promised(db, c), 1, Len(del) + 1)
    /\ ~it.failed => \A z : MidRead(db, c, "reading", todo, prev, z, new)
    /\ it.failed => PromisedFails(db, c) /\ new = Promised(db, c)

\* Visiting a record continues the promise by one.
LEMMA MidVisit ==
    ASSUME NEW db, NEW c, CallOK(db, c), NEW todo, NEW prev, NEW it, NEW del,
           MidRead(db, c, "visit", todo, prev, it, del), NEW new, new = Append(del, it)
    PROVE  NextShown(db, c, todo, prev, it, del, new)
<1>1. PICK D : /\ D = Due(db, c) /\ IsFiniteSet(D) /\ Ordered(D)
               /\ Earlier(D, it) = Shown(db, c, todo) \ {it}
               /\ Shown(db, c, todo) \subseteq D
  BY ShownDue
<1>2. it \in ReadAll(db, c) \ todo /\ it.tick >= c.from
  BY DEF MidRead
<1>3. it \in Shown(db, c, todo) /\ it \in D
  BY <1>1, <1>2 DEF Shown
<1>4. PICK n \in Nat : n = Len(del) /\ n = Cardinality(Earlier(D, it)) /\ del = SubSeq(Promised(db, c), 1, n)
  <2>1. Len(del) = Cardinality(Earlier(D, it))
    <3>1. Len(del) = Cardinality(ToShow(db, c, "visit", todo, it))
      BY MidLen
    <3>2. ToShow(db, c, "visit", todo, it) = Shown(db, c, todo) \ {it}
      BY DEF ToShow
    <3> QED BY <1>1, <3>1, <3>2
  <2>2. Len(del) \in Nat
    BY MidLen
  <2> QED BY <2>1, <2>2, MidLen
<1>5. n + 1 \in 1..Cardinality(D) /\ InOrder(D)[n + 1] = it
  BY <1>1, <1>3, <1>4, Ranked
<1>6. PICK s, T : s = Promised(db, c) /\ s \in Seq(T) /\ Len(s) = Cardinality(D) /\ s = InOrder(D)
  BY <1>1, PromisedIs, InOrderSeq
<1>7. n + 1 \in 1..Len(s) /\ s[n + 1] = it
  BY <1>5, <1>6
<1>8. new = SubSeq(s, 1, n + 1)
  BY <1>4, <1>6, <1>7, Continue
<1>9. Cardinality(Shown(db, c, todo)) = n + 1
  <2>1. PICK W : W = Shown(db, c, todo) /\ IsFiniteSet(W)
    <3>1. Shown(db, c, todo) \in SUBSET D
      BY <1>1
    <3> QED BY <1>1, <3>1, FS_Subset
  <2>2. Cardinality(W \ {it}) = Cardinality(W) - 1 /\ Cardinality(W) \in Nat
    BY <1>3, <2>1, FS_RemoveElement, FS_CardinalityType
  <2>3. Cardinality(W \ {it}) = n
    BY <1>1, <1>4, <2>1
  <2> QED BY <2>1, <2>2, <2>3
<1>10. ASSUME ~it.failed, NEW z PROVE MidRead(db, c, "reading", todo, prev, z, new)
  <2>1. /\ todo \subseteq ReadAll(db, c)
        /\ \A x \in ReadAll(db, c) \ todo, y \in todo : Before(x, y)
        /\ prev \in Nat /\ \A y \in todo : y.tick >= prev
        /\ \A x \in ReadAll(db, c) \ todo : ~x.failed
    BY <1>10 DEF MidRead
  <2>2. new = SubSeq(Promised(db, c), 1, Cardinality(ToShow(db, c, "reading", todo, z)))
    BY <1>6, <1>8, <1>9 DEF ToShow
  <2> QED BY <2>1, <2>2 DEF MidRead
<1>11. ASSUME it.failed PROVE PromisedFails(db, c) /\ new = Promised(db, c)
  <2>1. it \in Net(db, c.ids, 0, c.end)
    BY <1>2, CallFacts
  <2>2. PromisedFails(db, c)
    BY <1>11, <2>1 DEF PromisedFails
  <2>3. D = Shown(db, c, todo)
    BY <1>1, <1>2, <1>11, ShownDue
  <2>4. Len(s) = n + 1
    BY <1>6, <1>9, <2>3
  <2>5. new = s
    BY <1>6, <1>8, <2>4, SubSeqFull
  <2> QED BY <1>6, <2>2, <2>5
<1> QED BY <1>4, <1>6, <1>7, <1>8, <1>10, <1>11 DEF NextShown

\* At the end all has been delivered.
LEMMA MidEnd ==
    ASSUME NEW db, NEW c, CallOK(db, c), NEW p, p # "visit", NEW prev, NEW it, NEW del,
           MidRead(db, c, p, {}, prev, it, del)
    PROVE  del = Promised(db, c)
<1>1. PICK D : D = Due(db, c) /\ IsFiniteSet(D) /\ D = Shown(db, c, {})
  BY ShownDue
<1>2. PICK s, T : s = Promised(db, c) /\ s \in Seq(T) /\ Len(s) = Cardinality(D)
  BY <1>1, PromisedIs, InOrderSeq
<1>3. del = SubSeq(s, 1, Len(s))
  <2>1. Len(del) = Len(s)
    <3>1. Len(del) = Cardinality(ToShow(db, c, p, {}, it))
      BY MidLen
    <3>2. ToShow(db, c, p, {}, it) = Shown(db, c, {})
      BY DEF ToShow
    <3> QED BY <1>1, <1>2, <3>1, <3>2
  <2> QED BY <1>2, <2>1, MidLen
<1> QED BY <1>2, <1>3, SubSeqFull

\* The next record is taken.
LEMMA MidTake ==
    ASSUME NEW db, NEW c, CallOK(db, c), NEW todo, NEW prev, NEW it, NEW del,
           MidRead(db, c, "reading", todo, prev, it, del),
           NEW x, IsNext(x, todo), NEW rest, rest = todo \ {x}
    PROVE  /\ x.tick \in Nat /\ x.tick >= prev /\ x.tick <= c.end /\ x.id \in c.ids
           /\ x.tick < c.from /\ ~x.failed => MidRead(db, c, "passed", rest, x.tick, it, del)
           /\ x.tick < c.from /\ x.failed => PromisedFails(db, c) /\ del = Promised(db, c)
           /\ x.tick >= c.from => MidRead(db, c, "visit", rest, x.tick, x, del)
<1>1. PICK all : all = ReadAll(db, c)
  OBVIOUS
<1>2. PICK net : net = Net(db, c.ids, 0, c.end)
  OBVIOUS
<1>3. /\ c.from \in Nat /\ c.end \in Nat
      /\ Ordered(net) /\ all \subseteq net
      /\ \A y \in net : y.tick \in 0..c.end /\ y.id \in c.ids
      /\ \A y \in net : y.failed => y \in all
  BY <1>1, <1>2, CallFacts
<1>4. /\ todo \subseteq all
      /\ \A a \in all \ todo, y \in todo : Before(a, y)
      /\ prev \in Nat /\ \A y \in todo : y.tick >= prev
      /\ \A a \in all \ todo : ~a.failed
      /\ del = SubSeq(Promised(db, c), 1, Cardinality(Shown(db, c, todo)))
  BY <1>1 DEF MidRead, ToShow
<1>5. x \in todo /\ x \in all /\ x \in net /\ \A y \in todo : y = x \/ Before(x, y)
  BY <1>3, <1>4 DEF IsNext
<1>6. x.tick \in Nat /\ x.tick >= prev /\ x.tick <= c.end /\ x.id \in c.ids
  <2>1. x.tick \in 0..c.end /\ x.id \in c.ids
    BY <1>3, <1>5
  <2> QED BY <1>3, <1>4, <1>5, <2>1
<1>7. rest \subseteq all /\ \A a \in all \ rest : a = x \/ a \in all \ todo
  BY <1>4, <1>5
<1>8. \A a \in all \ rest, y \in rest : Before(a, y)
  BY <1>4, <1>5, <1>7
<1>9. \A y \in rest : y.tick >= x.tick
  <2> TAKE y \in rest
  <2>1. Before(x, y) /\ y \in net
    BY <1>3, <1>4, <1>5
  <2>2. x.tick <= y.tick /\ y.tick \in 0..c.end
    BY <1>3, <1>5, <2>1, BeforeTotal
  <2> QED BY <1>3, <1>6, <2>2
<1>10. ASSUME x.tick < c.from, ~x.failed PROVE MidRead(db, c, "passed", rest, x.tick, it, del)
  <2>1. Shown(db, c, rest) = Shown(db, c, todo)
    <3>1. \A a : a \in all \ rest /\ a.tick >= c.from <=> a \in all \ todo /\ a.tick >= c.from
      BY <1>3, <1>6, <1>7, <1>10
    <3> QED BY <1>1, <3>1 DEF Shown
  <2>2. del = SubSeq(Promised(db, c), 1, Cardinality(ToShow(db, c, "passed", rest, it)))
    BY <1>4, <2>1 DEF ToShow
  <2>3. \A a \in all \ rest : ~a.failed
    BY <1>4, <1>7, <1>10
  <2> QED BY <1>1, <1>6, <1>7, <1>8, <1>9, <2>2, <2>3 DEF MidRead
<1>11. ASSUME x.tick < c.from, x.failed PROVE PromisedFails(db, c) /\ del = Promised(db, c)
  <2>1. PromisedFails(db, c)
    BY <1>2, <1>5, <1>11 DEF PromisedFails
  <2>2. Shown(db, c, todo) = {}
    <3> SUFFICES ASSUME NEW a \in all \ todo, a.tick >= c.from PROVE FALSE
      BY <1>1 DEF Shown
    <3>1. Before(a, x) /\ a \in net
      BY <1>3, <1>4, <1>5
    <3>2. a.tick <= x.tick /\ a.tick \in 0..c.end
      BY <1>3, <1>5, <3>1, BeforeTotal
    <3> QED BY <1>3, <1>6, <1>11, <3>2
  <2>3. Due(db, c) = {}
    <3> SUFFICES ASSUME NEW a \in Due(db, c) PROVE FALSE
      OBVIOUS
    <3>1. a \in net /\ a.tick >= c.from /\ (a = x \/ Before(a, x))
      BY <1>2, <1>5, <1>11 DEF Due
    <3>2. a.tick <= x.tick /\ a.tick \in 0..c.end
      <4>1. CASE a = x
        BY <1>3, <1>6, <3>1, <4>1
      <4>2. CASE Before(a, x)
        BY <1>3, <1>5, <3>1, <4>2, BeforeTotal
      <4> QED BY <3>1, <4>1, <4>2
    <3> QED BY <1>3, <1>6, <1>11, <3>1, <3>2
  <2>4. PICK s, T : s = Promised(db, c) /\ s \in Seq(T) /\ Len(s) = 0
    <3>1. IsFiniteSet({}) /\ Cardinality({}) = 0
      BY FS_EmptySet
    <3> QED BY <2>3, <3>1, PromisedIs, InOrderSeq
  <2>5. s = <<>>
    BY <2>4, EmptySeq
  <2>6. del = <<>>
    <3>1. Cardinality(Shown(db, c, todo)) = 0
      BY <2>2, FS_EmptySet
    <3> QED BY <1>4, <3>1, SubSeqEmpty
  <2> QED BY <2>1, <2>4, <2>5, <2>6
<1>12. ASSUME x.tick >= c.from PROVE MidRead(db, c, "visit", rest, x.tick, x, del)
  <2>1. Shown(db, c, rest) \ {x} = Shown(db, c, todo)
    <3>1. \A a : a \in all \ rest /\ a # x <=> a \in all \ todo
      BY <1>5, <1>7
    <3> QED BY <1>1, <3>1 DEF Shown
  <2>2. del = SubSeq(Promised(db, c), 1, Cardinality(ToShow(db, c, "visit", rest, x)))
    BY <1>4, <2>1 DEF ToShow
  <2>3. \A a \in all \ rest : /\ a.failed => a = x
                              /\ a = x \/ Before(a, x)
    BY <1>4, <1>5, <1>7
  <2>4. x \in all \ rest
    BY <1>5
  <2> QED BY <1>1, <1>6, <1>7, <1>8, <1>9, <1>12, <2>2, <2>3, <2>4 DEF MidRead
<1> QED BY <1>6, <1>10, <1>11, <1>12

-----------------------------------------------------------------------------
(* A read and its stream. *)

\* What a read from the tick `from` on has to know when it does not read what precedes it.
KnownPrefix(db, ids, from) ==
    /\ from > 0
    /\ \A id \in ids : Net(db, {id}, 0, from - 1) # {}
    /\ \A id \in ids : \A x \in Net(db, {id}, 0, from - 1) : ~x.failed

\* A new stream is exact when the prefix it does not read is known.
LEMMA NewStreamExact ==
    ASSUME NEW db \in Databases, NEW c \in CallArguments,
           c.resume => KnownPrefix(db, c.ids, c.from),
           NEW s, s = NewStream(c.ids, c.from, c.end, c.resume)
    PROVE  StreamExact(db, s) /\ s.started = FALSE /\ SameRead(c, s)
<1> DEFINE ids == c.ids
           from == c.from
           end == c.end
           resume == c.resume
<1>0. ids \in SUBSET Ids /\ from \in Nat /\ end \in Nat /\ resume \in BOOLEAN
  BY DEF CallArguments
<1>1. PICK f : f = NewHistory(resume)
  OBVIOUS
<1>2. PICK hs : hs = [id \in ids |-> f]
  OBVIOUS
<1>3. /\ s.ids = ids /\ s.from = from /\ s.end = end /\ s.resume = resume /\ s.session = FALSE
      /\ s.started = FALSE /\ s.histories = hs
  BY <1>1, <1>2 DEF NewStream
<1>4. PICK low \in Nat : low = Low(s) /\ (resume => low = from) /\ (~resume => low = 0)
  BY <1>0, <1>3 DEF Low
<1>5. resume <=> low > 0
  BY <1>0, <1>4 DEF KnownPrefix
<1>6. ASSUME NEW id \in ids
      PROVE  HistoryExact(db, id, low, end, FALSE, hs[id]) /\ hs[id] = f
  <2>1. HistoryExact(db, id, low, end, FALSE, NewHistory(resume))
    <3>1. resume => Net(db, {id}, 0, low - 1) # {} /\ \A x \in Net(db, {id}, 0, low - 1) : ~x.failed
      BY <1>4 DEF KnownPrefix
    <3> QED BY <1>0, <1>5, <3>1, NewExact
  <2>2. hs[id] = f
    BY <1>2
  <2> QED BY <1>1, <2>1, <2>2
<1>7. f.through = None /\ f.ready = FALSE
  BY <1>1 DEF NewHistory
<1>8. StreamExact(db, s)
  BY <1>3, <1>4, <1>6, <1>7 DEF StreamExact, KnownPrefix
<1> QED BY <1>3, <1>8 DEF SameRead

\* The arguments of a read give a stream that is exact.
LEMMA CallStream ==
    ASSUME NEW db, NEW c, CallOK(db, c), NEW s, s = NewStream(c.ids, c.from, c.end, c.resume)
    PROVE  StreamExact(db, s) /\ s.started = FALSE /\ SameRead(c, s)
<1>1. db \in Databases /\ c \in CallArguments
  BY DEF CallOK
<1>2. c.resume => /\ c.from > 0
                  /\ \A id \in c.ids : Net(db, {id}, 0, c.from - 1) # {}
                  /\ \A x \in Net(db, c.ids, 0, c.from - 1) : ~x.failed
  BY DEF CallOK, Eligible
<1>3. \A id \in c.ids : Net(db, {id}, 0, c.from - 1) \subseteq Net(db, c.ids, 0, c.from - 1)
  BY DEF Net
<1>4. c.resume => KnownPrefix(db, c.ids, c.from)
  BY <1>2, <1>3 DEF KnownPrefix
<1> QED BY <1>1, <1>4, NewStreamExact

\* A stream that has not been read from has everything left.
LEMMA UnreadLeft ==
    ASSUME NEW db, NEW c, NEW s, StreamOK(db, s), StreamExact(db, s), s.started = FALSE,
           SameRead(c, s)
    PROVE  QueueOK(db, <<>>, Left(db, s), ReadAll(db, c))
<1>1. s.ids = c.ids /\ s.end = c.end /\ Low(s) = Low(c)
  BY DEF SameRead, Low
<1>2. PICK low \in Nat : low = Low(s)
  BY StreamFields
<1>3. ASSUME NEW id \in s.ids PROVE LeftIn(db, s, id) = Records(db, id, low, s.end)
  <2>1. s.histories[id].through = None /\ ~s.histories[id].ready
    BY DEF StreamExact
  <2>2. Cut(low, s.histories[id]) = (low - 1) + 1
    BY <2>1 DEF Cut, Mark
  <2>3. Cut(low, s.histories[id]) = low
    BY <2>2
  <2> QED BY <1>2, <2>3 DEF LeftIn, Pending
<1>4. Left(db, s) = UNION {Records(db, id, low, s.end) : id \in s.ids}
  BY <1>3 DEF Left
<1>5. UNION {Records(db, id, low, s.end) : id \in s.ids} = Net(db, s.ids, low, s.end)
  BY DEF Records, Net
<1>6. Left(db, s) = ReadAll(db, c)
  BY <1>1, <1>2, <1>4, <1>5 DEF ReadAll
<1> QED BY <1>6, QueueEmpty

\* The owner o serves the read c, whose reader is at p: the rows it keeps and the rest of
\* its stream are what is still to be shown.
Owes(db, c, rows, left, p, prev, it, del) ==
    \E todo : QueueOK(db, rows, left, todo) /\ MidRead(db, c, p, todo, prev, it, del)

ReadOK(db, c, o, p, prev, it, del) ==
    /\ SameRead(c, o.stream) /\ StreamExact(db, o.stream)
    /\ Owes(db, c, o.batch, Left(db, o.stream), p, prev, it, del)

\* A read begins with a stream that nobody has read from.
LEMMA ReadBegins ==
    ASSUME NEW db, NEW c, CallOK(db, c), NEW o, o.batch = <<>>,
           StreamOK(db, o.stream), StreamExact(db, o.stream), o.stream.started = FALSE,
           SameRead(c, o.stream), NEW it
    PROVE  ReadOK(db, c, o, "reading", 0, it, <<>>)
<1>1. QueueOK(db, o.batch, Left(db, o.stream), ReadAll(db, c))
  BY UnreadLeft
<1>2. MidRead(db, c, "reading", ReadAll(db, c), 0, it, <<>>)
  BY MidStart
<1> QED BY <1>1, <1>2 DEF ReadOK, Owes

\* A record before the interval that is handed out as a failure is one, and one that is
\* not has no bytes outside ASCII either.
LEMMA EarlyRecord ==
    ASSUME NEW db, NEW c, CallOK(db, c), NEW row \in Row, Honest(db, row), row.id \in c.ids,
           row.tick < c.from
    PROVE  Decoded(row).failed <=> row.failed
<1>1. row.value # "wide"
  <2> SUFFICES ASSUME row.value = "wide" PROVE FALSE
    OBVIOUS
  <2>1. PICK i \in Broken(db, row.id) : db[row.id][i].value = "wide" /\ db[row.id][i].tick = row.tick
    BY DEF Honest
  <2>2. db[row.id][i].tick >= c.from
    BY <2>1 DEF CallOK, Eligible
  <2>3. c.from \in Nat /\ row.tick \in Nat
    BY DEF CallOK, CallArguments, Row
  <2> QED BY <2>1, <2>2, <2>3
<1> QED BY <1>1 DEF Decoded

\* What the Rust side finds in the first row of a batch: it is in order, and leaves what
\* the rest owes.
RowFits(db, c, row, rest, left, prev, it, del) ==
    /\ row \in Row /\ row.tick >= prev /\ row.tick <= c.end
    /\ prev \in Nat /\ c.from \in Nat /\ c.end \in Nat
    /\ row.tick < c.from /\ ~row.failed =>
         Owes(db, c, rest, left, "passed", row.tick, it, del)
    /\ row.tick < c.from /\ row.failed => PromisedFails(db, c) /\ del = Promised(db, c)
    /\ row.tick >= c.from =>
         Owes(db, c, rest, left, "visit", row.tick, Decoded(row), del)

\* A row of a batch fits the read that owes it.
LEMMA RowTaken ==
    ASSUME NEW db, NEW c, CallOK(db, c), NEW rows \in Seq(Row), rows # <<>>,
           NEW left, NEW prev, NEW it, NEW del, Owes(db, c, rows, left, "reading", prev, it, del),
           NEW row, row = Head(rows), NEW rest, rest = Tail(rows)
    PROVE  RowFits(db, c, row, rest, left, prev, it, del)
<1>0. PICK todo : QueueOK(db, rows, left, todo) /\ MidRead(db, c, "reading", todo, prev, it, del)
  BY DEF Owes
<1>1. PICK x : x = Decoded(row)
  OBVIOUS
<1>2. PICK now : now = todo \ {x}
  OBVIOUS
<1>3. \A y \in todo : y.id \in Nat /\ y.tick \in Nat
  <2>1. PICK all : all = ReadAll(db, c)
    OBVIOUS
  <2>2. PICK net : net = Net(db, c.ids, 0, c.end)
    OBVIOUS
  <2>3. Ordered(net) /\ all \subseteq net
    BY <2>1, <2>2, CallFacts
  <2>4. todo \subseteq all
    BY <1>0, <2>1 DEF MidRead
  <2> QED BY <2>3, <2>4 DEF Ordered
<1>4. row \in Row /\ Honest(db, row) /\ IsNext(x, todo) /\ QueueOK(db, rest, left, now)
  BY <1>0, <1>1, <1>2, <1>3, QueueHead
<1>5. /\ x.tick \in Nat /\ x.tick >= prev /\ x.tick <= c.end /\ x.id \in c.ids
      /\ x.tick < c.from /\ ~x.failed => MidRead(db, c, "passed", now, x.tick, it, del)
      /\ x.tick < c.from /\ x.failed => PromisedFails(db, c) /\ del = Promised(db, c)
      /\ x.tick >= c.from => MidRead(db, c, "visit", now, x.tick, x, del)
  BY <1>0, <1>2, <1>4, MidTake
<1>6. x.tick = row.tick /\ x.id = row.id
  BY <1>1, DecodedPlace
<1>7. row.tick < c.from => (x.failed <=> row.failed)
  BY <1>1, <1>4, <1>5, <1>6, EarlyRecord
<1>8. prev \in Nat /\ c.from \in Nat /\ c.end \in Nat
  BY <1>0, CallFacts DEF MidRead
<1> QED BY <1>1, <1>4, <1>5, <1>6, <1>7, <1>8 DEF Owes, RowFits

-----------------------------------------------------------------------------
(* The readers of a process. *)

\* What a session of someone else leaves of an owner: its stream may lose its cursors,
\* and has the same records left.
Undisturbed(db, o, n) ==
    /\ n.batch = o.batch /\ n.prepared = o.prepared
    /\ n.stream = None <=> o.stream = None
    /\ o.stream # None =>
         /\ SameRead(o.stream, n.stream)
         /\ n.stream.started => o.stream.started
         /\ StreamExact(db, o.stream) =>
              StreamExact(db, n.stream) /\ Left(db, n.stream) = Left(db, o.stream)

\* An owner that nobody touches.
LEMMA UndisturbedSelf == ASSUME NEW db, NEW o PROVE Undisturbed(db, o, o)
BY DEF Undisturbed, SameRead

\* Opening a session disturbs nobody.
LEMMA SessionDisturbsNone ==
    ASSUME NEW dbs, NEW owners, NEW current, OwnersOK(dbs, owners, current), NEW r \in Readers
    PROVE  Undisturbed(dbs[r], owners[r], OpenSession(owners, current)[r])
<1>1. CASE current = None \/ r # current
  <2>1. OpenSession(owners, current)[r] = owners[r]
    BY <1>1 DEF OpenSession, OwnersOK
  <2> QED BY <2>1, UndisturbedSelf
<1>2. CASE current # None /\ r = current
  <2>1. owners \in [Readers -> Owner] /\ owners[r] \in Owner
    BY DEF OwnersOK
  <2>2. PICK s : s = owners[r].stream
    OBVIOUS
  <2>3. PICK t : t = Suspended(s)
    OBVIOUS
  <2>4. s # None /\ StreamOK(dbs[r], s)
    BY <1>2, <2>2 DEF OwnersOK
  <2>5. t \in Stream /\ t # None
    BY <2>3, <2>4, SuspendedOK, NoneIsNoStream DEF StreamOK
  <2>6. PICK n : n = [owners[r] EXCEPT !.stream = t]
    OBVIOUS
  <2>7. OpenSession(owners, current)[r] = n
    BY <1>2, <2>1, <2>2, <2>3, <2>6 DEF OpenSession
  <2>8. n.stream = t /\ n.batch = owners[r].batch /\ n.prepared = owners[r].prepared
    BY <2>1, <2>5, <2>6, OwnerStream
  <2>9. /\ t.ids = s.ids /\ t.from = s.from /\ t.end = s.end /\ t.resume = s.resume
        /\ t.started => s.started
    BY <2>3, <2>4 DEF Suspended, StreamOK, Stream
  <2>10. StreamExact(dbs[r], s) => StreamExact(dbs[r], t) /\ Left(dbs[r], t) = Left(dbs[r], s)
    BY <2>3, <2>4, SuspendedExact
  <2>11. Undisturbed(dbs[r], owners[r], n)
    BY <2>2, <2>4, <2>5, <2>8, <2>9, <2>10 DEF Undisturbed, SameRead
  <2> QED BY <2>7, <2>11
<1> QED BY <1>1, <1>2

\* A prepared stream has not been read from.
PreparedOK(db, o) ==
    /\ o.batch = <<>>
    /\ o.stream # None =>
         /\ o.prepared # None /\ o.stream.started = FALSE
         /\ o.stream.ids = o.prepared.ids /\ o.stream.end = o.prepared.end
         /\ o.stream.from = 0 /\ o.stream.resume = FALSE
         /\ StreamExact(db, o.stream)

\* Why a read has ended.
EndOK(db, c, prom, del, res) ==
    /\ res \in {"ok", "break", "panic", "error", "unopened"}
    /\ res = "error" => PromisedFails(db, c) /\ del = prom
    /\ res = "unopened" => "session" \in Faults

\* A reader at p: what its owner holds, and what it has delivered of what it promised.
ReaderOK(db, o, p, c, prev, it, prom, del, res) ==
    /\ p \in {"closed", "idle", "begin"} => PreparedOK(db, o) /\ del = <<>> /\ prev = 0
    /\ p \in {"closed", "idle"} => res = "none" /\ prom = <<>>
    /\ p \in {"begin"} \cup Underway => CallOK(db, c) /\ prom = Promised(db, c) /\ res = "running"
    /\ p \in Underway => ReadOK(db, c, o, p, prev, it, del)
    /\ p = "ending" => EndOK(db, c, prom, del, res)

At(r) == ReaderOK(database[r], native[r], pc[r], call[r], previous[r], item[r], promised[r],
                  delivered[r], result[r])

Domains ==
    /\ DOMAIN previous = Readers /\ DOMAIN item = Readers
    /\ DOMAIN promised = Readers /\ DOMAIN delivered = Readers

\* The inductive invariant of reads.
ReadsInv == Domains /\ \A r \in Readers : At(r)

\* A reader that somebody else has interrupted.
LEMMA Interrupted ==
    ASSUME NEW db, NEW o, NEW n, Undisturbed(db, o, n), NEW p, PlaceOK(o, p),
           StreamOK(db, o.stream) \/ o.stream = None, StreamOK(db, n.stream) \/ n.stream = None,
           NEW c, NEW prev, NEW it, NEW prom, NEW del, NEW res,
           ReaderOK(db, o, p, c, prev, it, prom, del, res)
    PROVE  ReaderOK(db, n, p, c, prev, it, prom, del, res)
<1>1. ASSUME PreparedOK(db, o) PROVE PreparedOK(db, n)
  <2>1. CASE o.stream = None
    BY <1>1, <2>1 DEF PreparedOK, Undisturbed
  <2>2. CASE o.stream # None
    <3>1. n.stream # None /\ StreamOK(db, n.stream)
      BY <2>2 DEF Undisturbed
    <3>2. n.stream.started \in BOOLEAN
      BY <3>1, StreamFields
    <3>3. n.stream.started = FALSE
      BY <1>1, <2>2, <3>2 DEF PreparedOK, Undisturbed
    <3> QED BY <1>1, <2>2, <3>1, <3>3 DEF PreparedOK, Undisturbed, SameRead
  <2> QED BY <2>1, <2>2
<1>2. ASSUME p \in Underway, ReadOK(db, c, o, p, prev, it, del)
      PROVE  ReadOK(db, c, n, p, prev, it, del)
  <2>1. o.stream # None
    BY <1>2 DEF PlaceOK
  <2>2. Owes(db, c, o.batch, Left(db, o.stream), p, prev, it, del)
    BY <1>2 DEF ReadOK
  <2>3. /\ SameRead(o.stream, n.stream) /\ StreamExact(db, n.stream) /\ n.batch = o.batch
        /\ Left(db, n.stream) = Left(db, o.stream) /\ SameRead(c, o.stream)
    BY <1>2, <2>1 DEF ReadOK, Undisturbed
  <2>4. SameRead(c, n.stream)
    BY <2>3, SameReadTwice
  <2>5. Owes(db, c, n.batch, Left(db, n.stream), p, prev, it, del)
    BY <2>2, <2>3
  <2> QED BY <2>3, <2>4, <2>5 DEF ReadOK
<1> QED BY <1>1, <1>2 DEF ReaderOK

\* A step of r leaves the other readers alone.
Alone(r) ==
    /\ database' = database
    /\ \A q \in Readers \ {r} :
         /\ Undisturbed(database[q], native[q], native'[q])
         /\ pc'[q] = pc[q] /\ call'[q] = call[q] /\ previous'[q] = previous[q]
         /\ item'[q] = item[q] /\ promised'[q] = promised[q]
         /\ delivered'[q] = delivered[q] /\ result'[q] = result[q]

\* A step of r that is right for r keeps the invariant.
LEMMA AloneKeeps ==
    ASSUME StreamsInv, StreamsInv', ReadsInv, NEW r \in Readers, Alone(r), Domains', At(r)'
    PROVE  ReadsInv'
<1> SUFFICES ASSUME NEW q \in Readers \ {r} PROVE At(q)'
  BY DEF ReadsInv
<1>1. /\ database'[q] = database[q] /\ Undisturbed(database[q], native[q], native'[q])
      /\ pc'[q] = pc[q] /\ call'[q] = call[q] /\ previous'[q] = previous[q]
      /\ item'[q] = item[q] /\ promised'[q] = promised[q]
      /\ delivered'[q] = delivered[q] /\ result'[q] = result[q]
  BY DEF Alone
<1>2. /\ PlaceOK(native[q], pc[q])
      /\ StreamOK(database[q], native[q].stream) \/ native[q].stream = None
  BY DEF StreamsInv, OwnersOK
<1>3. StreamOK(database[q], native'[q].stream) \/ native'[q].stream = None
  BY <1>1 DEF StreamsInv, OwnersOK
<1>4. ReaderOK(database[q], native[q], pc[q], call[q], previous[q], item[q], promised[q],
               delivered[q], result[q])
  BY DEF ReadsInv, At
<1>5. ReaderOK(database[q], native'[q], pc[q], call[q], previous[q], item[q], promised[q],
               delivered[q], result[q])
  BY <1>1, <1>2, <1>3, <1>4, Interrupted
<1> QED BY <1>1, <1>5 DEF At

-----------------------------------------------------------------------------
(* The steps of the promise. *)

Keeps(r) == [Promise(r)!Next]_(Promise(r)!vars)

\* A step that shows nothing.
LEMMA PromiseStutters ==
    ASSUME NEW r, promised'[r] = promised[r], delivered'[r] = delivered[r], result'[r] = result[r]
    PROVE  Keeps(r)
BY DEF Keeps, Promise!vars

\* A read begins.
LEMMA PromiseBegins ==
    ASSUME NEW r, result[r] = "none", result'[r] = "running", delivered'[r] = <<>>
    PROVE  Keeps(r)
BY DEF Keeps, Promise!Next, Promise!Begin, Errors

\* A call has returned.
LEMMA PromiseForgets ==
    ASSUME NEW r, result[r] # "running", result'[r] = "none", delivered'[r] = <<>>
    PROVE  Keeps(r)
BY DEF Keeps, Promise!Next, Promise!Forget, Errors

\* A step of a read delivers the promise up to its n-th record.
Continues(r, n) ==
    /\ result[r] = "running" /\ promised'[r] = promised[r]
    /\ n \in Len(delivered[r])..Len(promised[r])
    /\ delivered'[r] = SubSeq(promised[r], 1, n)

\* A record is shown and the visitor goes on.
LEMMA PromiseDelivers ==
    ASSUME NEW r, NEW n, Continues(r, n), n \in 1..Len(promised[r]), n > Len(delivered[r]),
           result'[r] = "running"
    PROVE  Keeps(r)
BY DEF Keeps, Continues, Promise!Next, Promise!Deliver, Promise!UpTo, Errors

\* A record is shown and the visitor stops.
LEMMA PromiseStops ==
    ASSUME NEW r, NEW n, Continues(r, n), n \in 1..Len(promised[r]),
           result'[r] \in {"break", "panic"}
    PROVE  Keeps(r)
BY DEF Keeps, Continues, Promise!Next, Promise!Stop, Promise!UpTo, Errors

\* All records have been shown.
LEMMA PromiseSucceeds ==
    ASSUME NEW r, Continues(r, Len(promised[r])), result'[r] = "ok"
    PROVE  Keeps(r)
BY DEF Keeps, Continues, Promise!Next, Promise!Succeed, Promise!UpTo, Errors

\* A failure after the n-th record.
LEMMA PromiseFails ==
    ASSUME NEW r, NEW n, Continues(r, n), n \in 0..Len(promised[r]), result'[r] \in Errors
    PROVE  Keeps(r)
BY DEF Keeps, Continues, Promise!Next, Promise!Fail, Promise!UpTo, Errors

\* What every step of r has to show.
Sound(r) == Alone(r) /\ Domains' /\ At(r)' /\ Keeps(r)

\* The state that a step reads.
LEMMA ReaderFacts ==
    ASSUME StreamsInv, ReadsInv, NEW r \in Readers
    PROVE  /\ database[r] \in Databases
           /\ DOMAIN native = Readers /\ DOMAIN pc = Readers /\ DOMAIN call = Readers
           /\ DOMAIN result = Readers /\ Domains
           /\ native[r] \in Owner /\ PlaceOK(native[r], pc[r])
           /\ native[r].stream # None => StreamOK(database[r], native[r].stream)
           /\ ReaderOK(database[r], native[r], pc[r], call[r], previous[r], item[r], promised[r],
                       delivered[r], result[r])
BY DEF StreamsInv, ReadsInv, OwnersOK, At

\* A step that leaves the native side alone.
LEMMA NativeAlone ==
    ASSUME NEW r, native' = native
    PROVE  \A q \in Readers \ {r} : Undisturbed(database[q], native[q], native'[q])
BY UndisturbedSelf

\* A step that only replaces the owner of r.
LEMMA OwnerAlone ==
    ASSUME StreamsInv, NEW r, NEW o, native' = [native EXCEPT ![r] = o]
    PROVE  \A q \in Readers \ {r} : Undisturbed(database[q], native[q], native'[q])
<1>1. \A q \in Readers \ {r} : native'[q] = native[q]
  BY DEF StreamsInv, OwnersOK
<1> QED BY <1>1, UndisturbedSelf

\* A session opened after the stream of r has been deleted.
LEMMA FreshAlone ==
    ASSUME StreamsInv, NEW r \in Readers, NEW owners,
           owners = OpenSession([native EXCEPT ![r] = Clean], Released(r))
    PROVE  /\ \A q \in Readers \ {r} : Undisturbed(database[q], native[q], owners[q])
           /\ owners[r] = Clean /\ owners \in [Readers -> Owner]
<1>1. PICK cleaned : cleaned = [native EXCEPT ![r] = Clean]
  OBVIOUS
<1>2. PICK current : current = IF active = r THEN None ELSE active
  OBVIOUS
<1>3. owners = OpenSession(cleaned, current)
  BY <1>1, <1>2 DEF Released
<1>4. OwnersOK(database, cleaned, current)
  <2>1. OwnersOK(database, native, active)
    BY DEF StreamsInv
  <2> QED BY <1>1, <1>2, <2>1, CleanedOK
<1>5. /\ native \in [Readers -> Owner]
      /\ cleaned[r] = Clean /\ \A q \in Readers \ {r} : cleaned[q] = native[q]
  BY <1>1 DEF StreamsInv, OwnersOK
<1>6. \A q \in Readers \ {r} : Undisturbed(database[q], native[q], owners[q])
  <2> TAKE q \in Readers \ {r}
  <2>1. Undisturbed(database[q], cleaned[q], owners[q])
    BY <1>3, <1>4, SessionDisturbsNone
  <2> QED BY <1>5, <2>1
<1>7. owners[r] = Clean
  <2>1. current # r
    BY <1>2, NoneIsNoStream
  <2>2. cleaned \in [Readers -> Owner]
    BY <1>4 DEF OwnersOK
  <2> QED BY <1>3, <1>5, <2>1, <2>2 DEF OpenSession
<1>8. owners \in [Readers -> Owner]
  <2>1. OwnersOK(database, OpenSession(cleaned, current), None)
    BY <1>4, OpenSessionOK
  <2> QED BY <1>3, <2>1 DEF OwnersOK
<1> QED BY <1>6, <1>7, <1>8

\* A clean owner has no prepared stream.
LEMMA CleanPrepared == ASSUME NEW db PROVE PreparedOK(db, Clean)
BY CleanOwner DEF PreparedOK

-----------------------------------------------------------------------------
(* The steps between reads. *)

\* An idle reader with an owner that holds no more than a prepared stream.
LEMMA IdleOK ==
    ASSUME NEW db, NEW o, NEW p, NEW c, NEW prev, NEW it, NEW prom, NEW del, NEW res,
           p \in {"closed", "idle"}, ReaderOK(db, o, p, c, prev, it, prom, del, res),
           NEW n, PreparedOK(db, n), NEW q \in {"closed", "idle"}
    PROVE  ReaderOK(db, n, q, c, prev, it, prom, del, res)
BY DEF ReaderOK, Underway

\* A step of an idle reader that does not start a read.
LEMMA IdleStep ==
    ASSUME StreamsInv, ReadsInv, NEW r \in Readers, pc[r] \in {"closed", "idle"},
           NEW q \in {"closed", "idle"}, pc' = [pc EXCEPT ![r] = q],
           database' = database, UNCHANGED reading,
           \A x \in Readers \ {r} : Undisturbed(database[x], native[x], native'[x]),
           PreparedOK(database[r], native'[r])
    PROVE  Sound(r)
<1>1. /\ call' = call /\ item' = item /\ previous' = previous /\ promised' = promised
      /\ delivered' = delivered /\ result' = result
  BY DEF reading
<1>2. Alone(r)
  BY <1>1, ReaderFacts DEF Alone
<1>3. Domains'
  BY <1>1, ReaderFacts DEF Domains
<1>4. ReaderOK(database[r], native'[r], q, call[r], previous[r], item[r], promised[r],
               delivered[r], result[r])
  BY ReaderFacts, IdleOK
<1>5. pc'[r] = q
  BY ReaderFacts
<1>6. At(r)'
  BY <1>1, <1>4, <1>5 DEF At
<1>7. Keeps(r)
  BY <1>1, PromiseStutters
<1> QED BY <1>2, <1>3, <1>6, <1>7 DEF Sound

\* An idle reader holds a prepared stream at most.
LEMMA IdlePrepared ==
    ASSUME StreamsInv, ReadsInv, NEW r \in Readers, pc[r] \in {"closed", "idle", "begin"}
    PROVE  PreparedOK(database[r], native[r])
BY ReaderFacts DEF ReaderOK

\* Opening a file suspends the active stream.
LEMMA OpenSound ==
    ASSUME StreamsInv, ReadsInv, NEW r \in Readers, Open(r) PROVE Sound(r)
<1>1. /\ pc[r] = "closed" /\ native' = OpenSession(native, active)
      /\ database' = database /\ UNCHANGED reading
      /\ pc' = [pc EXCEPT ![r] = "idle"] \/ pc' = pc
  BY DEF Open, rust
<1>2. OwnersOK(database, native, active)
  BY DEF StreamsInv
<1>3. \A x \in Readers : Undisturbed(database[x], native[x], native'[x])
  BY <1>1, <1>2, SessionDisturbsNone
<1>4. PreparedOK(database[r], native'[r])
  <2>1. PreparedOK(database[r], native[r])
    BY <1>1, IdlePrepared
  <2>2. native'[r].stream # None => StreamOK(database[r], native'[r].stream)
    <3>1. OwnersOK(database, native', None)
      BY <1>1, <1>2, OpenSessionOK
    <3> QED BY <3>1 DEF OwnersOK
  <2>3. Undisturbed(database[r], native[r], native'[r])
    BY <1>3
  <2>4. native'[r].stream # None => native'[r].stream.started \in BOOLEAN
    BY <2>2, StreamFields
  <2>5. native'[r].stream # None => native'[r].stream.started = FALSE
    BY <2>1, <2>3, <2>4 DEF PreparedOK, Undisturbed
  <2> QED BY <2>1, <2>3, <2>5 DEF PreparedOK, Undisturbed, SameRead
<1>5. CASE pc' = [pc EXCEPT ![r] = "idle"]
  BY <1>1, <1>3, <1>4, <1>5, IdleStep
<1>6. CASE pc' = pc
  <2>1. pc' = [pc EXCEPT ![r] = "closed"]
    BY <1>1, <1>6 DEF StreamsInv
  <2> QED BY <1>1, <1>3, <1>4, <2>1, IdleStep
<1> QED BY <1>1, <1>5, <1>6

\* The steps that delete the stream of an idle reader.
LEMMA DropSound ==
    ASSUME StreamsInv, ReadsInv, NEW r \in Readers, pc[r] = "idle",
           NEW q \in {"closed", "idle"}, pc' = [pc EXCEPT ![r] = q],
           database' = database, UNCHANGED reading, native' = [native EXCEPT ![r] = Clean]
    PROVE  Sound(r)
<1>1. \A x \in Readers \ {r} : Undisturbed(database[x], native[x], native'[x])
  BY OwnerAlone
<1>2. native'[r] = Clean
  BY ReaderFacts
<1>3. PreparedOK(database[r], native'[r])
  BY <1>2, CleanPrepared
<1> QED BY <1>1, <1>3, IdleStep

\* Dropping a reader.
LEMMA CloseSound ==
    ASSUME StreamsInv, ReadsInv, NEW r \in Readers, Close(r) PROVE Sound(r)
<1>1. /\ pc[r] = "idle" /\ pc' = [pc EXCEPT ![r] = "closed"] /\ database' = database
      /\ UNCHANGED reading /\ native' = [native EXCEPT ![r] = Clean]
  BY DEF Close
<1> QED BY <1>1, DropSound

\* A point that was prepared.
LEMMA SamplePreparedSound ==
    ASSUME StreamsInv, ReadsInv, NEW r \in Readers, NEW p, SamplePrepared(r, p) PROVE Sound(r)
<1>1. pc[r] = "idle" /\ pc' = pc /\ database' = database /\ UNCHANGED reading /\ native' = native
  BY DEF SamplePrepared
<1>2. pc' = [pc EXCEPT ![r] = "idle"]
  BY <1>1 DEF StreamsInv
<1>3. \A x \in Readers \ {r} : Undisturbed(database[x], native[x], native'[x])
  BY <1>1, NativeAlone
<1>4. PreparedOK(database[r], native'[r])
  BY <1>1, IdlePrepared
<1> QED BY <1>1, <1>2, <1>3, <1>4, IdleStep

\* A point read whose session does not open.
LEMMA SampleFailsSound ==
    ASSUME StreamsInv, ReadsInv, NEW r \in Readers, NEW p, SampleFails(r, p) PROVE Sound(r)
<1>1. /\ pc[r] = "idle" /\ pc' = pc /\ database' = database /\ UNCHANGED reading
      /\ native' = OpenSession([native EXCEPT ![r] = Clean], Released(r))
  BY DEF SampleFails
<1>2. pc' = [pc EXCEPT ![r] = "idle"]
  BY <1>1 DEF StreamsInv
<1>3. /\ \A x \in Readers \ {r} : Undisturbed(database[x], native[x], native'[x])
      /\ native'[r] = Clean
  BY <1>1, FreshAlone
<1>4. PreparedOK(database[r], native'[r])
  BY <1>3, CleanPrepared
<1> QED BY <1>1, <1>2, <1>3, <1>4, IdleStep

\* ondas_shm_sample_bits prepares an exact stream for the histories it cannot answer.
LEMMA SampleBitsSound ==
    ASSUME StreamsInv, ReadsInv, NEW r \in Readers, NEW p \in Points, SampleBits(r, p)
    PROVE  Sound(r)
<1>1. /\ pc[r] = "idle" /\ pc' = pc /\ database' = database /\ UNCHANGED reading
      /\ Unsampled(r, p) \/ Sampled(r, p)
  BY DEF SampleBits
<1>2. pc' = [pc EXCEPT ![r] = "idle"]
  BY <1>1 DEF StreamsInv
<1>3. CASE Unsampled(r, p)
  <2>1. native' = [native EXCEPT ![r] = Clean]
    BY <1>3 DEF Unsampled
  <2> QED BY <1>1, <1>2, <2>1, DropSound
<1>4. CASE Sampled(r, p)
  <2>1. PICK db \in Databases : db = database[r]
    BY ReaderFacts
  <2>2. PICK missing \in SUBSET Ids :
          missing = {id \in p.ids : [i \in p.ids |-> CertifiedPoint(i, database[r][i], p.end)][id] = None}
    BY PointArguments
  <2>3. PICK owners : owners = OpenSession([native EXCEPT ![r] = Clean], Released(r))
    OBVIOUS
  <2>4. PICK s : s = NewStream(missing, 0, p.end, FALSE)
    OBVIOUS
  <2>5. PICK t : t = Activated(db, s)
    OBVIOUS
  <2>6. PICK o : o = [stream |-> t, batch |-> <<>>, prepared |-> [ids |-> missing, end |-> p.end]]
    OBVIOUS
  <2>7. native' = owners \/ native' = [owners EXCEPT ![r] = o]
    BY <1>4, <2>1, <2>2, <2>3, <2>4, <2>5, <2>6 DEF Sampled
  <2>8. /\ \A x \in Readers \ {r} : Undisturbed(database[x], native[x], owners[x])
        /\ owners[r] = Clean /\ owners \in [Readers -> Owner]
    BY <2>3, FreshAlone
  <2>9. PICK c \in CallArguments : c = [ids |-> missing, from |-> 0, end |-> p.end, resume |-> FALSE]
    BY <2>2, PointArguments DEF CallArguments
  <2>10. /\ c.ids = missing /\ c.from = 0 /\ c.end = p.end /\ c.resume = FALSE
    BY <2>9
  <2>11. StreamOK(db, s) /\ StreamExact(db, s) /\ s.started = FALSE /\ SameRead(c, s)
    <3>1. s = NewStream(c.ids, c.from, c.end, c.resume)
      BY <2>4, <2>10
    <3>2. StreamOK(db, s)
      BY <2>2, <2>4, PointArguments, NewStreamOK
    <3>3. StreamExact(db, s) /\ s.started = FALSE /\ SameRead(c, s)
      BY <2>1, <2>10, <3>1, NewStreamExact
    <3> QED BY <3>2, <3>3
  <2>12. /\ StreamExact(db, t) /\ SameRead(s, t) /\ t.started = FALSE
    BY <2>1, <2>5, <2>11, ActivatedExact
  <2>13. t.ids = missing /\ t.end = p.end /\ t.from = 0 /\ t.resume = FALSE
    BY <2>10, <2>11, <2>12 DEF SameRead
  <2>14. PICK x : x = [ids |-> missing, end |-> p.end]
    OBVIOUS
  <2>15. x.ids = missing /\ x.end = p.end /\ x # None
    <3>1. x \in Prepared
      BY <2>2, <2>14, PointArguments DEF Prepared
    <3> QED BY <2>14, <3>1, NoneIsNoStream
  <2>16. o.stream = t /\ o.batch = <<>> /\ o.prepared = x
    BY <2>6, <2>14
  <2>17. PreparedOK(db, o)
    BY <2>12, <2>13, <2>15, <2>16 DEF PreparedOK
  <2>18. PreparedOK(db, native'[r])
    <3>1. native'[r] = Clean \/ native'[r] = o
      BY <2>7, <2>8
    <3> QED BY <2>17, <3>1, CleanPrepared
  <2>19. \A y \in Readers \ {r} : native'[y] = owners[y]
    BY <2>7, <2>8
  <2>20. \A y \in Readers \ {r} : Undisturbed(database[y], native[y], native'[y])
    BY <2>8, <2>19
  <2> QED BY <1>1, <1>2, <2>1, <2>18, <2>20, IdleStep
<1> QED BY <1>1, <1>3, <1>4

-----------------------------------------------------------------------------
(* The steps of a read. *)

\* A variable changes at r at most.
Only(f, g, r) == g = f \/ \E x : g = [f EXCEPT ![r] = x]

\* Such a step leaves the other readers alone.
LEMMA AloneBy ==
    ASSUME StreamsInv, ReadsInv, NEW r \in Readers, database' = database,
           \A q \in Readers \ {r} : Undisturbed(database[q], native[q], native'[q]),
           Only(pc, pc', r), Only(call, call', r), Only(previous, previous', r),
           Only(item, item', r), Only(promised, promised', r),
           Only(delivered, delivered', r), Only(result, result', r)
    PROVE  Alone(r) /\ Domains'
<1>1. /\ DOMAIN pc = Readers /\ DOMAIN call = Readers /\ DOMAIN result = Readers /\ Domains
  BY ReaderFacts
<1>2. ASSUME NEW f, NEW g, DOMAIN f = Readers, Only(f, g, r)
      PROVE  DOMAIN g = Readers /\ \A q \in Readers \ {r} : g[q] = f[q]
  BY <1>2 DEF Only
<1>3. Domains'
  BY <1>1, <1>2 DEF Domains
<1>4. Alone(r)
  BY <1>1, <1>2 DEF Alone, Domains
<1> QED BY <1>3, <1>4

\* A read is asked for.
LEMMA StartReadSound ==
    ASSUME StreamsInv, ReadsInv, NEW r \in Readers, NEW c \in Reads, StartRead(r, c)
    PROVE  Sound(r)
<1>1. /\ pc[r] = "idle" /\ pc' = [pc EXCEPT ![r] = "begin"] /\ database' = database
      /\ result' = [result EXCEPT ![r] = "running"] /\ call' = [call EXCEPT ![r] = c]
      /\ promised' = [promised EXCEPT ![r] = Promised(database[r], c)]
      /\ native' = native /\ item' = item /\ previous' = previous /\ delivered' = delivered
      /\ Eligible(database[r], c)
  BY DEF StartRead
<1>2. Alone(r) /\ Domains'
  BY <1>1, NativeAlone, AloneBy DEF Only
<1>3. /\ pc'[r] = "begin" /\ result'[r] = "running" /\ call'[r] = c
      /\ promised'[r] = Promised(database[r], c)
  BY <1>1, ReaderFacts DEF Domains
<1>4. CallOK(database[r], c)
  <2>1. c \in CallArguments
    BY StreamAssumption DEF CallArguments
  <2> QED BY <1>1, <2>1, ReaderFacts DEF CallOK
<1>5. /\ PreparedOK(database[r], native[r]) /\ delivered[r] = <<>> /\ previous[r] = 0
      /\ result[r] = "none"
  BY <1>1, ReaderFacts DEF ReaderOK
<1>6. ReaderOK(database[r], native[r], "begin", c, previous[r], item[r], Promised(database[r], c),
               delivered[r], "running")
  BY <1>4, <1>5 DEF ReaderOK, Underway
<1>7. At(r)'
  BY <1>1, <1>3, <1>6 DEF At
<1>8. Keeps(r)
  BY <1>1, <1>3, <1>5, PromiseBegins
<1> QED BY <1>2, <1>7, <1>8 DEF Sound

\* What a read that is under way, or about to be, has promised.
LEMMA ReadFacts ==
    ASSUME StreamsInv, ReadsInv, NEW r \in Readers, pc[r] \in {"begin"} \cup Underway
    PROVE  /\ CallOK(database[r], call[r]) /\ promised[r] = Promised(database[r], call[r])
           /\ result[r] = "running"
           /\ pc[r] = "begin" => delivered[r] = <<>> /\ previous[r] = 0 /\ PreparedOK(database[r], native[r])
           /\ pc[r] \in Underway =>
                ReadOK(database[r], call[r], native[r], pc[r], previous[r], item[r], delivered[r])
BY ReaderFacts DEF ReaderOK

\* A read that ends.
LEMMA EndsSound ==
    ASSUME StreamsInv, ReadsInv, NEW r \in Readers, NEW how, Leave(r, how),
           database' = database, call' = call, promised' = promised,
           \A q \in Readers \ {r} : Undisturbed(database[q], native[q], native'[q]),
           Only(previous, previous', r), Only(item, item', r), Only(delivered, delivered', r),
           EndOK(database[r], call[r], promised[r], delivered'[r], how), Keeps(r)
    PROVE  Sound(r)
<1>1. pc' = [pc EXCEPT ![r] = "ending"] /\ result' = [result EXCEPT ![r] = how]
  BY DEF Leave
<1>2. Alone(r) /\ Domains'
  BY <1>1, AloneBy DEF Only
<1>3. pc'[r] = "ending" /\ result'[r] = how
  BY <1>1, ReaderFacts
<1>4. ReaderOK(database[r], native'[r], "ending", call[r], previous'[r], item'[r], promised[r],
               delivered'[r], how)
  BY DEF ReaderOK, Underway
<1>5. At(r)'
  BY <1>3, <1>4 DEF At
<1> QED BY <1>2, <1>5 DEF Sound

\* An empty interval promises nothing.
LEMMA NothingPromised ==
    ASSUME NEW db, NEW c, CallOK(db, c), c.from > c.end
    PROVE  Promised(db, c) = <<>>
<1>1. Due(db, c) = {}
  <2>1. /\ c.from \in Nat /\ c.end \in Nat
        /\ \A x \in Net(db, c.ids, 0, c.end) : x.tick \in 0..c.end
    BY CallFacts
  <2> QED BY <2>1 DEF Due
<1>2. PICK s : s = Promised(db, c)
  OBVIOUS
<1>3. PICK T : s \in Seq(T) /\ Len(s) = 0
  BY <1>1, <1>2, PromisedIs, InOrderSeq, FS_EmptySet
<1> QED BY <1>2, <1>3, EmptySeq

\* An empty interval.
LEMMA ReadNothingSound ==
    ASSUME StreamsInv, ReadsInv, NEW r \in Readers, ReadNothing(r) PROVE Sound(r)
<1>1. /\ pc[r] = "begin" /\ call[r].from > call[r].end /\ Leave(r, "ok")
      /\ database' = database /\ native' = native /\ call' = call /\ item' = item
      /\ previous' = previous /\ promised' = promised /\ delivered' = delivered
  BY DEF ReadNothing
<1>2. promised[r] = <<>> /\ delivered[r] = <<>> /\ result[r] = "running"
  BY <1>1, ReadFacts, NothingPromised
<1>3. Keeps(r)
  <2>1. SubSeq(promised[r], 1, 0) = <<>> /\ Len(promised[r]) = 0 /\ Len(delivered[r]) = 0
    BY <1>2, SubSeqEmpty
  <2>2. Continues(r, Len(promised[r]))
    BY <1>1, <1>2, <2>1 DEF Continues
  <2>3. result'[r] = "ok"
    BY <1>1, ReaderFacts DEF Leave
  <2> QED BY <2>2, <2>3, PromiseSucceeds
<1>4. EndOK(database[r], call[r], promised[r], delivered'[r], "ok")
  BY DEF EndOK
<1> QED BY <1>1, <1>3, <1>4, NativeAlone, EndsSound DEF Only

\* A read that goes on.
LEMMA GoesSound ==
    ASSUME StreamsInv, ReadsInv, NEW r \in Readers, pc[r] \in {"begin"} \cup Underway,
           NEW p \in Underway, pc' = [pc EXCEPT ![r] = p], result' = result,
           database' = database, call' = call, promised' = promised,
           \A q \in Readers \ {r} : Undisturbed(database[q], native[q], native'[q]),
           Only(previous, previous', r), Only(item, item', r), Only(delivered, delivered', r),
           ReadOK(database[r], call[r], native'[r], p, previous'[r], item'[r], delivered'[r]),
           Keeps(r)
    PROVE  Sound(r)
<1>1. Alone(r) /\ Domains'
  BY AloneBy DEF Only
<1>2. pc'[r] = p
  BY ReaderFacts
<1>3. ReaderOK(database[r], native'[r], p, call[r], previous'[r], item'[r], promised[r],
               delivered'[r], result[r])
  BY ReadFacts DEF ReaderOK, Underway
<1>4. At(r)'
  BY <1>2, <1>3 DEF At
<1> QED BY <1>1, <1>4 DEF Sound

\* A record before the interval.
LEMMA PassOverSound ==
    ASSUME StreamsInv, ReadsInv, NEW r \in Readers, PassOver(r) PROVE Sound(r)
<1>1. /\ pc[r] = "passed" /\ pc' = [pc EXCEPT ![r] = "reading"] /\ result' = result
      /\ database' = database /\ native' = native /\ call' = call /\ item' = item
      /\ previous' = previous /\ promised' = promised /\ delivered' = delivered
  BY DEF PassOver, rust, reading
<1>2. ReadOK(database[r], call[r], native[r], "passed", previous[r], item[r], delivered[r])
  BY <1>1, ReadFacts DEF Underway
<1>3. ReadOK(database[r], call[r], native[r], "reading", previous[r], item[r], delivered[r])
  BY <1>2 DEF ReadOK, Owes, MidRead, ToShow
<1>4. Keeps(r)
  BY <1>1, PromiseStutters
<1>5. "reading" \in Underway /\ pc[r] \in {"begin"} \cup Underway
  BY <1>1 DEF Underway
<1> QED BY <1>1, <1>3, <1>4, <1>5, NativeAlone, GoesSound DEF Only

\* The call returns.
LEMMA EndTraversalSound ==
    ASSUME StreamsInv, ReadsInv, NEW r \in Readers, EndTraversal(r) PROVE Sound(r)
<1>1. /\ pc[r] = "ending" /\ pc' = [pc EXCEPT ![r] = "idle"] /\ database' = database
      /\ native' = [native EXCEPT ![r] = Clean] /\ call' = [call EXCEPT ![r] = NoRead]
      /\ promised' = [promised EXCEPT ![r] = <<>>] /\ previous' = [previous EXCEPT ![r] = 0]
      /\ delivered' = [delivered EXCEPT ![r] = <<>>] /\ result' = [result EXCEPT ![r] = "none"]
      /\ item' = item
  BY DEF EndTraversal, Ended
<1>2. Alone(r) /\ Domains'
  BY <1>1, OwnerAlone, AloneBy DEF Only
<1>3. /\ pc'[r] = "idle" /\ native'[r] = Clean /\ promised'[r] = <<>> /\ previous'[r] = 0
      /\ delivered'[r] = <<>> /\ result'[r] = "none"
  BY <1>1, ReaderFacts DEF Domains
<1>4. \A c, it : ReaderOK(database[r], Clean, "idle", c, 0, it, <<>>, <<>>, "none")
  BY CleanPrepared DEF ReaderOK, Underway
<1>5. At(r)'
  BY <1>1, <1>3, <1>4 DEF At
<1>6. result[r] # "running"
  BY <1>1, ReaderFacts DEF ReaderOK, EndOK
<1>7. Keeps(r)
  BY <1>3, <1>6, PromiseForgets
<1> QED BY <1>2, <1>5, <1>7 DEF Sound

\* A prepared stream, a new one, or none.
LEMMA NativeReadSound ==
    ASSUME StreamsInv, ReadsInv, NEW r \in Readers, NativeRead(r) PROVE Sound(r)
<1>1. PICK c : c = call[r]
  OBVIOUS
<1>2. PICK owners : owners = OpenSession([native EXCEPT ![r] = Clean], Released(r))
  OBVIOUS
<1>3. PICK db \in Databases : db = database[r]
  BY ReaderFacts
<1>4. PICK s : s = NewStream(c.ids, c.from, c.end, c.resume)
  OBVIOUS
<1>5. PICK fresh : fresh = Activated(db, s)
  OBVIOUS
<1>6. /\ pc[r] = "begin" /\ database' = database /\ call' = call /\ item' = item
      /\ previous' = previous /\ promised' = promised /\ delivered' = delivered
      /\ \/ /\ HandedOver(native[r], c)
            /\ native' = [native EXCEPT ![r].prepared = None]
            /\ pc' = [pc EXCEPT ![r] = "reading"]
            /\ result' = result
         \/ /\ native' = [owners EXCEPT ![r].stream = fresh]
            /\ pc' = [pc EXCEPT ![r] = "reading"]
            /\ result' = result
         \/ /\ "session" \in Faults /\ native' = owners
            /\ Leave(r, "unopened")
  BY <1>1, <1>2, <1>3, <1>4, <1>5 DEF NativeRead
<1>7. /\ CallOK(db, c) /\ promised[r] = Promised(db, c) /\ result[r] = "running"
      /\ delivered[r] = <<>> /\ previous[r] = 0 /\ PreparedOK(db, native[r])
  BY <1>1, <1>3, <1>6, ReadFacts
<1>8. /\ \A q \in Readers \ {r} : Undisturbed(database[q], native[q], owners[q])
      /\ owners[r] = Clean /\ owners \in [Readers -> Owner]
  BY <1>2, FreshAlone
<1>9. "reading" \in Underway /\ pc[r] \in {"begin"} \cup Underway
  BY <1>6 DEF Underway
<1>10. ASSUME result' = result PROVE Keeps(r)
  BY <1>6, <1>10, PromiseStutters
<1>11. CASE /\ HandedOver(native[r], c)
            /\ native' = [native EXCEPT ![r].prepared = None]
            /\ pc' = [pc EXCEPT ![r] = "reading"]
            /\ result' = result
  <2>1. PICK o : o = [native[r] EXCEPT !.prepared = None]
    OBVIOUS
  <2>2. /\ native[r] \in Owner /\ native' = [native EXCEPT ![r] = o]
        /\ native[r].prepared # None => native[r].stream # None
        /\ native[r].stream # None => StreamOK(db, native[r].stream)
    BY <1>3, <1>11, <2>1, ReaderFacts DEF PlaceOK
  <2>3. o.stream = native[r].stream /\ o.batch = native[r].batch
    BY <2>1, <2>2 DEF Owner
  <2>4. /\ o.stream # None /\ StreamOK(db, o.stream) /\ StreamExact(db, o.stream)
        /\ o.stream.started = FALSE /\ o.batch = <<>>
    BY <1>7, <1>11, <2>2, <2>3 DEF HandedOver, PreparedOK
  <2>5. SameRead(c, o.stream)
    <3>1. c.resume \in BOOLEAN
      BY <1>7, CallFacts
    <3>2. c.resume = FALSE
      BY <1>11, <3>1 DEF HandedOver
    <3> QED BY <1>7, <1>11, <2>2, <2>3, <3>2 DEF HandedOver, PreparedOK, SameRead
  <2>6. ReadOK(db, c, o, "reading", 0, item[r], <<>>)
    BY <1>7, <2>4, <2>5, ReadBegins
  <2>7. native'[r] = o
    BY <2>2, ReaderFacts
  <2>8. ReadOK(database[r], call[r], native'[r], "reading", previous'[r], item'[r], delivered'[r])
    BY <1>1, <1>3, <1>6, <1>7, <2>6, <2>7
  <2>9. \A q \in Readers \ {r} : Undisturbed(database[q], native[q], native'[q])
    BY <2>2, OwnerAlone
  <2> QED BY <1>6, <1>9, <1>10, <1>11, <2>8, <2>9, GoesSound DEF Only
<1>12. CASE /\ native' = [owners EXCEPT ![r].stream = fresh]
            /\ pc' = [pc EXCEPT ![r] = "reading"]
            /\ result' = result
  <2>1. PICK o : o = [Clean EXCEPT !.stream = fresh]
    OBVIOUS
  <2>2. /\ StreamOK(db, s) /\ ~s.session
        /\ StreamExact(db, s) /\ s.started = FALSE /\ SameRead(c, s)
    <3>1. StreamOK(db, s) /\ ~s.session
      <4>1. c.ids \in SUBSET Ids /\ c.from \in Nat /\ c.end \in Nat /\ c.resume \in BOOLEAN
        BY <1>7, CallFacts
      <4> QED BY <1>4, <4>1, NewStreamOK
    <3> QED BY <1>4, <1>7, <3>1, CallStream
  <2>3. /\ StreamOK(db, fresh) /\ StreamExact(db, fresh) /\ fresh.started = FALSE
        /\ SameRead(s, fresh) /\ fresh \in Stream
    <3>1. StreamOK(db, fresh)
      BY <1>3, <1>5, <2>2, ActivatedOK
    <3>2. StreamExact(db, fresh) /\ fresh.started = FALSE /\ SameRead(s, fresh)
      BY <1>3, <1>5, <2>2, ActivatedExact
    <3> QED BY <3>1, <3>2 DEF StreamOK
  <2>4. o.stream = fresh /\ o.batch = <<>>
    BY <2>1, <2>3, CleanOwner, OwnerStream
  <2>5. SameRead(c, o.stream)
    BY <2>2, <2>3, <2>4, SameReadTwice
  <2>6. ReadOK(db, c, o, "reading", 0, item[r], <<>>)
    BY <1>7, <2>3, <2>4, <2>5, ReadBegins
  <2>7. native'[r] = o /\ \A q \in Readers \ {r} : native'[q] = owners[q]
    BY <1>8, <1>12, <2>1
  <2>8. ReadOK(database[r], call[r], native'[r], "reading", previous'[r], item'[r], delivered'[r])
    BY <1>1, <1>3, <1>6, <1>7, <2>6, <2>7
  <2>9. \A q \in Readers \ {r} : Undisturbed(database[q], native[q], native'[q])
    BY <1>8, <2>7
  <2> QED BY <1>6, <1>9, <1>10, <1>12, <2>8, <2>9, GoesSound DEF Only
<1>13. CASE "session" \in Faults /\ native' = owners /\ Leave(r, "unopened")
  <2>1. Keeps(r)
    <3>1. PICK P, T : P = Promised(db, c) /\ P \in Seq(T)
      <4>1. PICK D : D = Due(db, c) /\ IsFiniteSet(D)
        <5>1. PICK net : net = Net(db, c.ids, 0, c.end) /\ IsFiniteSet(net)
          BY <1>7, CallFacts
        <5>2. Due(db, c) \in SUBSET net
          BY <5>1 DEF Due
        <5> QED BY <5>1, <5>2, FS_Subset
      <4> QED BY <4>1, PromisedIs, InOrderSeq
    <3>2. Len(P) \in Nat
      BY <3>1, LenProperties
    <3>3. SubSeq(P, 1, 0) = <<>> /\ Len(<<>>) = 0
      BY SubSeqEmpty
    <3>4. 0 \in 0..Len(P)
      BY <3>2
    <3>5. Continues(r, 0)
      BY <1>6, <1>7, <3>1, <3>3, <3>4 DEF Continues
    <3>6. result'[r] \in Errors
      BY <1>13, ReaderFacts DEF Leave, Errors
    <3> QED BY <1>7, <3>1, <3>4, <3>5, <3>6, PromiseFails
  <2>2. EndOK(database[r], call[r], promised[r], delivered'[r], "unopened")
    BY <1>13 DEF EndOK
  <2>3. \A q \in Readers \ {r} : Undisturbed(database[q], native[q], native'[q])
    BY <1>8, <1>13
  <2> QED BY <1>6, <1>13, <2>1, <2>2, <2>3, EndsSound DEF Only
<1> QED BY <1>6, <1>11, <1>12, <1>13

\* The visitor is shown the next record.
LEMMA VisitSound ==
    ASSUME StreamsInv, ReadsInv, NEW r \in Readers, Visit(r) PROVE Sound(r)
<1>1. PICK db, c : db = database[r] /\ c = call[r]
  OBVIOUS
<1>2. PICK it : it = item[r]
  OBVIOUS
<1>3. /\ pc[r] = "visit" /\ delivered' = [delivered EXCEPT ![r] = Append(@, it)]
      /\ item' = [item EXCEPT ![r] = None]
      /\ database' = database /\ native' = native /\ call' = call
      /\ previous' = previous /\ promised' = promised
      /\ \/ Leave(r, "break") \/ Leave(r, "panic")
         \/ it.failed /\ Leave(r, "error")
         \/ ~it.failed /\ pc' = [pc EXCEPT ![r] = "reading"] /\ result' = result
  BY <1>2 DEF Visit
<1>4. /\ CallOK(db, c) /\ promised[r] = Promised(db, c) /\ result[r] = "running"
      /\ ReadOK(db, c, native[r], "visit", previous[r], it, delivered[r])
  BY <1>1, <1>2, <1>3, ReadFacts DEF Underway
<1>5. PICK todo : /\ QueueOK(db, native[r].batch, Left(db, native[r].stream), todo)
                  /\ MidRead(db, c, "visit", todo, previous[r], it, delivered[r])
  BY <1>4 DEF ReadOK, Owes
<1>6. PICK del, new, prev : del = delivered[r] /\ new = Append(del, it) /\ prev = previous[r]
  OBVIOUS
<1>7. delivered'[r] = new
  BY <1>3, <1>6, ReaderFacts DEF Domains
<1>8. /\ Len(del) + 1 \in 1..Len(Promised(db, c))
      /\ new = SubSeq(Promised(db, c), 1, Len(del) + 1)
      /\ ~it.failed => \A z : MidRead(db, c, "reading", todo, prev, z, new)
      /\ it.failed => PromisedFails(db, c) /\ new = Promised(db, c)
  <2>1. MidRead(db, c, "visit", todo, prev, it, del)
    BY <1>5, <1>6
  <2>2. NextShown(db, c, todo, prev, it, del, new)
    BY <1>4, <1>6, <2>1, MidVisit
  <2> QED BY <2>2 DEF NextShown
<1>9. Len(del) \in Nat
  <2>1. Len(Promised(db, c)) \in Nat /\ Len(del) \in 0..Len(Promised(db, c))
    BY <1>4, <1>5, <1>6, MidLen
  <2> QED BY <2>1
<1>10. PICK n \in Nat : n = Len(del) + 1 /\ n > Len(del)
  BY <1>9
<1>11. Continues(r, n) /\ n \in 1..Len(promised[r]) /\ n > Len(delivered[r])
  <2>1. n \in Len(delivered[r])..Len(promised[r]) /\ n \in 1..Len(promised[r]) /\ n > Len(delivered[r])
    BY <1>4, <1>6, <1>8, <1>9, <1>10
  <2> QED BY <1>3, <1>4, <1>6, <1>7, <1>8, <1>10, <2>1 DEF Continues
<1>12. ASSUME NEW how \in {"break", "panic"}, Leave(r, how) PROVE Sound(r)
  <2>1. result'[r] = how
    BY <1>12, ReaderFacts DEF Leave
  <2>2. Keeps(r)
    BY <1>11, <2>1, PromiseStops
  <2>3. EndOK(database[r], call[r], promised[r], delivered'[r], how)
    BY DEF EndOK
  <2> QED BY <1>3, <1>12, <2>2, <2>3, NativeAlone, EndsSound DEF Only
<1>13. ASSUME it.failed, Leave(r, "error") PROVE Sound(r)
  <2>1. result'[r] \in Errors
    BY <1>13, ReaderFacts DEF Leave, Errors
  <2>2. n \in 0..Len(promised[r])
    BY <1>11
  <2>3. Keeps(r)
    BY <1>11, <2>1, <2>2, PromiseFails
  <2>4. EndOK(database[r], call[r], promised[r], delivered'[r], "error")
    BY <1>1, <1>4, <1>7, <1>8, <1>13 DEF EndOK
  <2> QED BY <1>3, <1>13, <2>3, <2>4, NativeAlone, EndsSound DEF Only
<1>14. ASSUME ~it.failed, pc' = [pc EXCEPT ![r] = "reading"], result' = result PROVE Sound(r)
  <2>1. Keeps(r)
    BY <1>4, <1>11, <1>14, PromiseDelivers
  <2>2. MidRead(db, c, "reading", todo, previous[r], item'[r], new)
    BY <1>6, <1>8, <1>14
  <2>3. ReadOK(database[r], call[r], native'[r], "reading", previous'[r], item'[r], delivered'[r])
    BY <1>1, <1>3, <1>4, <1>5, <1>7, <2>2 DEF ReadOK, Owes
  <2>4. "reading" \in Underway /\ pc[r] \in {"begin"} \cup Underway
    BY <1>3 DEF Underway
  <2> QED BY <1>3, <1>14, <2>1, <2>3, <2>4, NativeAlone, GoesSound DEF Only
<1> QED BY <1>3, <1>12, <1>13, <1>14

\* The Rust side takes the first of the rows.
LEMMA TakeSound ==
    ASSUME StreamsInv, ReadsInv, NEW r \in Readers, pc[r] = "reading",
           database' = database, call' = call, promised' = promised, delivered' = delivered,
           \A q \in Readers \ {r} : Undisturbed(database[q], native[q], native'[q]),
           NEW s, SameRead(call[r], s), StreamExact(database[r], s),
           NEW rows \in Seq(Row), rows # <<>>,
           Owes(database[r], call[r], rows, Left(database[r], s), "reading", previous[r], item[r],
                delivered[r]),
           native'[r].stream = s, native'[r].batch = Tail(rows), Take(r, Head(rows))
    PROVE  Sound(r)
<1>1. PICK db, c : db = database[r] /\ c = call[r]
  OBVIOUS
<1>2. PICK row, rest : row = Head(rows) /\ rest = Tail(rows)
  OBVIOUS
<1>3. PICK prev, it, del : prev = previous[r] /\ it = item[r] /\ del = delivered[r]
  OBVIOUS
<1>4. PICK left : left = Left(db, s)
  OBVIOUS
<1>5. CallOK(db, c) /\ promised[r] = Promised(db, c) /\ result[r] = "running"
  BY <1>1, ReadFacts DEF Underway
<1>6. Owes(db, c, rows, left, "reading", prev, it, del)
  BY <1>1, <1>3, <1>4
<1>7. /\ row \in Row /\ row.tick >= prev /\ row.tick <= c.end
      /\ prev \in Nat /\ c.from \in Nat /\ c.end \in Nat
      /\ row.tick < c.from /\ ~row.failed => Owes(db, c, rest, left, "passed", row.tick, it, del)
      /\ row.tick < c.from /\ row.failed => PromisedFails(db, c) /\ del = Promised(db, c)
      /\ row.tick >= c.from =>
           Owes(db, c, rest, left, "visit", row.tick, Decoded(row), del)
  <2>1. RowFits(db, c, row, rest, left, prev, it, del)
    BY <1>2, <1>5, <1>6, RowTaken
  <2> QED BY <2>1 DEF RowFits
<1>8. /\ previous' = [previous EXCEPT ![r] = row.tick]
      /\ \/ row.tick < c.from /\ row.failed /\ Leave(r, "error") /\ item' = item
         \/ /\ row.tick < c.from /\ ~row.failed
            /\ pc' = [pc EXCEPT ![r] = "passed"] /\ result' = result /\ item' = item
         \/ /\ ~(row.tick < c.from)
            /\ pc' = [pc EXCEPT ![r] = "visit"] /\ result' = result
            /\ item' = [item EXCEPT ![r] = Decoded(row)]
  <2>1. ~(row.tick < prev \/ row.tick > c.end)
    <3>1. row.tick \in Nat
      BY <1>7 DEF Row
    <3> QED BY <1>7, <3>1
  <2> QED BY <1>1, <1>2, <1>3, <2>1 DEF Take, Decoded
<1>9. Owes(db, c, rest, left, "passed", row.tick, it, del) =>
        ReadOK(db, c, native'[r], "passed", row.tick, it, del)
  BY <1>1, <1>2, <1>4 DEF ReadOK
<1>10. previous'[r] = row.tick
  BY <1>8, ReaderFacts DEF Domains
<1>11. "passed" \in Underway /\ "visit" \in Underway /\ pc[r] \in {"begin"} \cup Underway
  BY DEF Underway
<1>12. CASE row.tick < c.from /\ row.failed /\ Leave(r, "error") /\ item' = item
  <2>1. PromisedFails(db, c) /\ del = Promised(db, c)
    BY <1>7, <1>12
  <2>2. result'[r] \in Errors
    BY <1>12, ReaderFacts DEF Leave, Errors
  <2>3. PICK n \in Nat : /\ n = Len(del) /\ n \in 0..Len(promised[r])
                         /\ del = SubSeq(promised[r], 1, n)
    <3>0. PICK todo : MidRead(db, c, "reading", todo, prev, it, del)
      BY <1>6 DEF Owes
    <3>1. /\ Len(Promised(db, c)) \in Nat /\ Len(del) \in 0..Len(Promised(db, c))
          /\ del = SubSeq(Promised(db, c), 1, Len(del))
      BY <1>5, <3>0, MidLen
    <3>2. Len(del) \in Nat
      BY <3>1
    <3> QED BY <1>5, <3>1, <3>2
  <2>4. n \in Len(delivered[r])..Len(promised[r])
    BY <1>3, <2>3
  <2>5. Continues(r, n)
    BY <1>3, <1>5, <2>3, <2>4 DEF Continues
  <2>6. Keeps(r)
    BY <2>2, <2>3, <2>5, PromiseFails
  <2>7. EndOK(database[r], call[r], promised[r], delivered'[r], "error")
    BY <1>1, <1>3, <1>5, <2>1 DEF EndOK
  <2> QED BY <1>8, <1>12, <2>6, <2>7, EndsSound DEF Only
<1>13. CASE /\ row.tick < c.from /\ ~row.failed
            /\ pc' = [pc EXCEPT ![r] = "passed"] /\ result' = result /\ item' = item
  <2>1. ReadOK(database[r], call[r], native'[r], "passed", previous'[r], item'[r], delivered'[r])
    BY <1>1, <1>3, <1>7, <1>9, <1>10, <1>13
  <2>2. Keeps(r)
    BY <1>13, PromiseStutters
  <2> QED BY <1>8, <1>11, <1>13, <2>1, <2>2, GoesSound DEF Only
<1>14. CASE /\ ~(row.tick < c.from)
            /\ pc' = [pc EXCEPT ![r] = "visit"] /\ result' = result
            /\ item' = [item EXCEPT ![r] = Decoded(row)]
  <2>1. row.tick >= c.from
    <3>1. row.tick \in Nat
      BY <1>7 DEF Row
    <3> QED BY <1>7, <1>14, <3>1
  <2>2. PICK x : x = Decoded(row)
    OBVIOUS
  <2>3. item'[r] = x
    BY <1>14, <2>2, ReaderFacts DEF Domains
  <2>4. Owes(db, c, rest, left, "visit", row.tick, x, del)
    BY <1>7, <2>1, <2>2
  <2>5. ReadOK(database[r], call[r], native'[r], "visit", previous'[r], item'[r], delivered'[r])
    BY <1>1, <1>2, <1>3, <1>4, <1>10, <2>3, <2>4 DEF ReadOK
  <2>6. Keeps(r)
    BY <1>14, PromiseStutters
  <2> QED BY <1>8, <1>11, <1>14, <2>5, <2>6, GoesSound DEF Only
<1> QED BY <1>8, <1>12, <1>13, <1>14

\* A row of the last batch.
LEMMA NextBufferedSound ==
    ASSUME StreamsInv, ReadsInv, NEW r \in Readers, NextBuffered(r) PROVE Sound(r)
<1>1. PICK rows : rows = native[r].batch
  OBVIOUS
<1>2. /\ pc[r] = "reading" /\ rows # <<>> /\ native' = [native EXCEPT ![r].batch = Tail(rows)]
      /\ Take(r, Head(rows)) /\ database' = database /\ call' = call
      /\ promised' = promised /\ delivered' = delivered
  BY <1>1 DEF NextBuffered
<1>3. PICK s : s = native[r].stream
  OBVIOUS
<1>4. /\ SameRead(call[r], s) /\ StreamExact(database[r], s)
      /\ Owes(database[r], call[r], rows, Left(database[r], s), "reading", previous[r], item[r],
              delivered[r])
  <2>1. ReadOK(database[r], call[r], native[r], "reading", previous[r], item[r], delivered[r])
    BY <1>2, ReadFacts DEF Underway
  <2> QED BY <1>1, <1>3, <2>1 DEF ReadOK
<1>5. PICK o : o = [native[r] EXCEPT !.batch = Tail(rows)]
  OBVIOUS
<1>6. native[r] \in Owner /\ rows \in Seq(Row)
  BY <1>1, ReaderFacts DEF Owner
<1>7. native' = [native EXCEPT ![r] = o] /\ o.stream = s /\ o.batch = Tail(rows)
  BY <1>2, <1>3, <1>5, <1>6 DEF Owner
<1>8. native'[r].stream = s /\ native'[r].batch = Tail(rows)
  BY <1>7, ReaderFacts
<1>9. \A q \in Readers \ {r} : Undisturbed(database[q], native[q], native'[q])
  BY <1>7, OwnerAlone
<1> QED BY <1>2, <1>4, <1>6, <1>8, <1>9, TakeSound

\* What ondas_shm_next collects is what the read still owes, in order.
Batched(db, c, g, fails, prev, it, del) ==
    /\ g.rows \in Seq(Row) /\ g.stream \in Stream
    /\ SameRead(c, g.stream) /\ StreamExact(db, g.stream)
    /\ Owes(db, c, g.rows, Left(db, g.stream), "reading", prev, it, del)
    /\ g.status = "threw" => fails
    /\ g.rows = <<>> /\ g.status # "threw" => Owes(db, c, <<>>, {}, "reading", prev, it, del)

\* A batch does not change what a read owes.
LEMMA BatchOwes ==
    ASSUME StreamsInv, ReadsInv, NEW r \in Readers, pc[r] = "reading", native[r].batch = <<>>,
           NEW limit \in 1..BatchLimit(native[r].stream), NEW fails,
           NEW g, g = Collected(database[r], native[r].stream, active = r, limit, fails)
    PROVE  Batched(database[r], call[r], g, fails, previous[r], item[r], delivered[r])
<1>1. PICK s : s = native[r].stream
  OBVIOUS
<1>2. PICK db \in Databases : db = database[r]
  BY ReaderFacts
<1>3. s # None /\ StreamOK(db, s) /\ (s.session <=> active = r)
  BY <1>1, <1>2 DEF StreamsInv, OwnersOK, PlaceOK, Underway
<1>4. PICK holds \in BOOLEAN : holds = (active = r)
  OBVIOUS
<1>5. g = Collected(db, s, holds, limit, fails)
  BY <1>1, <1>2, <1>4, Zenon
<1>6. limit \in Nat \ {0}
  <2>1. FirstBatch \in Nat /\ LaterBatch \in Nat
    BY StreamAssumption
  <2> QED BY <2>1 DEF BatchLimit
<1>7. ReadOK(db, call[r], native[r], "reading", previous[r], item[r], delivered[r])
  BY <1>2, ReadFacts DEF Underway
<1>8. SameRead(call[r], s) /\ StreamExact(db, s)
  BY <1>1, <1>7 DEF ReadOK
<1>9. holds <=> s.session
  BY <1>3, <1>4
<1>10. /\ g \in Collecting(db, holds) /\ BatchExact(db, s, g, fails)
       /\ g.status = "more" => g.rows # <<>>
  BY <1>3, <1>5, <1>6, <1>8, <1>9, CollectedExact
<1>11. /\ g \in [stream : Stream, holds : BOOLEAN, rows : Seq(Row), status : {"more", "end", "threw"}]
       /\ g.rows \in Seq(Row) /\ g.stream \in Stream /\ g.status \in {"more", "end", "threw"}
  BY <1>10 DEF Collecting
<1>12. /\ SameRead(s, g.stream) /\ StreamExact(db, g.stream)
       /\ QueueOK(db, g.rows, Left(db, g.stream), Left(db, s))
       /\ g.status = "end" /\ g.rows = <<>> => Left(db, g.stream) = {}
       /\ g.status = "threw" => fails
  BY <1>10 DEF BatchExact
<1>13. MidRead(db, call[r], "reading", Left(db, s), previous[r], item[r], delivered[r])
  <2>1. PICK todo : /\ QueueOK(db, <<>>, Left(db, s), todo)
                    /\ MidRead(db, call[r], "reading", todo, previous[r], item[r], delivered[r])
    BY <1>1, <1>7 DEF ReadOK, Owes
  <2>2. Rows(<<>>) = {}
    <3>1. Len(<<>>) = 0 /\ 1..0 = {}
      OBVIOUS
    <3> QED BY <3>1 DEF Rows
  <2>3. todo = Left(db, s)
    BY <2>1, <2>2 DEF QueueOK
  <2> QED BY <2>1, <2>3
<1>14. Owes(db, call[r], g.rows, Left(db, g.stream), "reading", previous[r], item[r], delivered[r])
  BY <1>12, <1>13 DEF Owes
<1>15. SameRead(call[r], g.stream)
  BY <1>8, <1>12, SameReadTwice
<1>16. ASSUME g.rows = <<>>, g.status # "threw"
       PROVE  Owes(db, call[r], <<>>, {}, "reading", previous[r], item[r], delivered[r])
  <2>1. Left(db, g.stream) = {}
    BY <1>10, <1>11, <1>12, <1>16
  <2> QED BY <1>14, <1>16, <2>1
<1> QED BY <1>2, <1>11, <1>12, <1>14, <1>15, <1>16 DEF Batched

\* A read that ends without a record.
LEMMA LastSound ==
    ASSUME StreamsInv, ReadsInv, NEW r \in Readers, pc[r] = "reading",
           database' = database, call' = call, promised' = promised, delivered' = delivered,
           item' = item, previous' = previous,
           \A q \in Readers \ {r} : Undisturbed(database[q], native[q], native'[q]),
           NEW rows, NEW left,
           Owes(database[r], call[r], rows, left, "reading", previous[r], item[r], delivered[r]),
           \/ Leave(r, "unopened") /\ "session" \in Faults
           \/ Leave(r, "ok") /\ rows = <<>> /\ left = {}
    PROVE  Sound(r)
<1>1. PICK db, c : db = database[r] /\ c = call[r]
  OBVIOUS
<1>2. PICK prev, it, del : prev = previous[r] /\ it = item[r] /\ del = delivered[r]
  OBVIOUS
<1>3. CallOK(db, c) /\ promised[r] = Promised(db, c) /\ result[r] = "running"
  BY <1>1, ReadFacts DEF Underway
<1>4. PICK todo : QueueOK(db, rows, left, todo) /\ MidRead(db, c, "reading", todo, prev, it, del)
  BY <1>1, <1>2 DEF Owes
<1>5. /\ Len(Promised(db, c)) \in Nat /\ Len(del) \in 0..Len(Promised(db, c))
      /\ del = SubSeq(Promised(db, c), 1, Len(del))
  BY <1>3, <1>4, MidLen
<1>6. PICK n \in Nat : n = Len(del) /\ n \in 0..Len(promised[r]) /\ n \in n..Len(promised[r])
  BY <1>3, <1>5
<1>7. Continues(r, n)
  BY <1>2, <1>3, <1>5, <1>6 DEF Continues
<1>8. CASE Leave(r, "unopened") /\ "session" \in Faults
  <2>1. result'[r] \in Errors
    BY <1>8, ReaderFacts DEF Leave, Errors
  <2>2. Keeps(r)
    BY <1>6, <1>7, <2>1, PromiseFails
  <2>3. EndOK(database[r], call[r], promised[r], delivered'[r], "unopened")
    BY <1>8 DEF EndOK
  <2> QED BY <1>8, <2>2, <2>3, EndsSound DEF Only
<1>9. CASE Leave(r, "ok") /\ rows = <<>> /\ left = {}
  <2>1. Rows(<<>>) = {}
    <3>1. Len(<<>>) = 0 /\ 1..0 = {}
      OBVIOUS
    <3> QED BY <3>1 DEF Rows
  <2>2. todo = {}
    BY <1>4, <1>9, <2>1 DEF QueueOK
  <2>3. del = Promised(db, c)
    <3>1. MidRead(db, c, "reading", {}, prev, it, del)
      BY <1>4, <2>2
    <3> QED BY <1>3, <3>1, MidEnd
  <2>4. Continues(r, Len(promised[r]))
    BY <1>3, <1>6, <1>7, <2>3
  <2>5. result'[r] = "ok"
    BY <1>9, ReaderFacts DEF Leave
  <2>6. Keeps(r)
    BY <2>4, <2>5, PromiseSucceeds
  <2>7. EndOK(database[r], call[r], promised[r], delivered'[r], "ok")
    BY DEF EndOK
  <2> QED BY <1>9, <2>6, <2>7, EndsSound DEF Only
<1> QED BY <1>8, <1>9

\* A new batch.
LEMMA NextBatchSound ==
    ASSUME StreamsInv, ReadsInv, NEW r \in Readers, NextBatch(r) PROVE Sound(r)
<1>1. /\ pc[r] = "reading" /\ native[r].batch = <<>> /\ database' = database /\ call' = call
      /\ promised' = promised /\ delivered' = delivered
  BY DEF NextBatch
<1>2. PICK limit \in 1..BatchLimit(native[r].stream), fails \in {FALSE, "session" \in Faults} :
        LET g == Collected(database[r], native[r].stream, active = r, limit, fails)
            opened == g.status = "threw" \/ (g.holds /\ active # r)
            owners == IF opened THEN OpenSession(native, active) ELSE native
        IN /\ active' = IF g.status = "threw" THEN None ELSE IF g.holds THEN r ELSE active
           /\ native' = [owners EXCEPT ![r].stream = g.stream,
                            ![r].batch = IF g.rows = <<>> THEN <<>> ELSE Tail(g.rows)]
           /\ IF g.status = "threw" THEN Leave(r, "unopened") /\ UNCHANGED <<item, previous>>
              ELSE IF g.rows = <<>> THEN Leave(r, "ok") /\ UNCHANGED <<item, previous>>
              ELSE Take(r, Head(g.rows))
  BY Zenon DEF NextBatch
<1>3. PICK g : g = Collected(database[r], native[r].stream, active = r, limit, fails)
  OBVIOUS
<1>4. PICK owners : owners = IF g.status = "threw" \/ (g.holds /\ active # r)
                             THEN OpenSession(native, active) ELSE native
  OBVIOUS
<1>5. /\ native' = [owners EXCEPT ![r].stream = g.stream,
                       ![r].batch = IF g.rows = <<>> THEN <<>> ELSE Tail(g.rows)]
      /\ IF g.status = "threw" THEN Leave(r, "unopened") /\ UNCHANGED <<item, previous>>
         ELSE IF g.rows = <<>> THEN Leave(r, "ok") /\ UNCHANGED <<item, previous>>
         ELSE Take(r, Head(g.rows))
  BY <1>2, <1>3, <1>4, Zenon
<1>6. /\ g.rows \in Seq(Row) /\ g.stream \in Stream
      /\ SameRead(call[r], g.stream) /\ StreamExact(database[r], g.stream)
      /\ Owes(database[r], call[r], g.rows, Left(database[r], g.stream), "reading",
              previous[r], item[r], delivered[r])
      /\ g.status = "threw" => fails
      /\ g.rows = <<>> /\ g.status # "threw" =>
           Owes(database[r], call[r], <<>>, {}, "reading", previous[r], item[r], delivered[r])
  <2>1. Batched(database[r], call[r], g, fails, previous[r], item[r], delivered[r])
    BY <1>1, <1>2, <1>3, BatchOwes, Zenon
  <2> QED BY <2>1 DEF Batched
<1>7. OwnersOK(database, native, active)
  BY DEF StreamsInv
<1>8. /\ owners \in [Readers -> Owner]
      /\ \A q \in Readers : Undisturbed(database[q], native[q], owners[q])
  <2>1. CASE owners = native
    BY <1>7, <2>1, UndisturbedSelf DEF OwnersOK
  <2>2. CASE owners = OpenSession(native, active)
    <3>1. OwnersOK(database, owners, None)
      BY <1>7, <2>2, OpenSessionOK
    <3> QED BY <1>7, <2>2, <3>1, SessionDisturbsNone DEF OwnersOK
  <2> QED BY <1>4, <2>1, <2>2
<1>9. PICK rest : rest = IF g.rows = <<>> THEN <<>> ELSE Tail(g.rows)
  OBVIOUS
<1>10. PICK o : o = [owners[r] EXCEPT !.stream = g.stream, !.batch = rest]
  OBVIOUS
<1>11. native' = [owners EXCEPT ![r] = o] /\ owners[r] \in Owner
  BY <1>5, <1>8, <1>9, <1>10
<1>12. native'[r].stream = g.stream /\ native'[r].batch = rest
  BY <1>8, <1>10, <1>11 DEF Owner
<1>13. \A q \in Readers \ {r} : Undisturbed(database[q], native[q], native'[q])
  <2>1. \A q \in Readers \ {r} : native'[q] = owners[q]
    BY <1>8, <1>11
  <2> QED BY <1>8, <2>1
<1>14. CASE g.status = "threw"
  <2>1. Leave(r, "unopened") /\ item' = item /\ previous' = previous
    BY <1>5, <1>14
  <2>2. "session" \in Faults
    BY <1>2, <1>6, <1>14
  <2> QED BY <1>1, <1>6, <1>13, <2>1, <2>2, LastSound
<1>15. CASE g.status # "threw" /\ g.rows = <<>>
  <2>1. Leave(r, "ok") /\ item' = item /\ previous' = previous
    BY <1>5, <1>15
  <2> QED BY <1>1, <1>6, <1>13, <1>15, <2>1, LastSound
<1>16. CASE g.status # "threw" /\ g.rows # <<>>
  <2>1. Take(r, Head(g.rows)) /\ native'[r].batch = Tail(g.rows)
    BY <1>5, <1>9, <1>12, <1>16
  <2> QED BY <1>1, <1>6, <1>12, <1>13, <1>16, <2>1, TakeSound
<1> QED BY <1>14, <1>15, <1>16

-----------------------------------------------------------------------------
(* The theorems about reads. *)

\* The invariant of reads holds at first.
LEMMA ReadsInit == Init => ReadsInv /\ \A r \in Readers : Promise(r)!Init
<1> SUFFICES ASSUME Init PROVE ReadsInv /\ \A r \in Readers : Promise(r)!Init
  OBVIOUS
<1>1. Domains
  BY DEF Init, Domains
<1>2. ASSUME NEW r \in Readers PROVE At(r) /\ Promise(r)!Init
  <2>1. /\ native[r] = Clean /\ pc[r] = "closed" /\ previous[r] = 0 /\ promised[r] = <<>>
        /\ delivered[r] = <<>> /\ result[r] = "none"
    BY DEF Init
  <2>2. PreparedOK(database[r], native[r])
    BY <2>1, CleanPrepared
  <2>3. At(r)
    BY <2>1, <2>2 DEF At, ReaderOK, Underway
  <2>4. Promise(r)!Init
    BY <2>1 DEF Promise!Init, Errors
  <2> QED BY <2>3, <2>4
<1> QED BY <1>1, <1>2 DEF ReadsInv

\* Every step of every reader keeps the invariant and the promises.
LEMMA NextSound ==
    ASSUME StreamsInv, ReadsInv, Next PROVE \E r \in Readers : Sound(r)
<1>1. PICK r \in Readers :
        \/ Open(r) \/ Close(r) \/ ReadStep(r)
        \/ \E p \in Points : SamplePrepared(r, p) \/ SampleBits(r, p) \/ SampleFails(r, p)
        \/ \E c \in Reads : StartRead(r, c)
  BY DEF Next
<1>2. CASE Open(r)
  BY <1>2, OpenSound
<1>3. CASE Close(r)
  BY <1>3, CloseSound
<1>4. CASE ReadStep(r)
  BY <1>4, ReadNothingSound, NativeReadSound, NextBufferedSound, NextBatchSound, PassOverSound,
     VisitSound, EndTraversalSound DEF ReadStep
<1>5. CASE \E p \in Points : SamplePrepared(r, p) \/ SampleBits(r, p) \/ SampleFails(r, p)
  BY <1>5, SamplePreparedSound, SampleBitsSound, SampleFailsSound
<1>6. CASE \E c \in Reads : StartRead(r, c)
  BY <1>6, StartReadSound
<1> QED BY <1>1, <1>2, <1>3, <1>4, <1>5, <1>6

\* The invariant of reads is inductive, and every step is one of every promise.
LEMMA ReadsStep ==
    ASSUME StreamsInv, StreamsInv', ReadsInv, [Next]_vars
    PROVE  ReadsInv' /\ \A r \in Readers : Keeps(r)
<1>1. CASE Next
  <2>1. PICK r \in Readers : Sound(r)
    BY <1>1, NextSound
  <2>2. ReadsInv'
    BY <2>1, AloneKeeps DEF Sound
  <2>3. ASSUME NEW q \in Readers \ {r} PROVE Keeps(q)
    BY <2>1, PromiseStutters DEF Sound, Alone
  <2> QED BY <2>1, <2>2, <2>3 DEF Sound
<1>2. CASE UNCHANGED vars
  <2>1. /\ database' = database /\ native' = native /\ pc' = pc /\ call' = call /\ item' = item
        /\ previous' = previous /\ promised' = promised /\ delivered' = delivered /\ result' = result
    BY <1>2 DEF vars
  <2>2. ReadsInv'
    BY <2>1 DEF ReadsInv, Domains, At
  <2>3. \A r \in Readers : Keeps(r)
    BY <2>1, PromiseStutters
  <2> QED BY <2>2, <2>3
<1> QED BY <1>1, <1>2

\* So it holds in every state.
LEMMA ReadsStayExact == Spec => []ReadsInv
<1>1. StreamsInv /\ StreamsInv' /\ ReadsInv /\ [Next]_vars => ReadsInv'
  BY ReadsStep
<1> QED BY <1>1, ReadsInit, StreamsStaySound, PTL DEF Spec

\* It implies that a failed read has a cause.
LEMMA InvErrors == StreamsInv /\ ReadsInv => ErrorsHaveCause
<1> SUFFICES ASSUME StreamsInv, ReadsInv, NEW r \in Readers
             PROVE  /\ result[r] # "disorder"
                    /\ result[r] = "error" =>
                          PromisedFails(database[r], call[r]) /\ delivered[r] = promised[r]
                    /\ result[r] = "unopened" => "session" \in Faults
  BY DEF ErrorsHaveCause
<1>1. pc[r] \in {"closed", "idle", "begin", "ending"} \cup Underway
  BY DEF StreamsInv, Busy, Underway
<1>2. ReaderOK(database[r], native[r], pc[r], call[r], previous[r], item[r], promised[r],
               delivered[r], result[r])
  BY ReaderFacts
<1>3. CASE pc[r] = "ending"
  BY <1>2, <1>3 DEF ReaderOK, EndOK
<1>4. CASE pc[r] # "ending"
  <2>1. result[r] \in {"none", "running"}
    BY <1>1, <1>2, <1>4 DEF ReaderOK
  <2> QED BY <2>1
<1> QED BY <1>3, <1>4

\* A read that ends, in whatever way, has a reason and leaves nothing to the next: no row
\* is out of order although sessions are suspended and reopened between batches, a read
\* fails only where a selected history is broken, after everything that precedes it, or
\* when no session can be opened (shm.rs, Reader::read_from_with_resume; native/shm.cpp,
\* ondas_shm_next).
THEOREM EndsStayClean == Spec => []CleanEnds
<1>1. StreamsInv /\ ReadsInv /\ KeepsNothing => CleanEnds
  BY InvErrors DEF CleanEnds
<1> QED BY <1>1, StreamsStaySound, NothingIsKept, ReadsStayExact, PTL

\* Every reader implements RecordStream: its visitor is shown the net records of the
\* selected histories in order, none twice, none lost to a session that another reader
\* took, to a stream prepared by a point read or to a batch that ends in the middle of a
\* tick, and the read succeeds only after the last of them.
THEOREM PromisesAreKept == Spec => KeepsPromise
<1>1. Init => \A r \in Readers : Promise(r)!Init
  BY ReadsInit
<1>2. StreamsInv /\ StreamsInv' /\ ReadsInv /\ [Next]_vars =>
        [\A r \in Readers : [Promise(r)!Next]_(Promise(r)!vars)]_vars
  BY ReadsStep DEF Keeps
<1> QED BY <1>1, <1>2, StreamsStaySound, ReadsStayExact, PTL DEF Spec, KeepsPromise
=============================================================================
