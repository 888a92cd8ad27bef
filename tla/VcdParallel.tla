----------------------------- MODULE VcdParallel -----------------------------
(***************************************************************************)
(* A VCD reader that splits the body into chunks: parallel_open walks all  *)
(* chunks once and merges what they saw, parallel_prefix merges the state  *)
(* before a window, parallel_full streams every record through one bounded *)
(* channel per chunk to a consumer that drains the chunks in order.        *)
(*                                                                         *)
(* The workers of parallel_open and parallel_prefix share nothing and are  *)
(* joined before their results are used, so each of the two is one step.   *)
(* The workers of parallel_full are processes of their own.                *)
(***************************************************************************)
EXTENDS VcdWalk

CONSTANTS
    Bodies,        \* the bodies considered
    MaxChunks,     \* bound: chunks of a body
    Selections,    \* sets of signals a query may select
    Ends,          \* bound: the ticks up to which a caller reads
    QueuedBatches, \* QUEUED_BATCHES, the capacity of a channel
    BatchLen,      \* batch_len, records in a batch
    Faults         \* what may go wrong: "spawn", "io", "short", "panic"

ASSUME ParallelAssumption ==
    /\ MaxChunks \in Nat
    /\ Selections \subseteq SUBSET Signals
    /\ Ends \subseteq 0..MaxTick
    /\ QueuedBatches \in Nat \ {0}
    /\ BatchLen \in Nat \ {0}
    /\ Faults \subseteq {"spawn", "io", "short", "panic"}
    /\ \A b \in Bodies : Len(b) \in Nat /\ \A i \in 1..Len(b) : IsToken(b[i])

VARIABLES
    body, cuts,           \* the tokens and the offsets at which chunks start
    selected,             \* the signals of the selection
    encodings, lastTime,  \* what opening found out
    parallel,             \* Reader.parallel is Some
    phase, call, result,  \* the call in progress and how the last one ended
    resume,               \* the position a later read may start from
    delivered,            \* the records visited by the call
    worker, queue,        \* per chunk: its thread and its channel
    listening,            \* the receivers exist
    canceled, active,     \* the shared flags canceled and active_chunk
    held,                 \* the batch the consumer is visiting
    size                  \* offset of the end of the file the workers see

file == <<body, cuts, selected, encodings, lastTime, parallel>>
threads == <<worker, queue, listening, canceled, active, held, size>>
vars == <<file, phase, call, result, resume, delivered, threads>>

Chunks == 1..(Len(cuts) - 1)
Eof == Len(body) + 1
NoCall == [end |-> 0, after |-> -1, position |-> None, streamed |-> FALSE]

-----------------------------------------------------------------------------
(* parallel_open *)

\* Every chunk but the first starts at a line that begins with '#'.
CutsOf(b) ==
    {c \in UNION {[1..n -> 1..(Len(b) + 1)] : n \in 3..(MaxChunks + 1)} :
        /\ c[1] = 1 /\ c[Len(c)] = Len(b) + 1
        /\ \A i \in 1..(Len(c) - 1) : c[i] < c[i + 1]
        /\ \A i \in 2..(Len(c) - 1) : b[c[i]].tok = "time"}

OpeningChunk(b, c, k) == Walk(b, AtStart(c[k]), c[k + 1], Declared, None, MaxTick)

Seen(part, as) == {s \in part.seen : Declared[s] = "real" /\ part.encodings[s] = as}

\* Mutant: chunks may be in any order.
MergesMutant(parts) ==
    /\ \A k \in DOMAIN parts : Succeeded(parts[k])
    /\ \A k \in DOMAIN parts : k > 1 => parts[k].span # None
    /\ \A j, k \in DOMAIN parts : Seen(parts[j], "real") \cap Seen(parts[k], "string") = {}

\* The chunks agree with a serial walk: each is well formed, each has a span
\* that does not go backwards, and no variable is real in one and a string in
\* another.
Merges(parts) ==
    /\ \A k \in DOMAIN parts : Succeeded(parts[k])
    /\ \A k \in DOMAIN parts : k > 1 => parts[k].span # None
    /\ \A k \in DOMAIN parts :
          (k > 1 /\ parts[k - 1].span # None) => parts[k - 1].span.last <= parts[k].span.first
    /\ \A j, k \in DOMAIN parts : Seen(parts[j], "real") \cap Seen(parts[k], "string") = {}

MergedEncodings(parts) ==
    [s \in Signals |->
        IF \E k \in DOMAIN parts : s \in Seen(parts[k], "string") THEN "string" ELSE Declared[s]]

MergedLast(parts) ==
    LET last == parts[Len(parts)].span IN IF last = None THEN 0 ELSE last.last

SerialOpen(b) == Walk(b, AtStart(1), Len(b) + 1, Declared, None, MaxTick)

Init ==
    /\ body \in Bodies
    /\ selected \in Selections
    /\ cuts = <<1, Len(body) + 1>>
    /\ encodings = Declared /\ lastTime = 0 /\ parallel = FALSE
    /\ phase = "closed" /\ call = NoCall /\ result = "none"
    /\ resume = None /\ delivered = <<>>
    /\ worker = <<>> /\ queue = <<>> /\ listening = FALSE
    /\ canceled = FALSE /\ active = 1 /\ held = None /\ size = 0

ParallelOpen ==
    /\ phase = "closed"
    /\ \E c \in CutsOf(body) :
        LET parts == [k \in 1..(Len(c) - 1) |-> OpeningChunk(body, c, k)]
        IN /\ Merges(parts)
           /\ cuts' = c
           /\ encodings' = MergedEncodings(parts)
           /\ lastTime' = MergedLast(parts)
    /\ parallel' = TRUE
    /\ phase' = "idle"
    /\ UNCHANGED <<body, selected, call, result, resume, delivered, threads>>

\* A short body, a failed probe or a chunk that does not merge.
OpenSerially ==
    LET w == SerialOpen(body)
    IN /\ phase = "closed"
       /\ phase' = IF Succeeded(w) THEN "idle" ELSE "failed"
       /\ encodings' = w.encodings
       /\ UNCHANGED <<body, cuts, selected, lastTime, parallel, call, result, resume, delivered,
                      threads>>

-----------------------------------------------------------------------------
(* parallel_prefix *)

\* What a chunk knows of a signal: ChunkValue::record and finish_tick.
FirstSight(r) ==
    [first |-> None, firstTime |-> r.time, last |-> r.value, lastChange |-> None,
     tick |-> r.time, pending |-> r.value]

FinishTick(c) ==
    IF c.first = None THEN [c EXCEPT !.first = c.pending, !.last = c.pending]
    ELSE IF c.last # c.pending THEN [c EXCEPT !.last = c.pending, !.lastChange = c.tick]
    ELSE c

Record(c, r) ==
    [(IF r.time # c.tick THEN [FinishTick(c) EXCEPT !.tick = r.time] ELSE c)
        EXCEPT !.pending = r.value]

\* The value a chunk has for signal s after its walk, or None.
ChunkValue(w, s) ==
    LET mine == SelectSeq(w.records, LAMBDA r : r.signal = s)
        fold[i \in 1..Len(mine)] ==
            IF i = 1 THEN FirstSight(mine[1]) ELSE Record(fold[i - 1], mine[i])
    IN IF mine = <<>> THEN None ELSE FinishTick(fold[Len(mine)])

\* Mutant: the change time of the earlier chunk is kept.
MergeValueMutant(known, part) ==
    IF part = None THEN known
    ELSE [value |-> part.last,
          changedAt |-> IF known = None \/ part.lastChange # None THEN part.lastChange
                        ELSE known.changedAt]

\* A later chunk's value on top of what the earlier ones left.
MergeValue(known, part) ==
    IF part = None THEN known
    ELSE [value |-> part.last,
          changedAt |-> IF known = None \/ part.lastChange # None THEN part.lastChange
                        ELSE IF known.value = part.first THEN known.changedAt
                        ELSE part.firstTime]

MergedValue(parts, s) ==
    LET fold[k \in 0..Len(parts)] ==
            IF k = 0 THEN None ELSE MergeValue(fold[k - 1], ChunkValue(parts[k], s))
    IN fold[Len(parts)]

\* A cut through a tick needs the serial walk.
SplitsTick(parts) ==
    \E j, k \in DOMAIN parts :
        /\ j < k /\ parts[j].span # None /\ parts[k].span # None
        /\ parts[j].span.last >= parts[k].span.first

\* Mutant: the merged prefix resumes at the end of the last chunk.
ResumeAtMutant(parts) == parts[Len(parts)].position

\* The first chunk that did not reach its end, or else the last one.
ResumeAt(parts) ==
    LET early == {k \in DOMAIN parts : parts[k].position.offset < cuts[k + 1]}
    IN IF early = {} THEN parts[Len(parts)].position
       ELSE parts[CHOOSE k \in early : \A j \in early : k <= j].position

\* Worth it only for a late tick, and bounded only for bits and reals.
PrefixEligible(t) ==
    /\ parallel
    /\ selected # {}
    /\ t > 0 /\ t >= (lastTime + 7) \div 8
    /\ \A s \in selected : encodings[s] \in {"bits", "real"}

ParallelPrefix(t) ==
    /\ phase = "idle"
    /\ PrefixEligible(t)
    /\ LET parts == [k \in Chunks |-> Walk(body, AtStart(cuts[k]), cuts[k + 1], encodings,
                                           selected, t)]
       IN /\ \A k \in Chunks : Succeeded(parts[k])
          /\ ~SplitsTick(parts)
          /\ resume' = [position |-> ResumeAt(parts), upto |-> t,
                        samples |-> [s \in selected |-> MergedValue(parts, s)]]
    /\ UNCHANGED <<file, phase, call, result, delivered, threads>>

-----------------------------------------------------------------------------
(* read_from: a fresh read up to the end of the file is streamed, any other *)
(* read walks serially from its position. *)

\* parallel_full: every tick is wanted and the payloads are bounded.
Streams(end) ==
    /\ parallel
    /\ selected # {}
    /\ end >= lastTime
    /\ \A s \in selected : encodings[s] # "string"

\* A fresh read; `size` is where the file ends for the workers.
ReadFrom(end) ==
    /\ phase = "idle"
    /\ call' = [end |-> end, after |-> -1, position |-> AtStart(1), streamed |-> Streams(end)]
    /\ phase' = IF Streams(end) THEN "spawn" ELSE "serial"
    /\ result' = "running"
    /\ resume' = None /\ delivered' = <<>>
    /\ listening' = Streams(end)
    /\ size' \in IF ~Streams(end) THEN {0} ELSE IF "short" \in Faults THEN 1..Eof ELSE {Eof}
    /\ UNCHANGED <<file, worker, queue, canceled, active, held>>

\* A read that continues from the position an earlier one left.
ReadResumed(end) ==
    /\ phase = "idle" /\ resume # None /\ resume.upto <= end
    /\ call' = [end |-> end, after |-> resume.upto, position |-> resume.position,
                streamed |-> FALSE]
    /\ phase' = "serial"
    /\ result' = "running"
    /\ resume' = None /\ delivered' = <<>>
    /\ UNCHANGED <<file, threads>>

\* The call returns; only a read that ran to its end leaves a position.
Return(how, position) ==
    /\ phase' = "idle"
    /\ result' = how
    /\ resume' = IF how = "ok" THEN [position |-> position, upto |-> call.end, samples |-> None]
                 ELSE None

\* The serial walk; the visitor may stop it after any record, a read may fail.
SerialRead ==
    /\ phase = "serial"
    /\ LET w == Walk(body, call.position, Eof, encodings, selected, call.end)
       IN \/ delivered' = w.records /\ Return(IF Succeeded(w) THEN "ok" ELSE "error", w.position)
          \/ \E n \in 1..Len(w.records) :
                delivered' = SubSeq(w.records, 1, n) /\ Return("break", None)
          \/ /\ "io" \in Faults
             /\ \E n \in 0..Len(w.records) :
                    delivered' = SubSeq(w.records, 1, n) /\ Return("error", None)
    /\ UNCHANGED <<file, call, threads>>

-----------------------------------------------------------------------------
(* parallel_full: the workers. *)

FreshWorker(k) ==
    [state |-> "run", walk |-> StartWalk(AtStart(cuts[k]), encodings), at |-> cuts[k],
     batch |-> <<>>, firstTime |-> None, crossed |-> FALSE, error |-> FALSE]

Ended(k) == worker[k].state \in {"done", "panicked"}

\* Mutant: a batch is sent once it holds more than batch_len records.
FullMutant(batch) == Len(batch) > BatchLen

Full(batch) == Len(batch) = BatchLen

\* flush_startup: the first record may complete the previous chunk's tick, the
\* first record of the next tick completes this chunk's first tick.
NextTick(w, r) == ~w.crossed /\ w.firstTime # None /\ w.firstTime # r.time

\* The walk's visitor: collect the record, send what is due.
Collect(w, walk) ==
    LET r == walk.records[1]
        batch == Append(w.batch, r)
        due == Full(batch) \/ w.firstTime = None \/ NextTick(w, r)
    IN [w EXCEPT !.walk = [walk EXCEPT !.records = <<>>], !.at = @ + 1, !.batch = batch,
                 !.firstTime = IF @ = None THEN r.time ELSE @,
                 !.crossed = @ \/ NextTick(w, r),
                 !.state = IF due THEN "send" ELSE "run"]

\* Mutant: an error is lost behind the last batch.
FinishMutant(w, failed) ==
    [w EXCEPT !.error = failed /\ w.batch = <<>>,
              !.state = IF w.batch # <<>> THEN "last" ELSE IF failed THEN "error" ELSE "done"]

\* After the walk: the last batch, then the error.
Finish(w, failed) ==
    [w EXCEPT !.error = failed,
              !.state = IF w.batch # <<>> THEN "last" ELSE IF failed THEN "error" ELSE "done"]

WorkerTurn(k) ==
    LET w == worker[k]
        walk == Turn(w.walk, w.at, body[w.at], selected, MaxTick)
    IN /\ w.state = "run" /\ w.at < cuts[k + 1] /\ w.at < size
       /\ worker' = [worker EXCEPT ![k] =
                        IF walk.status = "bad" THEN Finish(w, TRUE)
                        ELSE IF walk.records # <<>> THEN Collect(w, walk)
                        ELSE [w EXCEPT !.walk = walk, !.at = @ + 1]]
       /\ UNCHANGED <<file, phase, call, result, resume, delivered, queue, listening, canceled,
                      active, held, size>>

\* The walk consumed the whole chunk.
Reached(k) == worker[k].at = cuts[k + 1]

WorkerEof(k) ==
    LET w == worker[k]
    IN /\ w.state = "run" /\ (w.at = cuts[k + 1] \/ w.at >= size)
       /\ worker' = [worker EXCEPT ![k] =
                        Finish(w, ~Succeeded(EndWalk(w.walk, w.at)) \/ ~Reached(k))]
       /\ UNCHANGED <<file, phase, call, result, resume, delivered, queue, listening, canceled,
                      active, held, size>>

\* Mutant: every worker reports progress.
ReportsMutant(k) == TRUE

\* Only the chunk being drained sends an unfinished batch.
Reports(k) == active = k

WorkerProgress(k) ==
    /\ worker[k].state = "run" /\ worker[k].batch # <<>> /\ Reports(k)
    /\ worker' = [worker EXCEPT ![k].state = "send"]
    /\ UNCHANGED <<file, phase, call, result, resume, delivered, queue, listening, canceled,
                   active, held, size>>

\* A read of the file fails, or notices that the query was canceled.
WorkerReadFails(k) ==
    /\ worker[k].state = "run" /\ (canceled \/ "io" \in Faults)
    /\ worker' = [worker EXCEPT ![k] = Finish(worker[k], TRUE)]
    /\ UNCHANGED <<file, phase, call, result, resume, delivered, queue, listening, canceled,
                   active, held, size>>

WorkerPanics(k) ==
    /\ "panic" \in Faults
    /\ worker[k].state = "run"
    /\ worker' = [worker EXCEPT ![k].state = "panicked", ![k].batch = <<>>]
    /\ UNCHANGED <<file, phase, call, result, resume, delivered, queue, listening, canceled,
                   active, held, size>>

Sending(k) == worker[k].state \in {"send", "last", "error"}

\* tx.send, which waits for room.
WorkerSends(k) ==
    LET w == worker[k]
    IN /\ Sending(k) /\ listening
       /\ Len(queue[k]) < QueuedBatches
       /\ queue' = [queue EXCEPT ![k] =
                      Append(@, IF w.state = "error" THEN [ok |-> FALSE]
                                ELSE [ok |-> TRUE, records |-> w.batch])]
       /\ worker' = [worker EXCEPT ![k].batch = <<>>,
                        ![k].state = CASE w.state = "send" -> "run"
                                       [] w.state = "last" /\ w.error -> "error"
                                       [] OTHER -> "done"]
       /\ UNCHANGED <<file, phase, call, result, resume, delivered, listening, canceled, active,
                      held, size>>

\* tx.send fails: the receivers are gone.
WorkerUnheard(k) ==
    /\ Sending(k) /\ ~listening
    /\ worker' = [worker EXCEPT ![k].batch = <<>>, ![k].state = "done"]
    /\ UNCHANGED <<file, phase, call, result, resume, delivered, queue, listening, canceled,
                   active, held, size>>

Work(k) ==
    \/ WorkerTurn(k) \/ WorkerEof(k) \/ WorkerProgress(k) \/ WorkerReadFails(k)
    \/ WorkerPanics(k) \/ WorkerSends(k) \/ WorkerUnheard(k)

-----------------------------------------------------------------------------
(* parallel_full: the calling thread. *)

Spawned == DOMAIN worker

Spawn ==
    /\ phase = "spawn"
    /\ IF Len(worker) < Len(cuts) - 1
       THEN /\ worker' = Append(worker, FreshWorker(Len(worker) + 1))
            /\ queue' = Append(queue, <<>>)
            /\ UNCHANGED phase
       ELSE phase' = "drain" /\ UNCHANGED <<worker, queue>>
    /\ UNCHANGED <<file, call, result, resume, delivered, listening, canceled, active, held, size>>

\* Dropping the receivers discards what is queued.
DropReceivers ==
    /\ listening' = FALSE
    /\ queue' = [k \in Spawned |-> <<>>]

\* A thread cannot be started: stop the others and read serially instead.
SpawnFails ==
    /\ "spawn" \in Faults
    /\ phase = "spawn" /\ Len(worker) < Len(cuts) - 1
    /\ canceled' = TRUE
    /\ DropReceivers
    /\ phase' = "fallback"
    /\ UNCHANGED <<file, call, result, resume, delivered, worker, active, held, size>>

\* Mutant: a stop leaves the receivers in place while the workers are joined.
LeaveMutant(how) ==
    /\ phase' = "join" /\ result' = how
    /\ canceled' = (how \in {"break", "error"})
    /\ held' = None
    /\ UNCHANGED <<queue, listening, file, call, resume, worker, active, size>>

\* Leave the loop over the chunks; an unwinding visitor does not cancel.
Leave(how) ==
    /\ phase' = "join" /\ result' = how
    /\ canceled' = (how \in {"break", "error"})
    /\ held' = None
    /\ DropReceivers
    /\ UNCHANGED <<file, call, resume, worker, active, size>>

Receive ==
    /\ phase = "drain" /\ held = None /\ queue[active] # <<>>
    /\ LET message == Head(queue[active])
       IN IF message.ok
          THEN /\ held' = message.records
               /\ queue' = [queue EXCEPT ![active] = Tail(@)]
               /\ UNCHANGED <<file, phase, call, result, resume, worker, listening, canceled,
                              active, size>>
          ELSE Leave("error")
    /\ UNCHANGED delivered

\* The visitor sees every record of the batch, or stops at one of them.
Visit ==
    /\ phase = "drain" /\ held # None
    /\ \/ /\ delivered' = delivered \o held
          /\ held' = None
          /\ UNCHANGED <<file, phase, call, result, resume, worker, queue, listening, canceled,
                         active, size>>
       \/ \E n \in 1..Len(held), how \in {"break", "unwound"} :
            delivered' = delivered \o SubSeq(held, 1, n) /\ Leave(how)

\* Mutant: a chunk is over as soon as its worker is.
DrainedMutant(k) == held = None /\ Ended(k)

\* recv fails: the worker is gone and its channel is empty.
Drained(k) == held = None /\ queue[k] = <<>> /\ Ended(k)

NextChunk ==
    /\ phase = "drain" /\ Drained(active)
    /\ IF active < Len(cuts) - 1
       THEN /\ active' = active + 1
            /\ UNCHANGED <<file, phase, call, result, resume, worker, queue, listening, canceled,
                           held, size>>
       ELSE Leave("ok")
    /\ UNCHANGED delivered

\* A worker's panic is an error of the query.
Outcome ==
    IF result \in {"ok", "break"} /\ \E k \in Spawned : worker[k].state = "panicked"
    THEN "panicked" ELSE result

\* The scope ends: every thread is joined and its channel is gone.
EndScope ==
    /\ \A k \in Spawned : Ended(k)
    /\ worker' = <<>> /\ queue' = <<>> /\ listening' = FALSE
    /\ canceled' = FALSE /\ active' = 1 /\ held' = None /\ size' = 0

Join ==
    /\ phase = "join"
    /\ EndScope
    /\ Return(Outcome, [offset |-> Eof, time |-> lastTime, block |-> FALSE])
    /\ UNCHANGED <<file, call, delivered>>

Fallback ==
    /\ phase = "fallback"
    /\ EndScope
    /\ phase' = "serial"
    /\ call' = [call EXCEPT !.streamed = FALSE]
    /\ UNCHANGED <<file, result, resume, delivered>>

Caller ==
    \/ Spawn \/ SpawnFails \/ Fallback \/ Receive \/ Visit \/ NextChunk \/ Join

Operation ==
    \/ ParallelOpen \/ OpenSerially
    \/ \E t \in Ends : ParallelPrefix(t) \/ ReadFrom(t) \/ ReadResumed(t)

Next == Operation \/ Caller \/ SerialRead \/ \E k \in DOMAIN worker : Work(k)

Spec == Init /\ [][Next]_vars

\* Every thread runs until it ends or waits; the caller stays in its call, and
\* a serial walk, the only step from "serial" to "idle", ends.
FairSpec ==
    /\ Spec
    /\ WF_vars(Caller)
    /\ WF_phase(phase = "serial" /\ phase' = "idle")
    /\ \A k \in 1..MaxChunks : WF_vars(k \in DOMAIN worker /\ Work(k))

-----------------------------------------------------------------------------
(* Properties. *)

\* What a serial walk of the whole body delivers.
Serial == Walk(body, AtStart(1), Eof, encodings, selected, MaxTick)

Expected == SelectSeq(Serial.records, LAMBDA r : r.time > call.after /\ r.time <= call.end)

\* Opening in parallel finds what a serial walk finds: a body it accepts is
\* accepted, with the same encodings and the same last tick.
OpenAgrees ==
    parallel => LET w == SerialOpen(body)
                IN /\ Succeeded(w)
                   /\ encodings = w.encodings
                   /\ lastTime = IF w.span = None THEN 0 ELSE w.span.last

\* The value of s at the end of tick t, None before its first record.
NetValue(s, t) ==
    LET upto == SelectSeq(Serial.records, LAMBDA r : r.signal = s /\ r.time <= t)
    IN IF upto = <<>> THEN None ELSE upto[Len(upto)].value

\* The merged prefix gives every signal the value and the change time that the
\* ticks of the whole body define, although no worker saw more than its chunk.
PrefixExact ==
    (resume # None /\ resume.samples # None) =>
        \A s \in selected :
            LET known == resume.samples[s]
                changes == {t \in 1..resume.upto :
                              NetValue(s, t - 1) \notin {None, NetValue(s, t)}}
            IN IF known = None THEN NetValue(s, resume.upto) = None
               ELSE /\ known.value = NetValue(s, resume.upto)
                    /\ IF known.changedAt = None THEN changes = {}
                       ELSE /\ known.changedAt \in changes
                            /\ \A t \in changes : t <= known.changedAt

\* A walk from the position a read or a merged prefix left delivers exactly the
\* records after the tick they ended with.
ResumeExact ==
    resume # None =>
        LET rest == Walk(body, resume.position, Eof, encodings, selected, MaxTick)
        IN /\ Succeeded(rest)
           /\ rest.records = SelectSeq(Serial.records, LAMBDA r : r.time > resume.upto)

\* The position handed over with a record is a checkpoint: a walk from it starts
\* with that record and delivers all that follow, in and out of dump blocks.
CheckpointExact ==
    \A i \in 1..Len(delivered) :
        LET p == delivered[i].position
            rest == Walk(body, p, Eof, encodings, selected, MaxTick)
        IN /\ Succeeded(rest)
           /\ rest.records =
                SelectSeq(Serial.records, LAMBDA r : r.position.offset >= p.offset)

\* A worker panicked, or may have done so in a call that did not succeed.
Panicked ==
    /\ "panic" \in Faults
    /\ \/ phase = "idle" /\ result # "ok"
       \/ \E k \in DOMAIN worker : worker[k].state = "panicked"

\* The caller sees the serial order: what has been delivered is always a prefix
\* of what a serial walk delivers, positions included, whatever the order in
\* which the workers ran, failed or were stopped.  Only after a worker's panic,
\* which the caller hears of when all are joined, may later chunks follow a gap.
DeliversSerially ==
    Panicked \/ (/\ Len(delivered) <= Len(Expected)
                 /\ delivered = SubSeq(Expected, 1, Len(delivered)))

\* A read that succeeds has delivered everything, even when the file shrank or
\* a worker panicked while it was read.
SuccessComplete == (phase = "idle" /\ result = "ok") => delivered = Expected

\* The budget of parallel_full: per chunk at most QUEUED_BATCHES batches wait in
\* the channel, and no batch, queued, being filled or sent, or in the hands of
\* the consumer, has more than batch_len records.
Budget ==
    /\ held # None => Len(held) <= BatchLen
    /\ \A k \in DOMAIN worker :
         /\ Len(worker[k].batch) <= BatchLen
         /\ Len(queue[k]) <= QueuedBatches
         /\ \A i \in 1..Len(queue[k]) :
              queue[k][i].ok => Len(queue[k][i].records) <= BatchLen

\* Chunks the consumer has not reached do not fill their channels with small
\* batches: of those queued or being sent, only the first two and the last one
\* may be short.
FutureBatchesFull ==
    \A k \in DOMAIN worker :
        LET w == worker[k]
            queued == {i \in 1..Len(queue[k]) :
                         queue[k][i].ok /\ Len(queue[k][i].records) < BatchLen}
        IN k > active =>
             Cardinality(queued) + (IF w.state = "send" /\ Len(w.batch) < BatchLen THEN 1 ELSE 0)
               <= 2 + (IF w.state \in {"run", "send"} THEN 0 ELSE 1)

\* Every call returns: no worker waits for a consumer that waits for it, and a
\* stopped query does not wait for workers that nobody hears.
ReadReturns == result = "running" ~> phase \in {"idle", "failed"}

\* Positions can be read on from: the one a read or a merged prefix left, and the one
\* handed over with a record (read_from, parallel_prefix).
PositionsExact == ResumeExact /\ CheckpointExact

\* Workers together give what a serial read gives: its order at any time, all of it
\* when the read succeeds (parallel_full).
ReadsSerially == DeliversSerially /\ SuccessComplete

\* The memory that parallel_full budgets is enough, and waiting chunks use theirs well.
MemoryBounded == Budget /\ FutureBatchesFull
=============================================================================
