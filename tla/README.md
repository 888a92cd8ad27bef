# A TLA+ model of ondas

ondas is a read-only waveform library. It opens a recorded simulation (VCD,
FST, GHW, and through vendor SDKs FSDB, SHM, WLF and WDB), lets a caller select
signals, slices and concatenations of them, and answers queries about their
values over time. This directory holds TLA+ modules of the parts of it that
keep state, TLC configurations that check them on small instances, and TLAPS
proofs of the properties that matter most.

Paths below are relative to the repository (`src/` is the crate's source
directory, `native/` its C and C++ shims). `PROJECT.json` maps every definition
to the lines it models and lists the components, runs, mutants, hazards and
theorems.

## Inventory

| Part | State | Operations | What makes it correct |
|---|---|---|---|
| Query engine (`src/query/engine.rs`) | the slots of a traversal; the replay and the checkpoint a `Selection` keeps between calls | `scan_each`, `sample_visit`, `samples_at`, `query`, and under them `point_states`, `read_ticks_from`, `complete_tick` | an answer depends on the source alone, not on the calls before it; nothing missing, nothing twice, in order |
| Composition plan (`src/query/engine/composition.rs`) | computed slots | `Plan::new`, `Computation::complete` | every selected signal has a slot; a computed bit follows its operand at every tick |
| Owned traces (`src/query.rs`) | the saved records of a scan | `Trace::sample` | a trace answers as the source would |
| VCD reader (`src/backends/vcd.rs`) | a resume position; per full read a worker and a channel per chunk | `open`, `parallel_open`, `parallel_prefix`, `parallel_full`, `read_from` | workers together give what a serial read gives; nobody waits forever |
| FST reader (`src/backends/fst.rs`) | attributes pending during an import; none between calls | `open`, `read`, `read_candidate_times` | attributes reach the entry they describe; candidate times once, in order, and only of completed ticks |
| GHW reader (`src/backends/ghw/`) | one parked validated source per process, a position index per source | `open_with`, `parse`, `read`, `Cache` | a parked source is used for the same content only; the index answers as the walk does |
| FSDB reader (`src/backends/fsdb.rs`, `native/fsdb.cpp`) | an SDK owner and a traversal under a process lock | `open`, `sample_bits`, `read_from` | what is begun is ended, the lock is never taken twice; points equal a chronological read |
| SHM reader (`src/backends/shm.rs`, `native/shm.cpp`) | one SDK session per process, streams with suspended histories, prepared points, routes of imported objects | `open`, `sample_bits`, `read_from`, drop | readers that interrupt each other lose and repeat nothing; routes lead to the objects that were imported |
| WLF reader and worker (`src/backends/wlf.rs`, `wlf/worker.rs`, `native/wlf.c`) | open files, their native owners and queries, the process resolution, one idle owner | `open`, `begin`, `next`, `sample_bits`, `end`, `close`, `reset` | one resolution at a time; suspended queries resume without loss or repetition; the idle owner describes the file on disk |
| WDB reader (`src/backends/wdb.rs`) | one idle owner, taint | `open`, `sample_bits`, `read_from`, drop | an owner is reused for unchanged content and only when it never failed |
| Reader dispatch (`src/backends/mod.rs`) | the reader in use | format detection | the engine treats each reader by what it can do |
| Hierarchy and paths (`src/hierarchy.rs`, `hierarchy/path.rs`) | immutable after open; a lazy name index | lookups, `parse`, `Display`, `to_verilog` | a path finds exactly its declarations; text and path are inverse |
| Signal composition (`src/waveform/composition.rs`, handles in `hierarchy.rs`) | the definitions of a waveform | `concat`, `slice`, `validate` | a handle denotes the bits it was made of, and stays valid |
| Metadata, values, time, errors | immutable | accessors, conversions | no interacting state |

How the parts interact. `Waveform` owns one reader and the hierarchy. A
`Selection` borrows the waveform, plans its slots once, and calls the reader
synchronously; the reader calls back for every record, the engine calls the
caller back for every tick. Callers may break, fail or panic in any callback.
Concurrency is inside the readers: VCD opens and reads with scoped threads, all
WLF readers of the process share one worker thread, all WDB readers share the
SDK mutex and the idle slot, all SHM readers share one SDK session, which a
nested read of another reader takes away, GHW opens share one parked source, and
writers of files run outside the process.

What is hard: caches that outlive a call (`replay`, `checkpoint`, idle owners,
the resume position) and may be stale; stops, errors and unwinds at any
callback; ticks that are split by a chunk, a batch or a suspension; results of
parallel workers that have to equal a serial read; channels whose ends wait for
each other; a file that changes between two looks at it.

## Modules

| Module | Models | Extends |
|---|---|---|
| `QueryEngine` | engine, computed slots, owned traces | |
| `MCQueryEngine` | its instances: all sources over a pool of records, plans, windows | `QueryEngine` |
| `QueryEngineProofs` | its theorems on types, caches and the traversal | `QueryEngine`, `LeastElement` |
| `QueryAnswersProofs` | its theorem on the states that callers receive | `QueryEngineProofs` |
| `QueryCompleteProofs` | its theorems on counts, completeness, owned traces and order | `QueryAnswersProofs`, `FiniteSetTheorems` |
| `VcdWalk` | the body walk of the VCD reader, as an operator on token sequences | |
| `VcdParallel` | open, merged prefix, streamed and resumed reads | `VcdWalk` |
| `MCVcdParallel` | its instances: all bodies over a pool of tokens | `VcdParallel` |
| `VcdParallelProofs` | its theorem on memory | `VcdParallel`, `TLAPS` |
| `WlfWorker` | the worker, its jobs, its callers, the shim's scan | |
| `MCWlfWorker` | its recordings | `WlfWorker` |
| `WlfWorkerProofs` | its theorems | `WlfWorker`, `LeastElement` |
| `WlfPoint` | point reads of the WLF worker, as operators | `Optional` |
| `RecordStream` | what a reader promises a query (abstract) | |
| `ShmHistory` | one history of an SHM stream: decoding, filling, certified points | |
| `ShmStream` | SHM readers in one process; implements `RecordStream` | `ShmHistory` |
| `MCShmStream` | its databases, reads and points | `ShmStream` |
| `ShmStreamProofs` | its theorems on sessions, points and the refinement of `RecordStream` | `ShmStream`, `LeastElement` |
| `GhwBody` | the GHW walk, the index and reads by either, as operators | |
| `GhwCache` | opening through the cache, and reading | `GhwBody` |
| `MCGhwCache` | its bodies and selections | `GhwCache` |
| `Fsdb`, `Fst`, `ShmImport` | imports, reads and points of these readers, as operators | `Optional` (not `ShmImport`) |
| `Compose` | handles, concatenation, plans | |
| `Lookup`, `PathText` | name lookup; paths as text | |
| `Adapters` | one action per algorithm above, and what each promises | all of these, `WlfPoint` |
| `MCAdapters` | their inputs | `Adapters` |
| `Optional` | the absent value | |
| `WdbOwner` | owner reuse between threads | |
| `WdbOwnerProofs` | its theorems | `WdbOwner`, `TLAPS` |
| `LeastElement` | least and greatest elements, iteration: the inductions of the proofs | `TLAPS` |

### QueryEngine

State. `replay` and `checkpoint` are the two fields of `Selection`. `slots`,
`active`, `cursor`, `pendingTime`, `replayStart`, `kept` and `considered` are
locals of `read_ticks_from`; `emitted`, `todo`, `prevTick`, `prevEvents`, `acc`
those of the operations. `call` and `phase` say which operation is where.
`received` is what the call has handed to its caller: a sequence with one parcel of
observations for every step that handed something over (a completed tick, or the
reply at the end), so that telling something twice shows. `out` is the set of all
these observations; the order of the callbacks inside one parcel is not kept.

Actions. `Scan`, `SamplesAt`, `Query`, `Sample` and `ShmReplaySample` start an
operation; `PointSkip` to `PointFail` are the branches of `point_states`;
`ParallelPrefix` takes a VCD prefix; `Load` chooses the snapshot to resume;
`Deliver`, `TickPassed`, `TickBoundary`, `EndOfRecords` and `ReadFails` are the
reader's callbacks; `Compute`, `FinishTick` and `StopTick` complete a tick;
`Store`, `Reply` and `StopReply` end the call.

Abstractions. A source is a sequence of records with its meaning `obs`, which
assumption `MeaningAssumption` ties to the records. A reader is its `kind`: it
may report positions (VCD), tick boundaries (GHW), neither (FST), or seek (FSDB,
SHM, WLF, WDB). A position is a record index. The byte limit of checkpoints is
a nondeterministic choice. The plan (which slots, in which order) is a constant.

### VcdWalk and VcdParallel

A body is a sequence of tokens that the lexer lets through (`IsToken`), an offset an
index into it, and the walk (`walk_inner`) a function over prefixes. `ParallelOpen`
and `ParallelPrefix` are single steps: their workers share nothing and are joined before anything is
used. `parallel_full` is modelled thread by thread: `Spawn`, `Receive`, `Visit`,
`NextChunk`, `Join` of the caller; `WorkerTurn`, `WorkerProgress`, `WorkerSends`
and their failures per worker; one bounded queue per chunk. A file that shrinks
(`"short"`), failing reads, panicking workers and threads that cannot be started
are in `Faults`. Relaxed atomics appear as one variable each: `canceled` only
makes workers stop earlier and `active` is written by the consumer alone.

### WlfWorker and WlfPoint

`files`, `resolution` and `idle` are `State` of the worker, `sdk` what the SDK
really has selected, `job` the job on the worker's thread, `callers` the threads
of the readers. `reset` is `Suspended`; `file()` is `FileKept`, `FileReopened`
and `FileFails`; `next()` is one step per record so that skipping, transfer, the
end of a batch and errors are apart. The scan of `native/wlf.c` fills batches of
whole ticks (`Refilled`, `Broken`). A digest stands for its content and a session
identifier for its reader, since neither repeats. The `finished` flag of a query
and the answer to a reader without one are left out: `read_from` stops asking at
the first finished or failed batch.

`WlfPoint` is `sample_bits` as an algorithm: the suffix of length `Lookback`, or
one that the SDK suggests for a single whole signal, the projections it resolves,
and the shared scan for the rest, against `Reference`, which reads in time order.
`Adapters` calls it.

### WdbOwner

`idle` is the slot `IDLE`; a thread is at one step of `Reader::open` (`hash`,
`take`, `evict`, `native`, `import`, `retain`), has a reader (`ready`, `reading`)
or unwinds. Each action is one region of the SDK mutex, or one access to the
file. `seen` is the file's history since the open began and is only used to
state what a reader may show.

Assumptions about files, for WLF and WDB. The crate's documentation asks that
the input files of live readers do not change, so `Replace` of `WlfWorker` spares
them. Files that are being opened may be replaced; the replacement then has a
stamp (device, inode, size, times) that this open has not met. Between opens a
stamp may be restored or be too coarse: then only the digest tells contents
apart. `ResolutionAgrees` is stated for files that do not change during an open
(`Overlap = FALSE`), because the header and the body of a replaced file may
disagree.

### RecordStream, ShmHistory and ShmStream

`RecordStream` says what a query may expect of a read: a fixed sequence of
records, delivered from the first on in this order, with success only after the
last one. `ShmStream` is shown to implement it for every reader at once
(`KeepsPromise`, checked and proved), with the records of the selected histories as the
promise.

`native[r]` is the shim's object (stream, batch, prepared point), `active` the
global `active_stream`. A stream holds a session or is suspended; activating one
opens a session, which suspends whatever stream was active, and moves every
unfinished history behind the tick its last record completed (`CursorOf`).
`History::fill` merges the entries of a tick and stops at gaps and at values it
cannot decode; `Stream::next` takes the earliest record; `ondas_shm_next`
collects batches. Every region of the SDK mutex is one action, so another
reader may act between any two of them: nested in the visitor or on another
thread. A session may fail to open; a visitor may break or unwind. Values,
strings and their encodings are model values.

### GhwBody and GhwCache

A body is a sequence of tokens; `Walk` folds it into events and an end state, the
window of buffered bytes included, because bulk records are decoded only inside
it. `BuildIndex` consumes the same events into frames and per-group streams with
run-length encoded distances, or gives up at its byte limit; `IndexRead` answers
from them and `Read` assembles signals from scalars. `GhwCache` opens files on
several threads: the look at the slot, the scan of the content, the take, the
parse and the park are separate actions, and a file may still be written.
A digest stands for its content. A visitor that stops in the middle of a walk is
left out: nothing is kept from a read.

### Adapters and its algorithms

`Adapters` gives each pure algorithm an input (`task`) and compares its answer
with a reference that is stated without the algorithm:

- `Fsdb`: the shim's tree callback and `Reader::open` as folds over callbacks;
  `ondas_fsdb_next` and `read_from`; `final_bits` and the walk back to the last
  change; and each operation as the sequence of what it does to the SDK lock, with
  its locals dropped in reverse order, for every place where it can fail.
- `Fst`: `Reader::open` as a fold over hierarchy entries, with what is pending;
  `read` over sections, and `read_candidate_times` with a visitor that may stop. How the library delivers
  sections (`Callbacks`) is external.
- `ShmImport`: joining the components of a directory, the import of objects with
  their routes, and the routes followed in a later session, which may show
  renamed, reshaped or reordered objects. Histories that several declarations
  share are those of a build with alias identities; in the other build every
  history is its own.
- `Compose`: calls accumulate on one waveform: slices by position and by HDL index,
  concatenations with their checks, then a plan over all handles.
- `Lookup`: child links, name index, lookups. Names are numbers, for their order.
- `PathText`: parser, both spellings and the selector, over the characters the code
  tells apart. Quoted names are JSON strings (external).
- `WlfPoint`: see above.

## Runs

| Run | Question |
|---|---|
| `mixed` | A vector, a slice, an event and a real, on the chronological readers and on WLF: types, faithful caches, exact states and counts, complete results in order and without repetition, faithful saved traces. |
| `seeking` | Whole signals: point reads and their snapshots on the seeking readers, up to the last representable tick, an SHM that declines to seek, and VCD prefixes. |
| `composed` | A concatenation and a slice of it; the inductive invariant of the proofs. |
| `repeated` | Repetitions of one WDB source, whose point states are derived. |
| `vcd_bodies` | A body that opens in parallel opens serially, with the same encodings and last tick; merged prefixes and resume positions equal those of a serial read; the position of every record is a checkpoint, in and out of dump blocks. |
| `vcd_threads` | Serial order and completeness under all schedules, stops, failed reads and failed spawns; short files and panics never look like success; waiting chunks send full batches, within the memory budget; workers, channels and the joining caller never wait for each other, and every read returns. |
| `wlf_reads` | Two readers suspend each other: order, exactly once, whole ticks, one resolution, and all of them finish. |
| `wlf_idle` | Writers during and between opens, SDK calls and decodes that fail: identities, reused owners, clean idle owners, errors after the good ticks. |
| `wdb_owner` | Two threads, two files and a writer, with errors and panics: identities, freshness, a clean slot. |
| `shm` | Two SHM readers interrupt each other, with sessions that do not open and visitors that break or panic: one session, exact certified points, nothing left behind, errors only where a history is broken, the promise of `RecordStream`, and every read returns. |
| `ghw` | Two threads open a file that is being written and another through the cache: complete and current sources, also the parked one; index and walk give the same reports; reports of a tick lie between its `Tick` and the one before. |
| `algorithms` | The algorithms of `Adapters`: imports, reads, points and the lock of FSDB; imports and candidate times of FST, the latter also when the visitor stops; sessions and routes of SHM; points of WLF; handles and plans; lookups; paths. |

Some checked properties are conjunctions of named parts, each with its own comment
in its module:

| checked | parts |
|---|---|
| `QueryEngine.AnswersExact` | `StatesSound`, `EventsSound`, `SuccessComplete`, `SavedTraceFaithful` |
| `VcdParallel.PositionsExact` | `ResumeExact`, `CheckpointExact` |
| `VcdParallel.ReadsSerially` | `DeliversSerially`, `SuccessComplete` |
| `VcdParallel.MemoryBounded` | `Budget`, `FutureBatchesFull` |
| `WlfWorker.WorkerInv` | `TypeOK`, `ResolutionAgrees` |
| `WlfWorker.InOrderOnce` | `ExactlyOnce`, `WholeTicks` |
| `ShmStream.SessionInv` | `TypeOK`, `OneSession` |
| `ShmStream.CleanEnds` | `KeepsNothing`, `ErrorsHaveCause` |
| `GhwCache.ReportsExact` | `ReadExact`, `TicksClose` |
| `Adapters.ImportsExact` | `FsdbImportExact`, `FstImportExact` |
| `Adapters.ReadsExact` | `FsdbReadExact`, `CandidatesExact` |
| `Adapters.PointsExact` | `FsdbSampleExact`, `SampleExact` of `WlfPoint` |
| `Adapters.RoutesExact` | `SessionJoins`, `ShmRoutes` |
| `Adapters.HandlesExact` | `HandlesMean`, `PlanComputes` |
| `Adapters.NamesExact` | `LookupExact`, `ParseInverts` |

The type invariant of `WdbOwner` is a conjunct of the invariant its proofs rest on.

Every property has a mutant, and a conjunction has one for each of its parts: a
changed definition (a dropped guard, a missing reset, an end taken too early)
under which TLC finds the property violated with the same configuration. Mutant
definitions stand next to the definition they change.

### Bounds, and why they are enough

- `QueryEngine`: all sources of two or three records at three or four ticks with
  two values per signal; every sequence of calls over four windows, one batch
  and up to four points. Two records let one tick hold two writes, or two ticks
  one each; three let a snapshot lie between two of them. Call sequences are not
  bounded: what a call leaves is the caches, and the state space is closed under
  calls. `MaxTick = 3` makes the successor of the last tick reachable,
  `MaxCount = 2` makes event counts overflow.
- `VcdParallel`: all bodies of up to five tokens (four where dump blocks, comments
  and encodings take part) and a closing tick, with all cuts into two or three
  chunks, for the sequential questions; three bodies for the threads, chosen so that a
  tick is split, a chunk has no selected record, and a chunk overfills its channel.
  Channels hold two batches of two records, which is enough for every channel to be empty, full and in
  between.
- `WlfWorker`: two readers, two recordings of different resolution, four
  records of which two share a tick, quotas of one and two, so that a quota is met
  inside a tick. Any number of jobs. `wlf_reads` asks for the windows `[0,2]` and
  `[1,1]`. `wlf_idle` has two readers of one file, three contents (two of one resolution), three stamps and two replacements, so that a
  stamp can be restored.
- `ShmStream`: two readers, three histories (bits, events, strings) with values that
  repeat and change inside a tick, gaps, an event count that overflows and a string
  that does not decode; five reads and four points; first batches of one and later
  ones of two records. Any number of calls.
- `GhwCache`: two threads and two files, three opens; bodies with two lists of one tick in
  two sections, equal and unequal distances between frames, one list more than the
  index and the cache hold, damaged sections and cuts of a file being written.
- `Adapters`: all sequences of up to four callbacks or hierarchy entries over eight
  kinds, and of up to six over fewer; all histories of up to three records on four
  ticks; directories of up to three components; object trees of up to three objects
  with every one of them renamed, reshaped or reordered; up to three calls on a
  waveform of two or four signals; trees of three scopes and two variables; names of
  up to three characters of the ten classes. `MaxWidth = 4` makes widths overflow.
- `WdbOwner`: two threads, two files, one replacement. The proofs below remove
  these bounds.

Runs check for deadlock except where the system may stop: a VCD reader whose
open failed, `GhwCache`, whose opens are counted, and `Adapters`, which answers one
task.

### Fairness

- `QueryEngine`: none. A call is one synchronous pass over finitely many records;
  that it returns is not at risk and not checked.
- `VcdParallel`: every thread that can run does (`WF` for the caller and for each
  worker), and a serial walk over a finite body ends.
- `WlfWorker`: the worker's thread runs its job (`WF(JobStep)`). Jobs wait in a
  FIFO channel, so one that was sent is served although others come in between:
  strong fairness for `NextBatch` and `EndTraversal`, whose jobs are sent by the
  traversal itself. Visitors return (`WF(Visit)`). Opening, beginning, stopping
  and closing are not forced.
- `ShmStream`: a read runs on its caller's thread and the SDK mutex, held for one
  native call at a time, is granted eventually: a busy reader moves on
  (`WF` per reader). Other readers may suspend it at every batch.

## Proofs

A proof needs no bound: its constants are any that satisfy the named assumptions,
which every run evaluates for its own instance.

### The query engine

`QueryEngineProofs` proves, for every plan, every set of sources, every reader
and every set of calls:

- `TypeCorrect`: `Spec => []TypeOK`; in particular event counts stay in range.
- `CachesStayFaithful`: `Spec => []CachesFaithful`. Whatever calls, stops, errors
  and unwinds came before, the replay and the checkpoint stand for the source.
- `EngineStaysSound`: `Spec => []EngineInv`, the invariant both come from.

`CachesFaithful` is not inductive: caches are made from the locals of a
traversal. The invariant is `hist \in Histories /\ EngineInv`, where `EngineInv`
adds `TypeOK` and `ReadInv`: between ticks the slots hold the states after some
tick and the cursor separates the records up to it from the rest (`Settled`);
inside a tick the records before the cursor are pending over the entering states
(`TickOpen`); while it completes, the computed slots that are done show the
tick's meaning (`TickClosing`). Lemmas show how the state of a slot moves through
quiet ticks and through a commit. The assumptions are `PlanAssumption` (operands
come before their users, widths fit), `SourceAssumption` (records are in time
order) and `MeaningAssumption`. Run `composed` checks `EngineInv` with TLC.

`QueryAnswersProofs` builds on it and proves `StatesStaySound`:
`Spec => []StatesSound`, every state handed to a caller is the one the source
defines at its tick. Its invariant `AnswerInv` adds to `EngineInv`: nothing that
is still due to the caller lies behind the traversal (`DueInv`: no tick at or
after a requested one has been completed, `Ahead`), a replay without a pending
tick was read to its end without a record (`Quiet`), after the last record the
slots hold the states of the end of the range (`EndInv`), and what a point read
collected is the state at its tick (`AccInv`). The argument that is used
throughout is that a state moves between two ticks that have the same records
behind them (`AfterMoves`): this is why an entering state, a row of a quiet tick
and a resumed snapshot are right although their ticks were never read.

`QueryCompleteProofs` proves the rest of what a caller may rely on:

- `AnswersStayExact`: `Spec => []AnswersExact`. Event counts are the totals of their
  ticks, a call that succeeds has left nothing out, and the trace a scan saves
  answers as the source would.
- `DeliveriesInOrder`: `Spec => []InOrder`. Every parcel a call hands over tells a
  tick later than all before it and nothing about an earlier one; entering states are
  only in the first. It holds for scans, queries, batches and samples alike, and as
  `received` is a sequence, a tick, candidate or row that is told again violates it.

Its invariant `ExactInv` adds to `AnswerInv`, clause by clause:

- the slots, and every snapshot with a pending tick, count the occurrences of that
  tick up to the cursor (`CountInv`, with `Sums` as the running totals), and
  `sample_visit` has collected the total (`AccCounts`). Without the clause on
  snapshots a resumed tick could count twice;
- a query remembers the counts of the last tick it completed, and no completed tick
  of its range is later (`PrevInv`); otherwise the samples before a candidate could
  show the counts of another tick;
- whatever a completed tick (`Done`) has to tell has been delivered (`DoneInv`): this
  is what turns "the records are exhausted" into "nothing was left out";
- what a scan or a query has delivered lies behind the traversal, what a batch has
  delivered lies before every tick it still owes, nothing comes before the entering
  states or a sample (`OutPlace`), and a slot has one change per tick (`OutShape`);
  `InOrder` is inductive together with `OutPlace` (`FollowsAfter`);
- a call under way is not answered yet (`RunInv`).

That a saved trace is faithful (`TraceFaithful`) then follows in one state: a value
stays from the last saved change on (`NoChange`), and a saved change has a predecessor
in the trace exactly when the source had a value before it (`UnknownStays`,
`SecondMember`).

### The WLF worker

`WlfWorkerProofs` proves, for any number of readers, paths, recordings, windows
and replacements, the invariants of both WLF runs: `WorkerStaysSound`
(`WorkerInv`), `IdentitiesAreTrue` (`IdentityTrue`), `IdleOwnersAreClean`
(`IdleClean`), `OpensAreFresh` (`OpenFresh`, an action property),
`RecordsExactlyOnce` (`ExactlyOnce`) and `RecordsInOrderOnce` (`InOrderOnce`).

The invariant has three parts. The shape of the state says which file, job and
thread belong together (`ReaderShape`, `JobShape`). The part on owners says that
the stamps an open has met tell contents apart, and that the owner in hand is of
a content it has met (`OwnerInv`, `FileInv`, `OpenInv`, `IdleInv`). The part on
traversals gives every query a position in its recording: what the visitor has is
the piece of the range before it, a batch the piece from it on, and the scan's
buffer a piece that ends at a whole tick (`Covers`, `ScanAt`, `Asked`); a suspended
query has only its last record, from which the position is recovered (`FirstFrom`).
Assumed are `WlfAssumption` (the records of a recording are in source order, windows
are not empty, batch limits are positive) and `NoneAssumption` (the absent value is
no record, query or owner).

### VCD threads

`VcdParallelProofs` proves `MemoryStaysBounded`: `Spec => []MemoryBounded`, for every
body, cut, selection, channel capacity, batch length and schedule. A chunk that is
not drained yet sends at most three short batches: none before its first record,
one in its first tick, a second at the next tick, a third only as its last
(`Startup`). So a full channel holds full batches but for those three, and with the
batch a worker is filling and the one being visited the memory stays in the budget
that `parallel_full` is given. `MemoryInv` types walks, workers and channels
(`ReaderOK`, `ThreadsOK`) and states `Startup` of the chunks to come (`BatchesOK`).
Assumed are `WalkAssumption` and `ParallelAssumption`; the latter says that bodies
consist of tokens that the lexer lets through (`IsToken`).

### SHM sessions

`ShmStreamProofs` proves, for any number of readers, files, reads and points, and any
batch limits:

- `SessionsStaySound`: `Spec => []SessionInv`. SST2 has one session; a stream has it
  exactly while it is the active one, and cursors exist only inside it, however
  readers interrupt one another in the middle of a traversal, fail or close.
- `PointsStayExact`: `Spec => []SampleExact`. A certified point has the net value of
  the history at its tick and the tick at which that value came into force.
- `EndsStayClean`: `Spec => []CleanEnds`. Between calls a reader has no rows and no stream
  that has been read from (`NothingIsKept`); no row is out of order; a read fails
  only where a selected history is broken, after everything that precedes it, or when no
  session could be opened.
- `PromisesAreKept`: `Spec => KeepsPromise`. Every reader implements `RecordStream`: a
  read that starts is `Begin`, a visit is `Deliver` or `Stop`, the end of a traversal is
  `Succeed` or `Fail`, and what other readers do in between is a stutter.

The first invariant, `StreamsInv`, says what makes a native call safe: inside a session
every history that is not exhausted has a cursor at an entry, a ready record is one of its
own history, and a traversal under way has a stream. `SessionInv` follows from it.

The second, `ReadsInv`, says for every reader how much of its promise is still to come.

- `HistoryExact`: the tick that a history has completed determines its cursor and the
  records it has left. The cursor of a suspended history is lost, and this is what allows
  it to be placed again; `Left`, the records that a stream has left, is the same before a
  suspension, during it and after reopening.
- `QueueOK`: the rows of a batch are in order, before everything the stream has left.
- `MidRead`: what the Rust reader has taken precedes what is still to come, and what its
  visitor has received is the beginning of the promise.
- A prepared stream, which a declined point leaves, is unread and exact for its own
  selection and end; a read that is given one has all of its promise before it.

None of this is implied by `SessionInv` or by the refinement: without the completed ticks
the step after a suspension could repeat or skip records. A step of one reader does nothing
to another than to suspend its stream (`Undisturbed`), so the actions are proved on one
reader's record. The order of two records is by tick and then by identity; the promise is
the sorted sequence of a finite set, and taking its least element moves one record from
what is to come to what was delivered.

The loops of `History::fill` and of `ondas_shm_next` are recursive functions; they are
proved by iterating a step that maps a set of states to itself (`Iteration` and `StaysIn`
of `LeastElement`).

Assumed are `HistoryAssumption` (there are finitely many histories), `StreamAssumption` (a
history has an entry at least), `NoneAssumption` and `OrderAssumption`: entries are in
source order, which `advance` insists on; only an event can be quiet, only a string can
have bytes outside ASCII; and the types that `point_type` admits are formatted as 0, 1, x
and z, so that their values always decode. TLC evaluates them in the run of `MCShmStream`.

### WDB owners

`WdbOwnerProofs` proves, for any number of threads, paths, contents, stamps and
replacements, from the assumption `WdbAssumption` (types of two constants):

- `IdleStaysClean`, `IdentityStaysTrue` and `OpensStayFresh`: the invariants
  `IdleClean`, `IdentityTrue` and `OpenFresh` of `WdbOwner`.

Their invariant `Inv` says, of an open in progress, that the current file is
among those seen, that the stamps seen tell contents apart (`SeenInv`; this is
where the new stamp of a replacement is used), and that an identity which would
still pass `identity_holds` is that of the owner's content (`OwnerInv`). A step
of one thread concerns no other (`OneReader`), so the actions are proved one by
one on the thread's record.

### Induction

The provers cannot instantiate an induction schema. `LeastElement` derives what the
proofs need from the well-foundedness of the naturals: a least counterexample
(`LeastNat`), a greatest position (`GreatestPosition`), that a function from a set
to itself can be iterated and stays in the set, and that running totals exist.

### Only model-checked

All liveness (fairness is out of the prover's reach); the VCD properties other than `MemoryBounded`, which compare
walks of chunks with one walk; `GhwCache` and `Adapters`, whose modules declare recursive operators,
which the prover does not accept.

## Not modelled, and why

- Byte formats: the VCD header and token syntax, GHW wire, types and hierarchy
  tables, FST decoding (an external crate), value digits, name normalisation,
  enumeration labels, timescales. They are parsers without interacting state.
- The vendor SDKs. They enter as what the shims rely on: records in order, one
  resolution or one session per process, errors at any call.
- The import of WDB and WLF declarations and their values; the WLF namespace guard,
  process-exit cleanup of WDB, lock poisoning.
- A GHW visitor that stops inside a walk; the arithmetic of the GHW digest.
- The byte limit of a WLF batch (`WLF_BATCH_BYTES`): `WlfWorker` ends a batch after the
  tick that meets the record quota only. Either limit ends it after a whole tick.
- The entering record that the WLF SDK makes up at the start of a scan (STARTLOG) in
  the chronological reads of `WlfWorker`. Point reads have it (`WlfPoint.Scanned`).
- Declared ranges: two declarations of one FSDB signal that differ in their ranges
  alone are one variable in `Fsdb` and two in the code.
- Format detection and `Waveform::open`: input and output.
- Values, time, errors, the generated in-memory source: data without state.
- Tools, benches, fixtures.

## Plan

1. Done: `QueryEngine` and `WdbOwner` with their proofs; `VcdParallel`, `WlfWorker`,
   `ShmStream` with the refinement of `RecordStream`, `GhwCache`, and the
   algorithms of `Adapters`.
2. Done: proofs of the engine's caches, answers and order of deliveries, of the WLF and WDB owners, of WLF
   deliveries, of the memory of VCD threads, and of SHM
   sessions, points and the refinement of `RecordStream`.
3. Proofs still worth having, in this order: `ReadsSerially` and `PositionsExact` of `VcdParallel` (the walks of
   chunks, one after the other, are the serial walk).
4. Further models worth having: `VcdParallel` and `WlfWorker` as implementations of
   `RecordStream`, and an abstract selection, which answers from the source and
   keeps no cache, implemented by `QueryEngine`.
