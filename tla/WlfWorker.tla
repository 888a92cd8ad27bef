------------------------------ MODULE WlfWorker ------------------------------
(***************************************************************************)
(* The WLF worker: one thread owns every object of the vendor SDK and runs *)
(* one job at a time for any number of logical readers.  The SDK has one   *)
(* resolution for the process, so a job for a file of another resolution,  *)
(* or one that reads another header, closes the native owners of all other *)
(* files; their queries are suspended, reopened when their reader asks     *)
(* again and replayed up to the record that was transferred last.  One     *)
(* owner may wait, idle, for the next open of the same unchanged file.     *)
(*                                                                         *)
(* Readers are callers on any threads, or nested in each other's visitors: *)
(* between two jobs of one reader any other reader may run.  A job is      *)
(* split where a writer of the file may interfere and at every record the  *)
(* SDK hands over.                                                         *)
(***************************************************************************)
EXTENDS Integers, Sequences, FiniteSets

CONSTANTS
    None,
    Readers,      \* logical readers; a session identifier is never reused,
                  \* so a reader also stands for its session
    Paths,
    Recordings,   \* contents of files; a digest stands for its content
    ResolutionOf, \* the resolution in the header of a recording
    History,      \* the records of the selected signals of a recording
    Windows,      \* the ranges that are read
    Stamps,       \* metadata of files: device, inode, size and times
    FirstBatch, FullBatch,  \* records after which the shim ends a batch
    Faults,       \* whether the SDK and the file system may fail
    Overlap,      \* whether a writer may replace a file while it is opened
    MaxRewrites   \* bound: how often a writer replaces a file

\* A record is the tick and the position of its signal in the selection.
Record == [tick : Nat, selection : Nat]
Window == [from : Nat, to : Nat]
Before(x, y) ==
    x.tick < y.tick \/ (x.tick = y.tick /\ x.selection < y.selection)

ASSUME WlfAssumption ==
    /\ History \in [Recordings -> Seq(Record)]
    /\ \A c \in Recordings : \A i, j \in 1..Len(History[c]) :
          i < j => Before(History[c][i], History[c][j])
    /\ Windows \subseteq {w \in Window : w.from <= w.to}
    /\ FirstBatch \in Nat \ {0} /\ FullBatch \in Nat \ {0}
    /\ Faults \in BOOLEAN /\ Overlap \in BOOLEAN
    /\ MaxRewrites \in Nat

VARIABLES
    disk,        \* path -> the recording and the stamp of the file
    rewrites,    \* how often a file was replaced
    sdk,         \* the resolution selected inside the SDK
    files,       \* State.files
    resolution,  \* State.resolution
    idle,        \* State.idle
    job,         \* the job the worker runs
    callers      \* reader -> what its thread is doing

vars == <<disk, rewrites, sdk, files, resolution, idle, job, callers>>

Resolutions == {ResolutionOf[c] : c \in Recordings}
Optional(S) == S \cup {None}
OnDisk == [recording : Recordings, stamp : Stamps]

\* A scan of the shim: the range still to read, the records of the batch that
\* were not handed over yet, and the quota of the next batch.
Scan == [from : Nat, to : Nat, buffer : Seq(Record), quota : Nat,
         finished : BOOLEAN, broken : BOOLEAN]
\* Handle; failed remembers that the SDK reported an error on this owner.
Owner == [recording : Recordings, identity : Optional(OnDisk),
          reusable : BOOLEAN, failed : BOOLEAN, scan : Optional(Scan)]
\* ActiveQuery.  Its finished flag and the answer to a reader without a query
\* are left out: read_from asks no more once a batch was finished or failed.
Query == [from : Nat, to : Nat, last : Optional(Record)]
File == [path : Paths, recording : Recordings, resolution : Resolutions,
         native : Optional(Owner), query : Optional(Query)]
Idle == [path : Paths, resolution : Resolutions, owner : Owner]
Batch == [records : Seq(Record), finished : BOOLEAN, error : BOOLEAN]
Caller == [pc : {"closed", "waiting", "opened", "ready", "asking", "visiting",
                 "ending", "closing"},
           allow : BOOLEAN, panicking : BOOLEAN, window : Optional(Window),
           got : Seq(Record), batch : Optional(Batch), complete : BOOLEAN]
Job == [kind : {"open", "begin", "sample", "next"}, reader : Readers,
        step : {"hash", "reset", "stat", "native", "identity", "import",
                "file", "run"},
        path : Optional(Paths), owner : Optional(Owner),
        before : Optional(Stamps), seen : SUBSET OnDisk,
        records : Seq(Record)]

\* None stands for the absence of a value and is none itself.
ASSUME NoneAssumption ==
    /\ None \notin Record /\ None \notin Window /\ None \notin Query
    /\ None \notin Owner /\ None \notin File

Closed ==
    [pc |-> "closed", allow |-> FALSE, panicking |-> FALSE, window |-> None,
     got |-> <<>>, batch |-> None, complete |-> FALSE]

Init ==
    /\ disk \in [Paths -> OnDisk]
    /\ rewrites = 0
    /\ sdk = None
    /\ files = [r \in Readers |-> None]
    /\ resolution = None
    /\ idle = None
    /\ job = None
    /\ callers = [r \in Readers |-> Closed]

-----------------------------------------------------------------------------
(* Owners and the resolution of the process *)

NewOwner(c, id) ==
    [recording |-> c, identity |-> id, reusable |-> TRUE, failed |-> FALSE,
     scan |-> None]

\* Mutant: an error leaves the owner reusable.
TaintMutant(o) == o

Taint(o) == [o EXCEPT !.reusable = FALSE]

\* An error of the SDK on an owner; the code taints the owner for it.
Failed(o) == Taint([o EXCEPT !.failed = TRUE])

\* content_identity is the content and the stamp, or a miss.
ContentIdentity(p) == {disk[p]} \cup (IF Faults THEN {None} ELSE {})

\* Mutant: the digest is believed without looking at the stamp.
IdentityOfMutant(before, id) == id

\* The identity of an owner: the stamp before the open is that of the digest.
IdentityOf(before, id) == IF id # None /\ before = id.stamp THEN id ELSE None

\* Mutant: reset keeps the native owners.
SuspendedMutant == files

\* reset closes the native owners of all files; their queries stay.
Suspended ==
    [r \in Readers |->
        IF files[r] = None THEN None ELSE [files[r] EXCEPT !.native = None]]

Selected(r) ==
    IF resolution = files[r].resolution THEN files ELSE Suspended

\* A header that was read, or that could not be read.
HeaderRead(p) == {ResolutionOf[disk[p].recording]}
HeaderFailed(p) == {sdk} \cup HeaderRead(p)

Free == job = None

Submit(kind, r) ==
    /\ Free
    /\ job' = [kind |-> kind, reader |-> r, step |-> "file", path |-> None,
               owner |-> None, before |-> None, seen |-> {}, records |-> <<>>]

Reply(r, caller) ==
    /\ job' = None
    /\ callers' = [callers EXCEPT ![r] = caller]

-----------------------------------------------------------------------------
(* open *)

Candidate(p) ==
    /\ idle # None
    /\ resolution = idle.resolution
    /\ idle.path = p
    /\ idle.owner.identity # None
    /\ disk[p].stamp = idle.owner.identity.stamp

\* The idle owner is taken in every case, and closed unless it may be reused.
Open(r, p) ==
    /\ Free
    /\ callers[r].pc = "closed"
    /\ idle' = None
    /\ job' = [kind |-> "open", reader |-> r, path |-> p,
               step |-> IF Candidate(p) THEN "hash" ELSE "reset",
               owner |-> IF Candidate(p) THEN idle.owner ELSE None,
               before |-> None, seen |-> {disk[p]}, records |-> <<>>]
    /\ callers' = [callers EXCEPT ![r].pc = "waiting"]
    /\ UNCHANGED <<disk, rewrites, sdk, files, resolution>>

Opening(step) == job # None /\ job.kind = "open" /\ job.step = step

\* Mutant: an equal stamp is taken for equal content.
ReusesMutant(o, id) == TRUE

Reuses(o, id) == o.identity = id

OpenHash ==
    /\ Opening("hash")
    /\ \E id \in ContentIdentity(job.path) :
          job' = [job EXCEPT !.step = "reset",
                             !.owner = IF Reuses(@, id) THEN @ ELSE None]
    /\ UNCHANGED <<disk, rewrites, sdk, files, resolution, idle, callers>>

OpenReset ==
    /\ Opening("reset")
    /\ files' = Suspended
    /\ resolution' = None
    /\ job' = [job EXCEPT !.step = IF job.owner = None THEN "stat" ELSE "import"]
    /\ UNCHANGED <<disk, rewrites, sdk, idle, callers>>

OpenStat ==
    /\ Opening("stat")
    /\ job' = [job EXCEPT !.step = "native", !.before = disk[job.path].stamp]
    /\ UNCHANGED <<disk, rewrites, sdk, files, resolution, idle, callers>>

OpenNative ==
    /\ Opening("native")
    /\ sdk' \in HeaderRead(job.path)
    /\ job' = [job EXCEPT !.step = "identity",
                          !.owner = NewOwner(disk[job.path].recording, None)]
    /\ UNCHANGED <<disk, rewrites, files, resolution, idle, callers>>

OpenNativeFails ==
    /\ Opening("native") /\ Faults
    /\ sdk' \in HeaderFailed(job.path)
    /\ Reply(job.reader, Closed)
    /\ UNCHANGED <<disk, rewrites, files, resolution, idle>>

OpenIdentity ==
    /\ Opening("identity")
    /\ \E id \in ContentIdentity(job.path) :
          job' = [job EXCEPT !.step = "import",
                             !.owner.identity = IdentityOf(job.before, id)]
    /\ UNCHANGED <<disk, rewrites, sdk, files, resolution, idle, callers>>

OpenImport ==
    LET r == job.reader
        c == job.owner.recording
    IN /\ Opening("import")
       /\ resolution' = ResolutionOf[c]
       /\ files' = [files EXCEPT ![r] =
             [path |-> job.path, recording |-> c,
              resolution |-> ResolutionOf[c],
              native |-> job.owner, query |-> None]]
       /\ Reply(r, [Closed EXCEPT !.pc = "opened"])
       /\ UNCHANGED <<disk, rewrites, sdk, idle>>

\* Declarations that do not decode: the owner is closed, no file is kept.
OpenImportFails ==
    /\ Opening("import") /\ Faults
    /\ resolution' = ResolutionOf[job.owner.recording]
    /\ Reply(job.reader, Closed)
    /\ UNCHANGED <<disk, rewrites, sdk, files, idle>>

\* Reader::open builds the hierarchy; only then may the owner become idle.
Validate(r) ==
    /\ callers[r].pc = "opened"
    /\ \/ callers' = [callers EXCEPT ![r].pc = "ready", ![r].allow = TRUE]
       \/ Faults /\ callers' = [callers EXCEPT ![r].pc = "closing"]
    /\ UNCHANGED <<disk, rewrites, sdk, files, resolution, idle, job>>

\* A header read without opening the file.
ReadMetadata(p) ==
    /\ Free
    /\ files' = Suspended
    /\ resolution' = None
    /\ idle' = None
    /\ sdk' \in IF Faults THEN HeaderFailed(p) ELSE HeaderRead(p)
    /\ UNCHANGED <<disk, rewrites, job, callers>>

-----------------------------------------------------------------------------
(* The shim's scan of a range *)

LastTick(c) == IF History[c] = <<>> THEN 0 ELSE History[c][Len(History[c])].tick

BeginNative(o, w) ==
    [o EXCEPT !.scan =
        [from |-> w.from, to |-> w.to, buffer |-> <<>>, quota |-> FirstBatch,
         finished |-> w.from > LastTick(o.recording), broken |-> FALSE]]

EndNative(o) == IF o = None THEN None ELSE [o EXCEPT !.scan = None]

\* The position of the first record of recording c that is not before tick t.
FirstFrom(c, t) ==
    CHOOSE n \in 1..(Len(History[c]) + 1) :
        /\ n > 1 => History[c][n - 1].tick < t
        /\ n <= Len(History[c]) => History[c][n].tick >= t

\* The records from tick w.from up to tick w.to.
InRange(c, w) ==
    SubSeq(History[c], FirstFrom(c, w.from), FirstFrom(c, w.to + 1) - 1)

\* Mutant: a batch ends at any record.
BoundariesMutant(u) == 1..Len(u) \cup {Len(u)}

\* Where a batch may end: after whole ticks.
Boundaries(u) ==
    {n \in 1..(Len(u) - 1) : u[n].tick < u[n + 1].tick} \cup {Len(u)}

\* The first boundary at which the quota is met, or the end of the range.
BatchLen(u, quota) ==
    CHOOSE n \in Boundaries(u) :
        /\ n = Len(u) \/ n >= quota
        /\ \A k \in Boundaries(u) : k < n => k < quota

Refilled(c, s) ==
    LET u == InRange(c, s)
        n == BatchLen(u, s.quota)
    IN [s EXCEPT !.buffer = SubSeq(u, 1, n),
                 !.from = IF n < Len(u) THEN u[n + 1].tick ELSE @,
                 !.finished = (n = Len(u)),
                 !.quota = IF n > 0 THEN FullBatch ELSE @]

\* Mutant: the failure is forgotten.
BrokenMutant(c, s, n) ==
    [s EXCEPT !.buffer = SubSeq(InRange(c, s), 1, n), !.finished = TRUE]

\* The SDK fails in the middle: only ticks completed before are handed over.
Broken(c, s, n) ==
    [s EXCEPT !.buffer = SubSeq(InRange(c, s), 1, n), !.finished = TRUE,
              !.broken = TRUE]

-----------------------------------------------------------------------------
(* file: the native owner a job needs *)

Running(step) == job # None /\ job.kind # "open" /\ job.step = step

Abandon(r) ==
    [callers[r] EXCEPT !.pc = IF job.kind = "sample" THEN "ready" ELSE "ending"]

SelectResolution(r) ==
    /\ resolution' = files[r].resolution
    /\ idle' = IF resolution = files[r].resolution THEN idle ELSE None

FileKept ==
    LET r == job.reader
    IN /\ Running("file")
       /\ Selected(r)[r].native # None
       /\ SelectResolution(r)
       /\ files' = Selected(r)
       /\ job' = [job EXCEPT !.step = "run"]
       /\ UNCHANGED <<disk, rewrites, sdk, callers>>

Resumed(o, q) == IF q = None THEN o ELSE BeginNative(o, q)

\* A suspended query starts again at its own start.
FileReopened ==
    LET r == job.reader
        p == files[r].path
    IN /\ Running("file")
       /\ Selected(r)[r].native = None
       /\ SelectResolution(r)
       /\ sdk' \in HeaderRead(p)
       /\ \E id \in ContentIdentity(p) :
             files' = [Selected(r) EXCEPT ![r].native =
                Resumed(NewOwner(disk[p].recording, IdentityOf(disk[p].stamp, id)),
                        files[r].query)]
       /\ job' = [job EXCEPT !.step = "run"]
       /\ UNCHANGED <<disk, rewrites, callers>>

\* The open or the restart of the query fails: the file stays suspended.
FileFails ==
    LET r == job.reader
    IN /\ Running("file") /\ Faults
       /\ Selected(r)[r].native = None
       /\ SelectResolution(r)
       /\ sdk' \in HeaderFailed(files[r].path)
       /\ files' = Selected(r)
       /\ Reply(r, Abandon(r))
       /\ UNCHANGED <<disk, rewrites>>

-----------------------------------------------------------------------------
(* begin, sample_bits and end *)

BeginRead(r, w) ==
    /\ callers[r].pc = "ready"
    /\ Submit("begin", r)
    /\ callers' = [callers EXCEPT ![r].pc = "waiting", ![r].window = w,
                                  ![r].got = <<>>, ![r].complete = FALSE]
    /\ UNCHANGED <<disk, rewrites, sdk, files, resolution, idle>>

RunBegin ==
    LET r == job.reader
        w == callers[r].window
    IN /\ Running("run") /\ job.kind = "begin"
       /\ files' = [files EXCEPT
             ![r].native = BeginNative(@, w),
             ![r].query = [from |-> w.from, to |-> w.to, last |-> None]]
       /\ Reply(r, [callers[r] EXCEPT !.pc = "asking"])
       /\ UNCHANGED <<disk, rewrites, sdk, resolution, idle>>

RunBeginFails ==
    LET r == job.reader
    IN /\ Running("run") /\ job.kind = "begin" /\ Faults
       /\ files' = [files EXCEPT
             ![r].native = Failed(BeginNative(@, callers[r].window)),
             ![r].query = None]
       /\ Reply(r, Abandon(r))
       /\ UNCHANGED <<disk, rewrites, sdk, resolution, idle>>

SampleBits(r) ==
    /\ callers[r].pc = "ready"
    /\ Submit("sample", r)
    /\ callers' = [callers EXCEPT ![r].pc = "waiting"]
    /\ UNCHANGED <<disk, rewrites, sdk, files, resolution, idle>>

\* The point scans are ended on every path.
RunSample ==
    LET r == job.reader
    IN /\ Running("run") /\ job.kind = "sample"
       /\ \/ files' = [files EXCEPT ![r].native = EndNative(@),
                                    ![r].query = None]
          \/ /\ Faults
             /\ files' = [files EXCEPT ![r].native = Failed(EndNative(@)),
                                       ![r].query = None]
       /\ Reply(r, [callers[r] EXCEPT !.pc = "ready"])
       /\ UNCHANGED <<disk, rewrites, sdk, resolution, idle>>

\* The guard of read_from is dropped: after success, a break, an error or an
\* unwind.  An unwind that is not caught goes on to drop the reader.
EndTraversal(r) ==
    /\ Free
    /\ callers[r].pc = "ending"
    /\ files' = [files EXCEPT ![r].native = EndNative(@), ![r].query = None]
    /\ callers' = [callers EXCEPT
          ![r].pc = IF callers[r].panicking THEN "closing" ELSE "ready",
          ![r].batch = None]
    /\ UNCHANGED <<disk, rewrites, sdk, resolution, idle, job>>

-----------------------------------------------------------------------------
(* next *)

NextBatch(r) ==
    /\ callers[r].pc = "asking"
    /\ Submit("next", r)
    /\ callers' = [callers EXCEPT ![r].pc = "waiting"]
    /\ UNCHANGED <<disk, rewrites, sdk, files, resolution, idle>>

Reading == Running("run") /\ job.kind = "next"
Owned == files[job.reader].native
Last == files[job.reader].query.last

\* The batch that answers the caller.
Answer(records, finished, error) ==
    Reply(job.reader,
          [callers[job.reader] EXCEPT
              !.pc = "visiting",
              !.batch = [records |-> records, finished |-> finished,
                         error |-> error]])

NextRefill ==
    /\ Reading
    /\ Owned.scan.buffer = <<>> /\ ~Owned.scan.finished
    /\ \/ files' = [files EXCEPT ![job.reader].native.scan =
                      Refilled(Owned.recording, @)]
       \/ /\ Faults
          /\ \E n \in Boundaries(InRange(Owned.recording, Owned.scan)) \cup {0} :
                files' = [files EXCEPT ![job.reader].native.scan =
                            Broken(Owned.recording, @, n)]
    /\ UNCHANGED <<disk, rewrites, sdk, resolution, idle, job, callers>>

\* Mutant: the last transferred record itself is sent again.
TransferredMutant(x) == Last # None /\ Before(x, Last)

Transferred(x) == Last # None /\ ~Before(Last, x)

Pop(fs) == [fs EXCEPT ![job.reader].native.scan.buffer = Tail(@)]

\* Mutant: a replayed record ends the answer where its batch ends.
NextSkipMutant ==
    /\ Reading
    /\ Owned.scan.buffer # <<>>
    /\ Transferred(Head(Owned.scan.buffer))
    /\ files' = Pop(files)
    /\ IF Len(Owned.scan.buffer) = 1 /\ ~Owned.scan.broken
       THEN Answer(job.records, Owned.scan.finished, FALSE)
       ELSE UNCHANGED <<job, callers>>
    /\ UNCHANGED <<disk, rewrites, sdk, resolution, idle>>

\* Replayed after a suspension: the caller has it already.  The end of a batch
\* is not looked at here.
NextSkip ==
    /\ Reading
    /\ Owned.scan.buffer # <<>>
    /\ Transferred(Head(Owned.scan.buffer))
    /\ files' = Pop(files)
    /\ UNCHANGED <<disk, rewrites, sdk, resolution, idle, job, callers>>

BatchEnds(s) == Len(s.buffer) = 1 /\ ~s.broken

NextTransfer ==
    LET x == Head(Owned.scan.buffer)
        records == Append(job.records, x)
    IN /\ Reading
       /\ Owned.scan.buffer # <<>>
       /\ ~Transferred(x)
       /\ files' = [Pop(files) EXCEPT ![job.reader].query.last = x]
       /\ IF BatchEnds(Owned.scan)
          THEN Answer(records, Owned.scan.finished, FALSE)
          ELSE /\ job' = [job EXCEPT !.records = records]
               /\ UNCHANGED callers
       /\ UNCHANGED <<disk, rewrites, sdk, resolution, idle>>

\* A record that does not decode ends the batch with an error.
NextDecodeFails ==
    /\ Reading /\ Faults
    /\ Owned.scan.buffer # <<>>
    /\ ~Transferred(Head(Owned.scan.buffer))
    /\ files' = [Pop(files) EXCEPT ![job.reader].native = Failed(@)]
    /\ Answer(job.records, FALSE, TRUE)
    /\ UNCHANGED <<disk, rewrites, sdk, resolution, idle>>

NextReadFails ==
    /\ Reading
    /\ Owned.scan.buffer = <<>> /\ Owned.scan.broken
    /\ files' = [files EXCEPT ![job.reader].native = Failed(@)]
    /\ Answer(job.records, FALSE, TRUE)
    /\ UNCHANGED <<disk, rewrites, sdk, resolution, idle>>

NextFinished ==
    /\ Reading
    /\ Owned.scan.buffer = <<>> /\ Owned.scan.finished /\ ~Owned.scan.broken
    /\ Answer(job.records, TRUE, FALSE)
    /\ UNCHANGED <<disk, rewrites, sdk, files, resolution, idle>>

-----------------------------------------------------------------------------
(* The caller visits a batch and drops its reader *)

Visit(r) ==
    LET b == callers[r].batch
    IN /\ callers[r].pc = "visiting"
       /\ callers' = [callers EXCEPT
             ![r].got = @ \o b.records,
             ![r].batch = None,
             ![r].complete = b.finished /\ ~b.error,
             ![r].pc = IF b.error \/ b.finished THEN "ending" ELSE "asking"]
       /\ UNCHANGED <<disk, rewrites, sdk, files, resolution, idle, job>>

\* A visitor that breaks or panics, maybe in the middle of a batch.
VisitStops(r) ==
    LET b == callers[r].batch
    IN /\ callers[r].pc = "visiting"
       /\ \E n \in 1..Len(b.records), panics \in BOOLEAN :
             callers' = [callers EXCEPT
                ![r].got = @ \o SubSeq(b.records, 1, n),
                ![r].batch = None,
                ![r].panicking = panics,
                ![r].pc = "ending"]
       /\ UNCHANGED <<disk, rewrites, sdk, files, resolution, idle, job>>

\* Mutant: a suspended file has no owner to keep.
ParksMutant(r) ==
    /\ callers[r].allow /\ ~callers[r].panicking
    /\ \A other \in Readers \ {r} : files[other] = None
    /\ files[r].native = None \/ files[r].native.identity # None

Parks(r) ==
    /\ callers[r].allow /\ ~callers[r].panicking
    /\ \A other \in Readers \ {r} : files[other] = None
    /\ files[r].native # None
    /\ files[r].native.identity # None
    /\ files[r].native.reusable
    /\ resolution = files[r].resolution
    /\ ~(files[r].native.scan # None /\ files[r].native.scan.broken)

Close(r) ==
    /\ Free
    /\ callers[r].pc \in {"ready", "closing"}
    /\ idle' = IF Parks(r)
               THEN [path |-> files[r].path, resolution |-> files[r].resolution,
                     owner |-> EndNative(files[r].native)]
               ELSE idle
    /\ files' = [files EXCEPT ![r] = None]
    /\ callers' = [callers EXCEPT ![r] = Closed]
    /\ UNCHANGED <<disk, rewrites, sdk, resolution, job>>

-----------------------------------------------------------------------------
(* The writer of a file.  Input files of live readers do not change.  While *)
(* the worker opens a file a replacement gets a new stamp; at other times   *)
(* the stamp may be restored or too coarse to show it.                      *)

OpeningPath(p) == job # None /\ job.kind = "open" /\ job.path = p

Replace(p, d) ==
    /\ rewrites < MaxRewrites
    /\ d # disk[p]
    /\ \A r \in Readers : files[r] # None => files[r].path # p
    /\ OpeningPath(p) => Overlap /\ \A e \in job.seen : d.stamp # e.stamp
    /\ disk' = [disk EXCEPT ![p] = d]
    /\ rewrites' = rewrites + 1
    /\ job' = IF OpeningPath(p)
              THEN [job EXCEPT !.seen = @ \cup {d}] ELSE job
    /\ UNCHANGED <<sdk, files, resolution, idle, callers>>

-----------------------------------------------------------------------------

JobStep ==
    \/ OpenHash \/ OpenReset \/ OpenStat \/ OpenNative \/ OpenNativeFails
    \/ OpenIdentity \/ OpenImport \/ OpenImportFails
    \/ FileKept \/ FileReopened \/ FileFails
    \/ RunBegin \/ RunBeginFails \/ RunSample
    \/ NextRefill \/ NextSkip \/ NextTransfer \/ NextDecodeFails
    \/ NextReadFails \/ NextFinished

CallerStep(r) ==
    \/ \E p \in Paths : Open(r, p)
    \/ Validate(r)
    \/ \E w \in Windows : BeginRead(r, w)
    \/ SampleBits(r)
    \/ NextBatch(r)
    \/ Visit(r) \/ VisitStops(r)
    \/ EndTraversal(r)
    \/ Close(r)

Next ==
    \/ JobStep
    \/ \E r \in Readers : CallerStep(r)
    \/ \E p \in Paths : ReadMetadata(p)
    \/ \E p \in Paths, d \in OnDisk : Replace(p, d)

Spec == Init /\ [][Next]_vars

\* The worker thread runs its job, its channel serves every job that was sent,
\* visitors return and guards are dropped.
FairSpec ==
    /\ Spec
    /\ WF_vars(JobStep)
    /\ \A r \in Readers :
          /\ WF_vars(Visit(r)) /\ SF_vars(NextBatch(r))
          /\ SF_vars(EndTraversal(r))

-----------------------------------------------------------------------------
(* Properties *)

\* Every variable of the worker and of the callers has its type.
TypeOK ==
    /\ disk \in [Paths -> OnDisk]
    /\ rewrites \in 0..MaxRewrites
    /\ sdk \in Optional(Resolutions)
    /\ files \in [Readers -> Optional(File)]
    /\ resolution \in Optional(Resolutions)
    /\ idle \in Optional(Idle)
    /\ job \in Optional(Job)
    /\ callers \in [Readers -> Caller]

\* The file of a live reader is the one it was opened from.
Undisturbed(r) ==
    files[r] # None => disk[files[r].path].recording = files[r].recording

\* If input files do not change while a reader opens or uses them, every native
\* owner, in use or idle, has the resolution that is selected in the SDK and
\* that the worker believes to be selected: State::reset closed all others.
ResolutionAgrees ==
    ~Overlap =>
        /\ \A r \in Readers : files[r] # None /\ files[r].native # None =>
              /\ ResolutionOf[files[r].native.recording] = sdk
              /\ resolution = sdk
        /\ idle # None => ResolutionOf[idle.owner.recording] = sdk

\* What was recorded in the range of a reader's query.
Expected(r) == InRange(files[r].recording, callers[r].window)

\* A traversal hands its visitor the records of its range in order, each once,
\* and all of them when it succeeds, whatever other readers make the worker
\* close and reopen in between (worker::next, read_from).
ExactlyOnce ==
    \A r \in Readers :
        files[r] # None /\ callers[r].window # None /\ Undisturbed(r) =>
            LET got == callers[r].got
                expected == Expected(r)
            IN /\ Len(got) <= Len(expected)
               /\ got = SubSeq(expected, 1, Len(got))
               /\ callers[r].complete => got = expected

\* A batch that is no error ends with a tick, also when its query was suspended
\* inside the range: a visitor never waits with half a tick while another
\* reader runs.
WholeTicks ==
    \A r \in Readers :
        /\ files[r] # None /\ Undisturbed(r) /\ callers[r].batch # None
        /\ callers[r].batch.records # <<>> /\ ~callers[r].batch.error
        => LET rs == callers[r].batch.records
               x == rs[Len(rs)]
               expected == Expected(r)
           IN \A i \in 1..Len(expected) :
                 expected[i].tick = x.tick => ~Before(x, expected[i])

\* An idle owner never failed a call, runs no query, and waits only while no
\* reader is live (worker::close).
IdleClean ==
    idle # None =>
        /\ ~idle.owner.failed
        /\ idle.owner.scan = None
        /\ \A r \in Readers : files[r] = None

\* The identity of an owner is that of the content the SDK opened, whatever a
\* writer did between the open and the digest (open_handle).
IdentityTrue ==
    \A o \in {files[r].native : r \in {x \in Readers : files[x] # None}}
             \cup (IF idle # None THEN {idle.owner} ELSE {}) :
        o # None /\ o.identity # None => o.identity.recording = o.recording

\* An open that succeeds shows content the file had at some moment of the open,
\* even if it reused the idle owner (worker::open).
OpenFresh ==
    [][\A r \in Readers :
          files[r] = None /\ files'[r] # None =>
              files'[r].recording \in {d.recording : d \in job.seen}]_vars

\* A traversal ends, although every job of another reader may close its native
\* owner and make it replay its range from the start: each answer brings a new
\* record or the end.
TraversalEnds ==
    \A r \in Readers : callers[r].pc = "asking" ~> callers[r].pc = "ready"
                                                \/ callers[r].pc = "closing"

\* The worker's state is typed, and one resolution is selected for all that is open.
WorkerInv == TypeOK /\ ResolutionAgrees

\* Records arrive in order, once and in whole ticks.
InOrderOnce == ExactlyOnce /\ WholeTicks
=============================================================================
