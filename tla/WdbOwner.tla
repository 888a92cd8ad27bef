------------------------------ MODULE WdbOwner ------------------------------
(***************************************************************************)
(* Reuse of native owners by the WDB reader.  Every logical reader has an  *)
(* owner of its own inside the SDK.  A reader that is dropped cleanly      *)
(* leaves its owner in one process-wide slot; the next open of the same    *)
(* unchanged file takes it instead of opening again.  Readers run on any   *)
(* threads: vendor calls and the slot are serialized by a mutex, but an    *)
(* open takes and releases it several times, and a writer may replace the  *)
(* file between any two of its steps.                                      *)
(*                                                                         *)
(* Each action is one region of the mutex, or one access to the file.      *)
(***************************************************************************)
EXTENDS Naturals, FiniteSets

CONSTANTS
    None,
    Threads,     \* threads; each opens, uses and drops one reader at a time
    Paths,
    Recordings,  \* contents of files; a digest stands for its content
    Stamps,      \* metadata of files: device, inode, size and times
    Faults,      \* whether the SDK, the file system and decoding may fail
    MaxRewrites  \* bound: how often a writer replaces a file

ASSUME WdbAssumption == Faults \in BOOLEAN /\ MaxRewrites \in Nat

VARIABLES
    disk,      \* path -> the recording and the stamp of the file
    rewrites,  \* how often a file was replaced
    idle,      \* IDLE, the slot
    threads    \* thread -> its reader, or how far it is with opening one

vars == <<disk, rewrites, idle, threads>>

Optional(S) == S \cup {None}
OnDisk == [recording : Recordings, stamp : Stamps]

\* Handle: what the SDK keeps for it, and whether a call on it ever failed or
\* was unwound.
Owner == [recording : Recordings, traversal : BOOLEAN, indexes : BOOLEAN,
          failed : BOOLEAN]
Idle == [path : Paths, identity : OnDisk, owner : Owner]
\* Reader, or the local variables of Reader::open; seen is what the file was
\* since the open began.
Thread == [pc : {"none", "hash", "take", "validate", "evict", "native",
                 "import", "retain", "ready", "reading", "unwinding", "failed"},
           path : Optional(Paths), descriptor : Optional(OnDisk),
           identity : Optional(OnDisk), owner : Optional(Owner),
           tainted : BOOLEAN, seen : SUBSET OnDisk]

NoReader ==
    [pc |-> "none", path |-> None, descriptor |-> None, identity |-> None,
     owner |-> None, tainted |-> FALSE, seen |-> {}]

Init ==
    /\ disk \in [Paths -> OnDisk]
    /\ rewrites = 0
    /\ idle = None
    /\ threads = [t \in Threads |-> NoReader]

At(t, pc) == threads[t].pc = pc
Set(t, state) == threads' = [threads EXCEPT ![t] = state]
NewOwner(c) ==
    [recording |-> c, traversal |-> FALSE, indexes |-> FALSE, failed |-> FALSE]

-----------------------------------------------------------------------------
(* Reader::open *)

\* The container header is read through a descriptor that is kept.
Preflight(t, p) ==
    /\ At(t, "none")
    /\ Set(t, [NoReader EXCEPT !.pc = "hash", !.path = p,
                               !.descriptor = disk[p], !.seen = {disk[p]}])
    /\ UNCHANGED <<disk, rewrites, idle>>

\* A request that fails, here or before it enters the adapter.
PreflightFails(t) ==
    /\ At(t, "none") /\ Faults
    /\ idle' = None
    /\ UNCHANGED <<disk, rewrites, threads>>

ContentIdentity(t) ==
    /\ At(t, "hash")
    /\ \E id \in {disk[threads[t].path]} \cup (IF Faults THEN {None} ELSE {}) :
          Set(t, [threads[t] EXCEPT !.pc = "take", !.identity = id])
    /\ UNCHANGED <<disk, rewrites, idle>>

\* Mutant: the path and the stamp decide.
MatchesMutant(p, id) ==
    idle # None /\ id # None /\ idle.path = p /\ idle.identity.stamp = id.stamp

Matches(p, id) ==
    idle # None /\ id # None /\ idle.path = p /\ idle.identity = id

TakeIdle(t) ==
    LET hit == Matches(threads[t].path, threads[t].identity)
    IN /\ At(t, "take")
       /\ idle' = IF hit THEN None ELSE idle
       /\ Set(t, [threads[t] EXCEPT
                    !.pc = IF hit THEN "validate" ELSE "evict",
                    !.owner = IF hit THEN idle.owner ELSE None])
       /\ UNCHANGED <<disk, rewrites>>

EvictIdle(t) ==
    /\ At(t, "evict")
    /\ idle' = None
    /\ Set(t, [threads[t] EXCEPT !.pc = "native"])
    /\ UNCHANGED <<disk, rewrites>>

ValidateRuntime(t) ==
    /\ At(t, "validate")
    /\ Set(t, [threads[t] EXCEPT !.pc = "retain"])
    /\ UNCHANGED <<disk, rewrites, idle>>

NativeOpen(t) ==
    /\ At(t, "native")
    /\ Set(t, [threads[t] EXCEPT
                 !.pc = "import",
                 !.owner = NewOwner(disk[threads[t].path].recording)])
    /\ UNCHANGED <<disk, rewrites, idle>>

BuildPresentation(t) ==
    /\ At(t, "import")
    /\ Set(t, [threads[t] EXCEPT !.pc = "retain"])
    /\ UNCHANGED <<disk, rewrites, idle>>

\* Mutant: the digest taken before the native open is trusted.
IdentityHoldsMutant(t) == TRUE

\* The path and the descriptor still have the stamp of the identity.
IdentityHolds(t) ==
    LET id == threads[t].identity
    IN /\ id # None
       /\ disk[threads[t].path].stamp = id.stamp
       /\ threads[t].descriptor.stamp = id.stamp

Retain(t) ==
    /\ At(t, "retain")
    /\ Set(t, [threads[t] EXCEPT
                 !.pc = "ready", !.descriptor = None,
                 !.identity = IF IdentityHolds(t) THEN @ ELSE None])
    /\ UNCHANGED <<disk, rewrites, idle>>

\* validate_runtime, native_open, build_presentation or metadata fails: the
\* owner, if there is one, is closed.
OpenFails(t) ==
    /\ Faults
    /\ threads[t].pc \in {"validate", "native", "import", "retain"}
    /\ Set(t, [NoReader EXCEPT !.pc = "failed"])
    /\ UNCHANGED <<disk, rewrites, idle>>

\* The public open releases the slot after every failure.
ReleaseIdle(t) ==
    /\ At(t, "failed")
    /\ idle' = None
    /\ Set(t, NoReader)
    /\ UNCHANGED <<disk, rewrites>>

\* A metadata-only request; its own native reader is closed at once.
ReadMetadata(t) ==
    /\ At(t, "none")
    /\ idle' = None
    /\ UNCHANGED <<disk, rewrites, threads>>

-----------------------------------------------------------------------------
(* Reads *)

\* Mutant: only the caller hears of the error.
TaintedMutant(reader) == reader

Tainted(reader) == [reader EXCEPT !.tainted = TRUE]

\* attempt: an error, or an unwind of the operation, is remembered.
Attempt(reader) == Tainted([reader EXCEPT !.owner.failed = TRUE])

\* Point reads hold the mutex throughout; the guard ends the traversal.
SampleBits(t) ==
    LET reader == [threads[t] EXCEPT !.owner.indexes = TRUE]
    IN /\ At(t, "ready")
       /\ Set(t, reader) \/ (Faults /\ Set(t, Attempt(reader)))
       /\ UNCHANGED <<disk, rewrites, idle>>

\* The traversal is begun under the mutex and stays while visitors run.
ReadBegin(t) ==
    /\ At(t, "ready")
    /\ Set(t, [threads[t] EXCEPT !.pc = "reading", !.owner.indexes = TRUE,
                                 !.owner.traversal = TRUE])
    /\ UNCHANGED <<disk, rewrites, idle>>

Ended(reader) == [reader EXCEPT !.pc = "ready", !.owner.traversal = FALSE]

\* The last record, or a visitor that breaks.
ReadEnds(t) ==
    /\ At(t, "reading")
    /\ Set(t, Ended(threads[t]))
    /\ UNCHANGED <<disk, rewrites, idle>>

ReadFails(t) ==
    /\ At(t, "reading") /\ Faults
    /\ Set(t, Attempt(Ended(threads[t])))
    /\ UNCHANGED <<disk, rewrites, idle>>

\* A visitor panics; the caller catches it, or it drops the reader as well.
ReadUnwinds(t) ==
    /\ At(t, "reading")
    /\ \E pc \in {"ready", "unwinding"} :
          Set(t, [Attempt(Ended(threads[t])) EXCEPT !.pc = pc])
    /\ UNCHANGED <<disk, rewrites, idle>>

-----------------------------------------------------------------------------
(* Dropping a reader *)

Parkable(t) ==
    /\ threads[t].identity # None
    /\ ~threads[t].tainted
    /\ threads[t].pc # "unwinding"

\* ondas_wdb_end, ondas_wdb_release_indexes and ondas_wdb_release_storage.
Released(o) == [o EXCEPT !.traversal = FALSE, !.indexes = FALSE]

\* The owner that was in the slot is closed after the mutex is released.
Park(t) ==
    /\ At(t, "ready")
    /\ Parkable(t)
    /\ idle' = [path |-> threads[t].path, identity |-> threads[t].identity,
                owner |-> Released(threads[t].owner)]
    /\ Set(t, NoReader)
    /\ UNCHANGED <<disk, rewrites>>

\* Not parkable, no cleanup at exit, or a release that fails: the owner closes.
CloseOwner(t) ==
    /\ threads[t].pc \in {"ready", "unwinding"}
    /\ Parkable(t) => Faults
    /\ Set(t, NoReader)
    /\ UNCHANGED <<disk, rewrites, idle>>

-----------------------------------------------------------------------------
(* A writer replaces a file: in place, so that open descriptors see it, or  *)
(* by another file.  While some thread opens the path a replacement gets a  *)
(* new stamp; otherwise the stamp may be restored.                          *)

OpensPath(t, p) ==
    /\ threads[t].path = p
    /\ threads[t].pc \in {"hash", "take", "validate", "evict", "native",
                          "import", "retain"}

Replace(p, d, inPlace) ==
    /\ rewrites < MaxRewrites
    /\ d # disk[p]
    /\ \A t \in Threads : OpensPath(t, p) =>
          \A e \in threads[t].seen : d.stamp # e.stamp
    /\ disk' = [disk EXCEPT ![p] = d]
    /\ rewrites' = rewrites + 1
    /\ threads' = [t \in Threads |->
          IF ~OpensPath(t, p) THEN threads[t]
          ELSE [threads[t] EXCEPT
                  !.seen = @ \cup {d},
                  !.descriptor = IF inPlace /\ @ = disk[p] THEN d ELSE @]]
    /\ UNCHANGED idle

-----------------------------------------------------------------------------

ThreadStep(t) ==
    \/ \E p \in Paths : Preflight(t, p)
    \/ PreflightFails(t) \/ ContentIdentity(t) \/ TakeIdle(t) \/ EvictIdle(t)
    \/ ValidateRuntime(t) \/ NativeOpen(t) \/ BuildPresentation(t)
    \/ Retain(t) \/ OpenFails(t) \/ ReleaseIdle(t) \/ ReadMetadata(t)
    \/ SampleBits(t) \/ ReadBegin(t) \/ ReadEnds(t) \/ ReadFails(t)
    \/ ReadUnwinds(t) \/ Park(t) \/ CloseOwner(t)

Next ==
    \/ \E t \in Threads : ThreadStep(t)
    \/ \E p \in Paths, d \in OnDisk, inPlace \in BOOLEAN : Replace(p, d, inPlace)

Spec == Init /\ [][Next]_vars

-----------------------------------------------------------------------------
(* Properties *)

\* Every variable has its type.
TypeOK ==
    /\ disk \in [Paths -> OnDisk]
    /\ rewrites \in 0..MaxRewrites
    /\ idle \in Optional(Idle)
    /\ threads \in [Threads -> Thread]

\* The owner in the slot never failed, was never unwound through, and holds
\* neither a traversal nor histories of the reader that left it (Drop for
\* Reader): the next reader starts as from a fresh open.
IdleClean ==
    idle # None =>
        ~idle.owner.failed /\ ~idle.owner.traversal /\ ~idle.owner.indexes

\* An identity that is kept is that of the content the SDK opened, whatever a
\* writer did during the open (identity_holds).
IdentityTrue ==
    /\ idle # None => idle.identity.recording = idle.owner.recording
    /\ \A t \in Threads :
          threads[t].pc = "ready" /\ threads[t].identity # None =>
              threads[t].identity.recording = threads[t].owner.recording

\* A reader shows content the file had during its own open, also when it took
\* its owner from the slot while other threads parked, took and evicted owners
\* (take_idle).
OpenFresh ==
    \A t \in Threads :
        threads[t].pc = "ready" =>
            threads[t].owner.recording \in {d.recording : d \in threads[t].seen}
=============================================================================
