--------------------------- MODULE WdbOwnerProofs ---------------------------
(***************************************************************************)
(* Proofs about the reuse of WDB owners, for any number of threads, files, *)
(* contents and replacements.                                              *)
(***************************************************************************)
EXTENDS WdbOwner, TLAPS

Opening == {"hash", "take", "validate", "evict", "native", "import", "retain"}
Opened == {"ready", "reading", "unwinding"}
Owning == {"validate", "import", "retain"} \cup Opened

\* What the open of a reader knows about the file: the stamps it has met tell
\* their contents apart, because a replacement gets a new one.
SeenInv(r, dsk) ==
    r.pc \in Opening =>
        /\ dsk[r.path] \in r.seen
        /\ r.identity # None => r.identity \in r.seen
        /\ \A d, e \in r.seen : d.stamp = e.stamp => d = e

\* The owner is of a content that was met, and an identity which would still
\* hold, or which was kept, is that of this content.
OwnerInv(r, dsk) ==
    r.pc \in Owning =>
        /\ r.owner \in Owner
        /\ \E d \in r.seen : d.recording = r.owner.recording
        /\ ~r.tainted => ~r.owner.failed
        /\ /\ r.identity # None
           /\ r.pc \in {"import", "retain"} =>
                 dsk[r.path].stamp = r.identity.stamp
           => r.identity.recording = r.owner.recording

ReaderInv(r, dsk) ==
    /\ r \in Thread
    /\ r.pc \in Opening \cup Opened => r.path \in Paths
    /\ SeenInv(r, dsk)
    /\ OwnerInv(r, dsk)

IdleInv(slot) ==
    slot # None =>
        /\ slot \in Idle
        /\ ~slot.owner.failed /\ ~slot.owner.traversal /\ ~slot.owner.indexes
        /\ slot.identity.recording = slot.owner.recording

\* The inductive invariant.
Inv ==
    /\ TypeOK
    /\ IdleInv(idle)
    /\ \A t \in Threads : ReaderInv(threads[t], disk)

\* A step of one thread disturbs no other thread.
LEMMA OneReader ==
    ASSUME Inv, NEW t \in Threads, NEW r, Set(t, r), ReaderInv(r, disk),
           UNCHANGED <<disk, rewrites>>, IdleInv(idle')
    PROVE  Inv'
<1>1. threads' = [threads EXCEPT ![t] = r] /\ threads \in [Threads -> Thread]
  BY DEF Set, Inv, TypeOK
<1>2. r \in Thread
  BY DEF ReaderInv
<1>3. threads' \in [Threads -> Thread]
  BY <1>1, <1>2
<1>4. idle' \in Optional(Idle)
  BY DEF IdleInv, Optional
<1>5. TypeOK'
  BY <1>3, <1>4 DEF Inv, TypeOK
<1>6. \A u \in Threads : ReaderInv(threads[u], disk)'
  <2> SUFFICES ASSUME NEW u \in Threads PROVE ReaderInv(threads'[u], disk')
    OBVIOUS
  <2>1. threads'[u] = IF u = t THEN r ELSE threads[u]
    BY <1>1
  <2>2. disk' = disk
    OBVIOUS
  <2>3. ReaderInv(threads[u], disk)
    BY DEF Inv
  <2> QED BY <2>1, <2>2, <2>3
<1> QED BY <1>5, <1>6 DEF Inv

\* Only the slot changes, and it is emptied.
LEMMA OnlySlot ==
    ASSUME Inv, idle' = None, UNCHANGED <<disk, rewrites, threads>>
    PROVE  Inv'
BY DEF Inv, TypeOK, IdleInv, Optional

LEMMA NoReaderInv == ASSUME TypeOK PROVE ReaderInv(NoReader, disk)
<1>1. NoReader \in Thread
  BY DEF NoReader, Thread, Optional
<1>2. NoReader.pc = "none"
  BY DEF NoReader
<1> QED
  BY <1>1, <1>2 DEF ReaderInv, SeenInv, OwnerInv, Opening, Opened, Owning

LEMMA FailedInv ==
    ASSUME TypeOK PROVE ReaderInv([NoReader EXCEPT !.pc = "failed"], disk)
<1>1. [NoReader EXCEPT !.pc = "failed"] \in Thread
  BY DEF NoReader, Thread, Optional
<1>2. [NoReader EXCEPT !.pc = "failed"].pc = "failed"
  BY DEF NoReader
<1> QED
  BY <1>1, <1>2 DEF ReaderInv, SeenInv, OwnerInv, Opening, Opened, Owning

LEMMA InitInv == Init => Inv
<1> SUFFICES ASSUME Init PROVE Inv
  OBVIOUS
<1>1. TypeOK
  <2>1. NoReader \in Thread
    BY DEF NoReader, Thread, Optional
  <2> QED BY <2>1, WdbAssumption DEF Init, TypeOK, Optional
<1>2. IdleInv(idle)
  BY DEF Init, IdleInv
<1>3. \A t \in Threads : ReaderInv(threads[t], disk)
  BY <1>1, NoReaderInv DEF Init
<1> QED BY <1>1, <1>2, <1>3 DEF Inv

-----------------------------------------------------------------------------
(* One lemma per group of actions *)

\* A reader that goes on, with nothing but its position, its descriptor and
\* its identity changed.
LEMMA OpenSteps ==
    ASSUME Inv, NEW t \in Threads,
           \/ \E p \in Paths : Preflight(t, p)
           \/ ContentIdentity(t) \/ EvictIdle(t) \/ ValidateRuntime(t)
           \/ NativeOpen(t) \/ BuildPresentation(t) \/ Retain(t) \/ TakeIdle(t)
    PROVE  Inv'
<1> DEFINE old == threads[t]
<1>0. /\ old \in Thread /\ ReaderInv(old, disk) /\ TypeOK /\ IdleInv(idle)
      /\ disk \in [Paths -> OnDisk]
  BY DEF Inv, TypeOK
<1>1. ASSUME NEW p \in Paths, Preflight(t, p) PROVE Inv'
  <2> DEFINE new == [NoReader EXCEPT !.pc = "hash", !.path = p,
                               !.descriptor = disk[p], !.seen = {disk[p]}]
  <2>1. ASSUME NEW r \in Thread
        PROVE  LET n == [r EXCEPT !.pc = "hash", !.path = p,
                                  !.descriptor = disk[p], !.seen = {disk[p]}]
               IN /\ n \in Thread /\ n.pc = "hash" /\ n.path = p
                  /\ n.identity = r.identity /\ n.seen = {disk[p]}
    BY <1>0 DEF Thread, Optional
  <2>2. /\ new \in Thread /\ new.pc = "hash" /\ new.path = p
        /\ new.identity = None /\ new.seen = {disk[p]}
    <3>1. NoReader \in Thread /\ NoReader.identity = None
      BY DEF NoReader, Thread, Optional
    <3> QED BY <2>1, <3>1, Zenon
  <2> HIDE DEF new
  <2>3. ReaderInv(new, disk)
    BY <2>2 DEF ReaderInv, SeenInv, OwnerInv, Opening, Opened, Owning
  <2>4. Set(t, new) /\ UNCHANGED <<disk, rewrites>> /\ idle' = idle
    BY <1>1 DEF Preflight, new
  <2> QED BY <1>0, <2>3, <2>4, OneReader
<1>2. CASE ContentIdentity(t)
  <2>1. PICK id \in Optional({disk[old.path]}) :
            Set(t, [old EXCEPT !.pc = "take", !.identity = id])
    BY <1>2 DEF ContentIdentity, Optional
  <2> DEFINE new == [old EXCEPT !.pc = "take", !.identity = id]
  <2>2. old.pc = "hash" /\ old.path \in Paths /\ disk[old.path] \in OnDisk
    BY <1>0, <1>2 DEF ContentIdentity, At, ReaderInv, Opening
  <2>3. /\ new \in Thread /\ new.pc = "take" /\ new.path = old.path
        /\ new.identity = id /\ new.seen = old.seen
    BY <1>0, <2>1, <2>2 DEF Thread, Optional
  <2>4. ReaderInv(new, disk)
    BY <1>0, <2>1, <2>2, <2>3
       DEF ReaderInv, SeenInv, OwnerInv, Opening, Opened, Owning, Optional
  <2>5. Set(t, new) /\ UNCHANGED <<disk, rewrites>> /\ idle' = idle
    BY <1>2, <2>1 DEF ContentIdentity
  <2> HIDE DEF new
  <2> QED BY <1>0, <2>4, <2>5, OneReader
<1>3. CASE EvictIdle(t)
  <2> DEFINE new == [old EXCEPT !.pc = "native"]
  <2>1. old.pc = "evict"
    BY <1>3 DEF EvictIdle, At
  <2>2. /\ new \in Thread /\ new.pc = "native" /\ new.path = old.path
        /\ new.identity = old.identity /\ new.seen = old.seen
    BY <1>0 DEF Thread
  <2>3. ReaderInv(new, disk)
    BY <1>0, <2>1, <2>2
       DEF ReaderInv, SeenInv, OwnerInv, Opening, Opened, Owning
  <2>4. Set(t, new) /\ UNCHANGED <<disk, rewrites>> /\ IdleInv(idle')
    BY <1>3 DEF EvictIdle, IdleInv
  <2> HIDE DEF new
  <2> QED BY <2>3, <2>4, OneReader
<1>4. CASE ValidateRuntime(t) \/ BuildPresentation(t)
  <2> DEFINE new == [old EXCEPT !.pc = "retain"]
  <2>1. old.pc \in {"validate", "import"}
    BY <1>4 DEF ValidateRuntime, BuildPresentation, At
  <2>2. /\ new \in Thread /\ new.pc = "retain" /\ new.path = old.path
        /\ new.identity = old.identity /\ new.seen = old.seen
        /\ new.owner = old.owner /\ new.tainted = old.tainted
    BY <1>0 DEF Thread
  <2>3. ReaderInv(new, disk)
    BY <1>0, <2>1, <2>2
       DEF ReaderInv, SeenInv, OwnerInv, Opening, Opened, Owning
  <2>4. Set(t, new) /\ UNCHANGED <<disk, rewrites>> /\ idle' = idle
    BY <1>4 DEF ValidateRuntime, BuildPresentation
  <2> HIDE DEF new
  <2> QED BY <1>0, <2>3, <2>4, OneReader
<1>5. CASE NativeOpen(t)
  <2> DEFINE o == NewOwner(disk[old.path].recording)
             new == [old EXCEPT !.pc = "import", !.owner = o]
  <2>1. old.pc = "native" /\ old.path \in Paths /\ disk[old.path] \in OnDisk
    BY <1>0, <1>5 DEF NativeOpen, At, ReaderInv, Opening
  <2>2. o \in Owner /\ o.recording = disk[old.path].recording /\ ~o.failed
    BY <2>1 DEF NewOwner, Owner, OnDisk
  <2> HIDE DEF o
  <2>3. /\ new \in Thread /\ new.pc = "import" /\ new.path = old.path
        /\ new.identity = old.identity /\ new.seen = old.seen
        /\ new.owner = o
    BY <1>0, <2>2 DEF Thread, Optional
  <2>4. ReaderInv(new, disk)
    BY <1>0, <2>1, <2>2, <2>3
       DEF ReaderInv, SeenInv, OwnerInv, Opening, Opened, Owning
  <2>5. Set(t, new) /\ UNCHANGED <<disk, rewrites>> /\ idle' = idle
    BY <1>5 DEF NativeOpen, o
  <2> HIDE DEF new
  <2> QED BY <1>0, <2>4, <2>5, OneReader
<1>6. CASE Retain(t)
  <2> DEFINE id == IF IdentityHolds(t) THEN old.identity ELSE None
             new == [old EXCEPT !.pc = "ready", !.descriptor = None,
                                !.identity = id]
  <2>1. old.pc = "retain"
    BY <1>6 DEF Retain, At
  <2>2. id # None => /\ id = old.identity
                     /\ disk[old.path].stamp = old.identity.stamp
    BY DEF IdentityHolds
  <2>3. id \in Optional(OnDisk)
    BY <1>0 DEF Thread, Optional
  <2>4. Set(t, new) /\ UNCHANGED <<disk, rewrites>> /\ idle' = idle
    BY <1>6 DEF Retain
  <2> HIDE DEF id
  <2>5. /\ new \in Thread /\ new.pc = "ready" /\ new.path = old.path
        /\ new.identity = id /\ new.seen = old.seen
        /\ new.owner = old.owner /\ new.tainted = old.tainted
    BY <1>0, <2>3 DEF Thread, Optional
  <2>6. ReaderInv(new, disk)
    BY <1>0, <2>1, <2>2, <2>5
       DEF ReaderInv, SeenInv, OwnerInv, Opening, Opened, Owning
  <2> HIDE DEF new
  <2> QED BY <1>0, <2>4, <2>6, OneReader
<1>7. CASE TakeIdle(t)
  <2> DEFINE hit == Matches(old.path, old.identity)
             miss == [old EXCEPT !.pc = "evict", !.owner = None]
             new == [old EXCEPT !.pc = "validate", !.owner = idle.owner]
  <2>1. old.pc = "take" /\ UNCHANGED <<disk, rewrites>>
    BY <1>7 DEF TakeIdle, At
  <2>2. CASE hit
    <3>1. /\ idle \in Idle /\ idle.owner \in Owner /\ ~idle.owner.failed
          /\ old.identity # None /\ idle.identity = old.identity
          /\ idle.owner.recording = old.identity.recording
      BY <1>0, <2>2 DEF Matches, IdleInv, Idle
    <3>2. /\ new \in Thread /\ new.pc = "validate" /\ new.path = old.path
          /\ new.identity = old.identity /\ new.seen = old.seen
          /\ new.owner = idle.owner
      BY <1>0, <3>1 DEF Thread, Optional
    <3>3. ReaderInv(new, disk)
      BY <1>0, <2>1, <3>1, <3>2
         DEF ReaderInv, SeenInv, OwnerInv, Opening, Opened, Owning
    <3>4. Set(t, new) /\ IdleInv(idle')
      BY <1>7, <2>2 DEF TakeIdle, IdleInv
    <3> HIDE DEF new
    <3> QED BY <2>1, <3>3, <3>4, OneReader
  <2>3. CASE ~hit
    <3>1. /\ miss \in Thread /\ miss.pc = "evict" /\ miss.path = old.path
          /\ miss.identity = old.identity /\ miss.seen = old.seen
      BY <1>0 DEF Thread, Optional
    <3>2. ReaderInv(miss, disk)
      BY <1>0, <2>1, <3>1
         DEF ReaderInv, SeenInv, OwnerInv, Opening, Opened, Owning
    <3>3. Set(t, miss) /\ IdleInv(idle')
      BY <1>0, <1>7, <2>3 DEF TakeIdle
    <3> HIDE DEF miss
    <3> QED BY <2>1, <3>2, <3>3, OneReader
  <2> QED BY <2>2, <2>3
<1> QED BY <1>1, <1>2, <1>3, <1>4, <1>5, <1>6, <1>7

\* A read changes what the SDK keeps for its owner and whether a call failed,
\* never the content the owner was opened for; a failure is remembered.
LEMMA ReadSteps ==
    ASSUME Inv, NEW t \in Threads,
           \/ SampleBits(t) \/ ReadBegin(t) \/ ReadEnds(t)
           \/ ReadFails(t) \/ ReadUnwinds(t)
    PROVE  Inv'
<1> DEFINE old == threads[t]
<1>0. /\ old \in Thread /\ ReaderInv(old, disk) /\ IdleInv(idle)
  BY DEF Inv, TypeOK
<1>1. old.pc \in {"ready", "reading"} /\ idle' = idle
      /\ UNCHANGED <<disk, rewrites>>
  BY DEF SampleBits, ReadBegin, ReadEnds, ReadFails, ReadUnwinds, At
<1>2. old.owner \in Owner /\ old.path \in Paths
  BY <1>0, <1>1 DEF ReaderInv, OwnerInv, Opened, Owning
<1>3. SUFFICES ASSUME NEW r \in Thread, Set(t, r), r.pc \in Opened,
                      r.path = old.path, r.identity = old.identity,
                      r.seen = old.seen, r.owner \in Owner,
                      r.owner.recording = old.owner.recording,
                      ~r.tainted => ~old.tainted,
                      ~r.tainted => r.owner.failed = old.owner.failed
               PROVE  Inv'
  <2> DEFINE Good(r) ==
               /\ r \in Thread /\ Set(t, r) /\ r.pc \in Opened
               /\ r.path = old.path /\ r.identity = old.identity
               /\ r.seen = old.seen /\ r.owner \in Owner
               /\ r.owner.recording = old.owner.recording
               /\ ~r.tainted => ~old.tainted
               /\ ~r.tainted => r.owner.failed = old.owner.failed
  <2> SUFFICES \E r : Good(r)
    OBVIOUS
  <2>1. CASE SampleBits(t)
    <3> DEFINE a == [old EXCEPT !.owner.indexes = TRUE]
               b == [[a EXCEPT !.owner.failed = TRUE] EXCEPT !.tainted = TRUE]
    <3>1. Set(t, a) \/ Set(t, b)
      BY <2>1 DEF SampleBits, Attempt, Tainted
    <3>2. Set(t, a) => Good(a)
      BY <1>0, <1>1, <1>2 DEF Thread, Owner, Optional, Opened
    <3>3. Set(t, b) => Good(b)
      BY <1>0, <1>1, <1>2 DEF Thread, Owner, Optional, Opened
    <3> QED BY <3>1, <3>2, <3>3
  <2>2. CASE ReadBegin(t)
    <3> DEFINE a == [old EXCEPT !.pc = "reading", !.owner.indexes = TRUE,
                                !.owner.traversal = TRUE]
    <3>1. Set(t, a)
      BY <2>2 DEF ReadBegin
    <3>2. Set(t, a) => Good(a)
      BY <1>0, <1>1, <1>2 DEF Thread, Owner, Optional, Opened
    <3> QED BY <3>1, <3>2
  <2>3. CASE ReadEnds(t)
    <3> DEFINE a == [old EXCEPT !.pc = "ready", !.owner.traversal = FALSE]
    <3>1. Set(t, a)
      BY <2>3 DEF ReadEnds, Ended
    <3>2. Set(t, a) => Good(a)
      BY <1>0, <1>1, <1>2 DEF Thread, Owner, Optional, Opened
    <3> QED BY <3>1, <3>2
  <2>4. CASE ReadFails(t) \/ ReadUnwinds(t)
    <3> DEFINE a == [old EXCEPT !.pc = "ready", !.owner.traversal = FALSE]
               b == [[a EXCEPT !.owner.failed = TRUE] EXCEPT !.tainted = TRUE]
    <3>1. Set(t, b) \/ \E pc \in {"ready", "unwinding"} :
                           Set(t, [b EXCEPT !.pc = pc])
      BY <2>4 DEF ReadFails, ReadUnwinds, Attempt, Tainted, Ended
    <3>2. /\ b \in Thread /\ b.pc = "ready" /\ b.path = old.path
          /\ b.identity = old.identity /\ b.seen = old.seen
          /\ b.owner \in Owner /\ b.owner.recording = old.owner.recording
          /\ b.tainted
      BY <1>0, <1>1, <1>2 DEF Thread, Owner, Optional
    <3> HIDE DEF b
    <3>3. CASE Set(t, b)
      BY <3>2, <3>3 DEF Opened
    <3>4. ASSUME NEW pc \in {"ready", "unwinding"}, Set(t, [b EXCEPT !.pc = pc])
          PROVE  Good([b EXCEPT !.pc = pc])
      BY <3>2, <3>4 DEF Thread, Opened
    <3> QED BY <3>1, <3>3, <3>4
  <2> QED BY <2>1, <2>2, <2>3, <2>4
<1>4. ReaderInv(r, disk)
  BY <1>0, <1>1, <1>2, <1>3
     DEF ReaderInv, SeenInv, OwnerInv, Opening, Opened, Owning
<1> QED BY <1>0, <1>1, <1>3, <1>4, OneReader

\* A parked owner is clean and has its identity; any other is closed.
LEMMA DropSteps ==
    ASSUME Inv, NEW t \in Threads,
           Park(t) \/ CloseOwner(t) \/ OpenFails(t) \/ ReleaseIdle(t)
    PROVE  Inv'
<1> DEFINE old == threads[t]
<1>0. /\ old \in Thread /\ ReaderInv(old, disk) /\ IdleInv(idle) /\ TypeOK
  BY DEF Inv, TypeOK
<1>1. CASE Park(t)
  <2> DEFINE o == Released(old.owner)
             slot == [path |-> old.path, identity |-> old.identity, owner |-> o]
  <2>1. /\ old.pc = "ready" /\ old.identity # None /\ ~old.tainted
        /\ idle' = slot /\ Set(t, NoReader) /\ UNCHANGED <<disk, rewrites>>
    BY <1>1 DEF Park, Parkable, At
  <2>2. /\ old.path \in Paths /\ old.identity \in OnDisk /\ old.owner \in Owner
        /\ ~old.owner.failed
        /\ old.identity.recording = old.owner.recording
    BY <1>0, <2>1 DEF ReaderInv, OwnerInv, Opened, Owning, Thread, Optional
  <2>3. /\ o \in Owner /\ o.recording = old.owner.recording
        /\ ~o.failed /\ ~o.traversal /\ ~o.indexes
    BY <2>2 DEF Released, Owner
  <2> HIDE DEF o
  <2>4. IdleInv(slot)
    BY <2>2, <2>3 DEF IdleInv, Idle
  <2> HIDE DEF slot
  <2> QED BY <1>0, <2>1, <2>4, NoReaderInv, OneReader
<1>2. CASE CloseOwner(t)
  BY <1>0, <1>2, NoReaderInv, OneReader DEF CloseOwner
<1>3. CASE OpenFails(t)
  BY <1>0, <1>3, FailedInv, OneReader DEF OpenFails
<1>4. CASE ReleaseIdle(t)
  <2>1. IdleInv(idle')
    BY <1>4 DEF ReleaseIdle, IdleInv
  <2> QED BY <1>0, <1>4, <2>1, NoReaderInv, OneReader DEF ReleaseIdle
<1> QED BY <1>1, <1>2, <1>3, <1>4

\* A replacement during an open has a stamp the open has not met: an identity
\* taken before it no longer holds, and the stamps still tell contents apart.
LEMMA ReplaceStep ==
    ASSUME Inv, NEW p \in Paths, NEW d \in OnDisk, NEW inPlace \in BOOLEAN,
           Replace(p, d, inPlace)
    PROVE  Inv'
<1>1. /\ disk \in [Paths -> OnDisk] /\ rewrites \in 0..MaxRewrites
      /\ threads \in [Threads -> Thread] /\ idle \in Optional(Idle)
  BY DEF Inv, TypeOK
<1>2. /\ disk' = [disk EXCEPT ![p] = d] /\ idle' = idle
      /\ rewrites < MaxRewrites /\ rewrites' = rewrites + 1
  BY DEF Replace
<1>3. ASSUME NEW t \in Threads
      PROVE  ReaderInv(threads'[t], disk')
  <2> DEFINE old == threads[t]
             desc == IF inPlace /\ old.descriptor = disk[p] THEN d
                     ELSE old.descriptor
             new == [old EXCEPT !.seen = old.seen \cup {d},
                                !.descriptor = desc]
  <2>0. old \in Thread /\ ReaderInv(old, disk)
    BY <1>1 DEF Inv
  <2>1. CASE ~OpensPath(t, p)
    <3>1. threads'[t] = old
      BY <2>1 DEF Replace
    <3>2. old.pc \in Opening => old.path # p /\ old.path \in Paths
      BY <2>0, <2>1 DEF OpensPath, Opening, ReaderInv
    <3>3. old.pc \in Opening => disk'[old.path] = disk[old.path]
      BY <1>1, <1>2, <3>2
    <3> QED BY <2>0, <3>1, <3>3
            DEF ReaderInv, SeenInv, OwnerInv, Opening, Opened, Owning
  <2>2. CASE OpensPath(t, p)
    <3>1. threads'[t] = new
      BY <2>2 DEF Replace
    <3>2. old.pc \in Opening /\ old.path = p
      BY <2>2 DEF OpensPath, Opening
    <3>3. \A e \in old.seen : d.stamp # e.stamp
      BY <2>2 DEF Replace
    <3>4. desc \in Optional(OnDisk)
      BY <2>0 DEF Thread, Optional
    <3> HIDE DEF desc
    <3>5. /\ new \in Thread /\ new.pc = old.pc /\ new.path = p
          /\ new.identity = old.identity /\ new.seen = old.seen \cup {d}
          /\ new.owner = old.owner /\ new.tainted = old.tainted
      BY <2>0, <3>2, <3>4 DEF Thread
    <3>6. disk'[p] = d
      BY <1>1, <1>2
    <3>7. SeenInv(new, disk')
      BY <2>0, <3>2, <3>3, <3>5, <3>6 DEF ReaderInv, SeenInv
    <3>8. OwnerInv(new, disk')
      BY <2>0, <3>2, <3>3, <3>5, <3>6
         DEF ReaderInv, SeenInv, OwnerInv, Opening, Opened, Owning
    <3> HIDE DEF new
    <3> QED BY <3>1, <3>5, <3>7, <3>8 DEF ReaderInv
  <2> QED BY <2>1, <2>2
<1>4. threads' \in [Threads -> Thread]
  <2>1. \A t \in Threads : threads'[t] \in Thread
    BY <1>3 DEF ReaderInv
  <2>2. /\ DOMAIN threads' = Threads
        /\ threads' = [t \in DOMAIN threads' |-> threads'[t]]
    BY DEF Replace
  <2> QED BY <2>1, <2>2
<1>5. rewrites' \in 0..MaxRewrites
  BY <1>1, <1>2, WdbAssumption
<1>6. disk' \in [Paths -> OnDisk]
  BY <1>1, <1>2
<1>7. TypeOK'
  BY <1>1, <1>2, <1>4, <1>5, <1>6 DEF TypeOK
<1> QED BY <1>2, <1>3, <1>7 DEF Inv

-----------------------------------------------------------------------------

LEMMA Inductive == Inv /\ [Next]_vars => Inv'
<1> SUFFICES ASSUME Inv, [Next]_vars PROVE Inv'
  OBVIOUS
<1>1. ASSUME NEW t \in Threads, ThreadStep(t) PROVE Inv'
  <2>1. CASE PreflightFails(t) \/ ReadMetadata(t)
    BY <2>1, OnlySlot DEF PreflightFails, ReadMetadata
  <2> QED BY <1>1, <2>1, OpenSteps, ReadSteps, DropSteps DEF ThreadStep
<1>2. CASE \E p \in Paths, d \in OnDisk, inPlace \in BOOLEAN :
               Replace(p, d, inPlace)
  BY <1>2, ReplaceStep
<1>3. CASE UNCHANGED vars
  BY <1>3 DEF vars, Inv, TypeOK
<1> QED BY <1>1, <1>2, <1>3 DEF Next

LEMMA InvHolds == Spec => []Inv
BY InitInv, Inductive, PTL DEF Spec

\* The owner in the slot is clean: no reader that failed, or through which a
\* panic went, leaves its owner to the next one (Drop for Reader).
THEOREM IdleStaysClean == Spec => []IdleClean
<1>1. Inv => IdleClean
  BY DEF Inv, IdleInv, IdleClean
<1> QED BY <1>1, InvHolds, PTL

\* A kept identity is that of the content the SDK opened (identity_holds),
\* for any number of threads and of replacements.
THEOREM IdentityStaysTrue == Spec => []IdentityTrue
<1>1. Inv => IdentityTrue
  BY DEF Inv, IdleInv, IdentityTrue, ReaderInv, OwnerInv, Opened, Owning
<1> QED BY <1>1, InvHolds, PTL

\* A reader shows content its file had during its own open, however often
\* owners were parked, taken and evicted by other threads (take_idle).
THEOREM OpensStayFresh == Spec => []OpenFresh
<1>1. Inv => OpenFresh
  BY DEF Inv, OpenFresh, ReaderInv, OwnerInv, Opened, Owning
<1> QED BY <1>1, InvHolds, PTL
=============================================================================
