----------------------------- MODULE QueryEngine -----------------------------
(***************************************************************************)
(* The common query engine of ondas: a Selection, its slots, the tick-wise *)
(* traversal read_ticks_from, the operations built on it (scan, sample,    *)
(* samples_at, query) and the two caches that let a later query skip a     *)
(* prefix: `replay`, left by the last successful read, and `checkpoint`,   *)
(* taken at the lower bound of a window.                                   *)
(*                                                                         *)
(* A source is a sequence of records in time order, those of the selected  *)
(* base signals.  Its meaning is `obs`: what every slot shows at the end  *)
(* of every tick.  A reader position is the index of the next   *)
(* record; readers that resume by time resume at a tick's first record.    *)
(***************************************************************************)
EXTENDS Integers, Sequences, FiniteSets

CONSTANTS
    BitBases,    \* base signals with a bit encoding
    OpaqueBases, \* base signals holding reals or strings: one symbol each
    EventBases,  \* base signals whose records are event occurrences
    NumSlots,    \* retained slots of the plan, operands before their users
    SlotBase,    \* slot -> its base signal, or Computed
    From,        \* slot -> per bit, where it comes from: [of, bit]
    Slices,      \* the slots that are slices of a base signal
    BaseWidth,   \* bit base -> its width
    Selected,    \* the slots of the selection's entries
    Computed, Missing, None,
    Symbols,     \* logic states and opaque symbols, "x" among them
    MaxTick,     \* u64::MAX, the last representable tick
    MaxCount,    \* u64::MAX, the largest event count
    Histories,   \* sources: their records; span, the last tick of
                 \* Metadata::time_span or NoTime; obs, what they mean:
                 \* slot -> tick -> value at the end of the tick
    Kinds,       \* the readers considered
    Windows,     \* bound: the ranges <<first, end>> queried
    Batches,     \* bound: the sets of ticks asked of samples_at
    DriverSets,  \* bound: the driver subsets of query
    PointTicks   \* bound: the ticks sampled

NoTime == -1
Slot == 1..NumSlots
Time == 0..MaxTick
Bases == BitBases \cup OpaqueBases \cup EventBases
Native == {"fsdb", "shm", "wlf", "wdb"}
ComputedSlots == {s \in Slot : SlotBase[s] = Computed}
EventSlots == {s \in Slot : SlotBase[s] \in EventBases}
Width(s) == Len(From[s])
Value == UNION {[1..Width(s) -> Symbols] : s \in Slot}
NoState == [value |-> Missing, changedAt |-> NoTime]

\* The operands of a computed slot.
Inputs(s) == {From[s][k].of : k \in 1..Width(s)}

-----------------------------------------------------------------------------
(* What a record or an operand contributes to a slot. *)

\* project(): the bits of a base value a slot shows.
Project(s, v) == [k \in 1..Width(s) |-> v[From[s][k].bit]]

\* A concatenation or a slice of computed bits.  Missing operands are X once
\* any operand is observed; with none observed the result stays Missing.
Assemble(s, cur) ==
    IF \A i \in Inputs(s) : cur[i] = Missing
    THEN Missing
    ELSE [k \in 1..Width(s) |->
            IF cur[From[s][k].of] = Missing
            THEN "x"
            ELSE cur[From[s][k].of][From[s][k].bit]]

-----------------------------------------------------------------------------
(* The meaning of a source, against which the engine is judged. *)

IsRecord(r) ==
    /\ r.base \in Bases
    /\ r.time \in Time
    /\ IF r.base \in EventBases
       THEN r.value = Missing /\ r.count \in Nat
       ELSE r.count = 0

\* i is the last record of base b that is not later than tick t.
IsLast(h, b, t, i) ==
    /\ i \in 1..Len(h.records)
    /\ h.records[i].base = b
    /\ h.records[i].time <= t
    /\ \A j \in 1..Len(h.records) :
          h.records[j].base = b /\ h.records[j].time <= t => j <= i

ASSUME PlanAssumption ==
    /\ NumSlots \in Nat
    /\ MaxTick \in Nat
    /\ MaxCount \in Nat \ {0}
    /\ Computed \notin Bases
    /\ EventBases \cap (BitBases \cup OpaqueBases) = {}
    /\ SlotBase \in [Slot -> Bases \cup {Computed}]
    /\ BaseWidth \in [BitBases -> Nat]
    /\ DOMAIN From = Slot
    /\ \A s \in Slot :
        /\ Width(s) \in Nat
        /\ \A k \in 1..Width(s) :
            /\ SlotBase[s] \in BitBases => From[s][k].bit \in 1..BaseWidth[SlotBase[s]]
            /\ SlotBase[s] = Computed =>
                  /\ From[s][k].of \in 1..(s - 1) \ EventSlots
                  /\ From[s][k].bit \in 1..Width(From[s][k].of)
    /\ Slices \subseteq Slot \ ComputedSlots
    /\ Selected \subseteq Slot /\ Selected # {}
    /\ Windows \subseteq Time \X (Time \cup {NoTime})
    /\ Batches \subseteq SUBSET Time
    /\ DriverSets \subseteq SUBSET Selected
    /\ PointTicks \subseteq Time
    /\ "x" \in Symbols
    /\ Missing \notin Value

ASSUME SourceAssumption ==
    \A h \in Histories :
        /\ Len(h.records) \in Nat
        /\ \A i \in 1..Len(h.records) : IsRecord(h.records[i])
        /\ \A i, j \in 1..Len(h.records) :
              i <= j => h.records[i].time <= h.records[j].time
        /\ h.span \in Time \cup {NoTime}
        /\ \A i \in 1..Len(h.records) : h.records[i].time <= h.span
        /\ \A s \in Slot, i \in 1..Len(h.records) :
              SlotBase[s] = h.records[i].base /\ s \notin EventSlots
                => Project(s, h.records[i].value) \in Value

\* obs is the meaning of the records: the last one of a base gives its slots
\* their value, and computed slots are assembled from the same tick.
ASSUME MeaningAssumption ==
    \A h \in Histories :
        /\ h.obs \in [Slot -> [Time -> Value \cup {Missing}]]
        /\ \A s \in Slot, t \in Time :
              h.obs[s][t] # Missing => DOMAIN h.obs[s][t] = 1..Width(s)
        /\ \A s \in Slot \ (ComputedSlots \cup EventSlots), t \in Time :
            /\ \A i \in 1..Len(h.records) :
                  IsLast(h, SlotBase[s], t, i)
                    => h.obs[s][t] = Project(s, h.records[i].value)
            /\ (\A i \in 1..Len(h.records) :
                  ~(h.records[i].base = SlotBase[s] /\ h.records[i].time <= t))
                    => h.obs[s][t] = Missing
        /\ \A s \in EventSlots, t \in Time : h.obs[s][t] = Missing
        /\ \A s \in ComputedSlots, t \in Time :
              h.obs[s][t] = Assemble(s, [i \in Slot |-> h.obs[i][t]])

\* The change time of slot s, observed at tick t.
ChangedOK(h, s, t, c) ==
    IF c = NoTime
    THEN \A u \in 0..t : h.obs[s][u] \in {Missing, h.obs[s][t]}
    ELSE /\ c \in 1..t
         /\ h.obs[s][c - 1] \notin {Missing, h.obs[s][c]}
         /\ \A u \in c..t : h.obs[s][u] = h.obs[s][t]

\* st is the state of slot s at the end of tick t.
StateOK(h, s, t, st) ==
    /\ st.value = h.obs[s][t]
    /\ IF st.value = Missing THEN st.changedAt = NoTime ELSE ChangedOK(h, s, t, st.changedAt)

\* st is the state of slot s after tick t, or before the first tick.
AfterOK(h, s, t, st) == IF t = NoTime THEN st = NoState ELSE StateOK(h, s, t, st)

\* st is the state of slot s before tick t.
EnteringOK(h, s, t, st) == AfterOK(h, s, t - 1, st)

\* The first record at or after tick t.
IsFirstAt(h, t, i) ==
    /\ i \in 1..(Len(h.records) + 1)
    /\ \A j \in 1..Len(h.records) : j < i <=> h.records[j].time < t

-----------------------------------------------------------------------------
VARIABLES
    hist, kind,            \* the open source and the reader in use
    replay, checkpoint,    \* Selection.replay and Selection.checkpoint
    call,                  \* the operation in progress or last made
    phase,                 \* where the operation is
    slots, active,         \* one slot per retained signal, those touched
    cursor,                \* the reader's next record
    pendingTime,           \* the tick being read
    replayStart,           \* start of the snapshot resumed from
    kept, considered,      \* the checkpoint to store, and whether it is settled
    work, after,           \* computations left in this tick, what follows it
    saved,                 \* the replay to store when the read succeeds
    emitted,               \* entering states have been delivered
    todo,                  \* requested ticks without a row yet
    prevTick, prevEvents,  \* QueryContext: last completed tick, its counts
    acc,                   \* sample_visit: states and counts collected
    received, result       \* what the caller was handed, tick by tick; how the call ended

source == <<hist, kind>>
caches == <<replay, checkpoint>>
reading == <<slots, active, cursor, pendingTime, replayStart, kept, considered>>
ticking == <<work, after, saved>>
visiting == <<emitted, todo, prevTick, prevEvents, acc>>
reply == <<received, result>>
vars == <<source, caches, call, phase, reading, ticking, visiting, reply>>

recs == hist.records
FreshSlot == [state |-> NoState, pending |-> Missing, events |-> 0]
Fresh == [s \in Slot |-> FreshSlot]
NoCall == [op |-> "none", first |-> 0, last |-> 0, from |-> NoTime,
           seed |-> FALSE, times |-> {}, drivers |-> {}]

\* The persistent part of a slot's observation at the end of a tick, and the
\* event count at exactly that tick.
Cell == [state : [value : Value \cup {Missing}, changedAt : Time \cup {NoTime}],
         events : 0..MaxCount]

SlotData == [state : [value : Value \cup {Missing}, changedAt : Time \cup {NoTime}],
             pending : Value \cup {Missing}, events : 0..MaxCount]

\* A snapshot: the slots entering tick `start`, or with the whole of tick
\* `time` pending, and the position of the first record not applied to them.
Replay == [pos : Nat \ {0}, start : Time, end : Time, time : Time \cup {NoTime},
           slots : [Slot -> SlotData]]

Init ==
    /\ hist \in Histories
    /\ kind \in Kinds
    /\ replay = None /\ checkpoint = None
    /\ call = NoCall /\ phase = "idle"
    /\ slots = Fresh /\ active = {} /\ cursor = 1 /\ pendingTime = NoTime
    /\ replayStart = 0 /\ kept = None /\ considered = FALSE
    /\ work = {} /\ after = "none" /\ saved = None
    /\ emitted = FALSE /\ todo = {}
    /\ prevTick = NoTime /\ prevEvents = [s \in Slot |-> 0]
    /\ acc = [s \in Slot |-> [state |-> NoState, events |-> 0]]
    /\ received = <<>> /\ result = "none"

-----------------------------------------------------------------------------
(* Observations of slots. *)

\* Mutant: a write is taken for a change.
WrittenMutant(d) == d.pending # Missing

\* The pending value of a tick differs from the state entering the tick.
Changed(d) == d.pending # Missing /\ d.pending # d.state.value

\* Mutant: the tick's own writes are not seen while it completes.
CurrentMutant(d) == d.state.value

\* composition::current: the value a slot shows while its tick completes.
Current(d) == IF d.pending # Missing THEN d.pending ELSE d.state.value

\* Slot::sample: with a tick the completed pending tick, without one the
\* committed state of a quiet tick.
SampleOf(s, d, tick) ==
    IF s \in EventSlots
    THEN [state |-> NoState, events |-> IF tick # NoTime THEN d.events ELSE 0]
    ELSE [state |->
            IF tick = NoTime THEN d.state
            ELSE [value |-> Current(d),
                  changedAt |-> IF Changed(d) /\ d.state.value # Missing
                                THEN tick ELSE d.state.changedAt],
          events |-> 0]

\* complete_tick: a touched slot takes over its pending value.
Commit(d, tick) ==
    [state |-> IF Changed(d)
               THEN [value |-> d.pending,
                     changedAt |-> IF d.state.value = Missing THEN NoTime ELSE tick]
               ELSE d.state,
     pending |-> Missing, events |-> 0]

Observation(what, t, s, c) ==
    [what |-> what, time |-> t, slot |-> s, state |-> c.state, events |-> c.events]

Observations ==
    [what : {"initial", "change", "sample"}, time : Time, slot : Selected,
     state : [value : Value \cup {Missing}, changedAt : Time \cup {NoTime}], events : 0..MaxCount]

\* What the callbacks of one step hand over.
Parcel == (SUBSET Observations) \ {{}}

\* A step hands over what its callbacks tell; without a callback, nothing.
Hand(new) == received' = IF new = {} THEN received ELSE Append(received, new)

\* Everything the caller has received.
out == UNION {received[i] : i \in DOMAIN received}

\* The entering states, in scan_tick and at the end of a scan.
Initials(ds) ==
    {Observation("initial", call.first, s, [state |-> ds[s].state, events |-> 0]) :
        s \in {x \in Selected : ds[x].state.value # Missing}}

\* Mutant: entering states accompany every tick.
EnteringMutant == Initials(slots)

\* Entering states are delivered once, before anything of the range.
Entering == IF emitted THEN {} ELSE Initials(slots)

\* The net changes and event totals of a completed tick.
Changes(t) ==
    {Observation("change", t, s, SampleOf(s, slots[s], t)) :
        s \in {x \in Selected : Changed(slots[x]) \/ slots[x].events > 0}}

SamplesOf(t, tick) ==
    {Observation("sample", t, s, SampleOf(s, slots[s], tick)) : s \in Selected}

\* Mutant: the remembered counts may be those of any earlier tick.
SamplesBeforeMutant(t) ==
    {Observation("sample", t - 1, s,
        [state |-> SampleOf(s, slots[s], NoTime).state, events |-> prevEvents[s]]) :
            s \in Selected}

\* QueryContext::visit_samples at the tick before t: events are remembered only
\* when that tick was the last one completed.
SamplesBefore(t) ==
    {Observation("sample", t - 1, s,
        [state |-> SampleOf(s, slots[s], NoTime).state,
         events |-> IF prevTick = t - 1 THEN prevEvents[s] ELSE 0]) : s \in Selected}

\* Mutant: only drivers with records of their own are looked at.
IsCandidateMutant ==
    /\ pendingTime >= call.first
    /\ \E s \in call.drivers \ ComputedSlots : slots[s].pending # Missing \/ slots[s].events > 0

\* A driver was written at this tick.
IsCandidate ==
    /\ pendingTime >= call.first
    /\ \E s \in call.drivers : slots[s].pending # Missing \/ slots[s].events > 0

\* What the visitor of each operation hands to the caller for a completed tick.
Delivery ==
    CASE call.op = "scan" ->
            Entering \cup Changes(pendingTime)
      [] call.op = "samples_at" ->
            UNION {SamplesOf(t, IF t = pendingTime THEN t ELSE NoTime) :
                      t \in {u \in todo : u <= pendingTime}}
      [] call.op = "query" ->
            IF ~IsCandidate THEN {}
            ELSE SamplesOf(pendingTime, pendingTime)
                 \cup (IF pendingTime > 0 THEN SamplesBefore(pendingTime) ELSE {})
      [] OTHER -> {}

-----------------------------------------------------------------------------
(* Starting an operation. *)

\* The locals of a traversal, dropped when the call returns.
DropLocals ==
    /\ slots' = Fresh /\ active' = {} /\ cursor' = 1 /\ pendingTime' = NoTime
    /\ replayStart' = 0 /\ kept' = None /\ considered' = FALSE
    /\ work' = {} /\ after' = "none" /\ saved' = None
    /\ emitted' = FALSE /\ todo' = {}
    /\ prevTick' = NoTime /\ prevEvents' = [s \in Slot |-> 0]
    /\ acc' = [s \in Slot |-> [state |-> NoState, events |-> 0]]

\* The call returns; an early stop, an error or an unwind leaves no cache,
\* because both were taken out of the selection before any callback ran.
Return(how) ==
    /\ phase' = "idle"
    /\ result' = how
    /\ DropLocals
    /\ UNCHANGED <<source, call>>

Abandon(how) == Return(how) /\ replay' = None /\ checkpoint' = None

\* A call whose range or argument list is empty returns without reading.
Begin(c, reads, first) ==
    /\ phase = "idle"
    /\ call' = c
    /\ phase' = IF reads THEN first ELSE "idle"
    /\ result' = IF reads THEN "running" ELSE "ok"
    /\ received' = <<>>
    /\ todo' = IF reads THEN c.times ELSE {}
    /\ UNCHANGED <<source, caches, reading, ticking, emitted, prevTick, prevEvents, acc>>

\* The last tick of a range; an unbounded one ends with the time span.
EndTick(end, unbounded) ==
    IF end # NoTime THEN end ELSE IF hist.span = NoTime THEN MaxTick ELSE unbounded

\* Selection::scan_each; NoTime as `end` is an unbounded range.
Scan(first, end) ==
    LET last == EndTick(end, IF hist.span < first THEN first ELSE hist.span)
    IN Begin([NoCall EXCEPT !.op = "scan", !.first = first, !.last = last,
                            !.from = first, !.seed = TRUE],
             first <= last, "seed")

\* Selection::samples_at traverses the prefix, without caches.
SamplesAt(times) ==
    \E last \in times :
        /\ \A t \in times : t <= last
        /\ Begin([NoCall EXCEPT !.op = "samples_at", !.last = last, !.seed = TRUE,
                                !.times = times],
                 TRUE, "seed")

\* Selection::query also reads the tick before the range.
Query(first, end, drivers) ==
    LET last == EndTick(end, hist.span)
    IN Begin([NoCall EXCEPT !.op = "query", !.first = first, !.last = last,
                            !.from = first - 1, !.seed = TRUE, !.drivers = drivers],
             drivers # {} /\ first <= last, "seed")

\* Selection::sample_visit first tries a point read, then scans one tick.
Sample(t) ==
    /\ ~(kind = "shm" /\ ComputedSlots = {} /\ replay # None /\ replay.end = t)
    /\ Begin([NoCall EXCEPT !.op = "sample", !.first = t, !.last = t, !.from = t,
                            !.seed = kind # "shm"],
             TRUE, "point")

\* shm_replay_sample_visit answers from the snapshot that ends at this tick.
ShmReplaySample(t) ==
    /\ phase = "idle"
    /\ kind = "shm" /\ ComputedSlots = {} /\ replay # None /\ replay.end = t
    /\ call' = [NoCall EXCEPT !.op = "sample", !.first = t, !.last = t, !.from = t]
    /\ received' = <<{Observation("sample", t, s,
                        [state |-> SampleOf(s, replay.slots[s], replay.time).state,
                         events |-> 0]) : s \in Selected}>>
    /\ \/ result' = "ok" /\ UNCHANGED caches
       \/ result' = "stopped" /\ replay' = None /\ checkpoint' = None
    /\ UNCHANGED <<source, phase, reading, ticking, visiting>>

-----------------------------------------------------------------------------
(* Point reads: point_states, for sample_visit and to seed a window. *)

PointTick == IF phase = "point" THEN call.first ELSE call.from - 1

\* Mutant: a snapshot taken after the lower bound is resumed.
EligibleMutant(r) == r # None /\ call.from # NoTime /\ r.end <= call.last

\* replay_eligible: a snapshot this read can continue.
Eligible(r) == /\ r # None
               /\ call.from # NoTime
               /\ r.start <= call.from
               /\ r.end <= call.last

PointEligible(r) == r # None /\ r.start <= PointTick /\ r.end <= PointTick

\* A window seeds its entering state only when no snapshot supplies it.
Seeding ==
    \/ phase = "point"
    \/ /\ phase = "seed"
       /\ call.seed /\ call.from > 0
       /\ ~Eligible(replay) /\ ~Eligible(checkpoint)

\* repeats_one_source: every slot consists of whole copies of the one base.
Copies(w, s) ==
    /\ Width(s) > 0 /\ Width(s) % w = 0
    /\ \A k \in 1..Width(s) : (From[s][k].bit - 1) % w = (k - 1) % w

RepeatsOneSource ==
    /\ ComputedSlots # {}
    /\ \E b \in BitBases :
        /\ \A s \in Slot : SlotBase[s] \in {b, Computed}
        /\ BaseWidth[b] > 0
        /\ \A s \in Slot : Copies(BaseWidth[b], s)

\* Bit-only selections on a seeking reader, without compositions except
\* repetitions of one WDB source.
Seekable ==
    /\ kind \in Native
    /\ ComputedSlots = {} \/ (kind = "wdb" /\ RepeatsOneSource)
    /\ \A s \in Slot : SlotBase[s] \in BitBases \cup {Computed}
    /\ kind = "shm" => /\ PointTick # MaxTick
                       /\ \A s \in Slices : BaseWidth[SlotBase[s]] = 1

\* Mutant: any snapshot that ends at this tick, whatever is pending in it.
PointHitMutant == replay # None /\ replay.end = PointTick

\* The snapshot left by a completed point read at exactly this tick.
PointHit ==
    /\ replay # None
    /\ replay.time = NoTime /\ replay.end = PointTick /\ replay.start = PointTick + 1

\* No point read: continue with a chronological traversal.
PointDeclined ==
    /\ phase' = IF phase = "point" THEN "seed" ELSE "load"
    /\ UNCHANGED <<source, call, reading, ticking, visiting, reply>>

PointSkip ==
    /\ phase \in {"point", "seed"}
    /\ Seeding => \/ ~Seekable
                  \/ ~PointHit /\ (PointEligible(replay) \/ PointEligible(checkpoint))
    /\ PointDeclined
    /\ UNCHANGED caches

\* Answer with the states of all slots.
PointStates(states) ==
    /\ acc' = IF phase = "point"
              THEN [s \in Slot |-> [state |-> states[s], events |-> 0]] ELSE acc
    /\ phase' = IF phase = "point" THEN "reply" ELSE "load"
    /\ emitted' = (phase = "point")
    /\ UNCHANGED <<source, call, reading, ticking, todo, prevTick, prevEvents, reply>>

PointReuse ==
    /\ phase \in {"point", "seed"} /\ Seeding /\ Seekable /\ PointHit
    /\ PointStates([s \in Slot |-> replay.slots[s].state])
    /\ UNCHANGED caches

PointMiss ==
    /\ phase \in {"point", "seed"} /\ Seeding /\ Seekable /\ ~PointHit
    /\ ~PointEligible(replay) /\ ~PointEligible(checkpoint)

SlotsOf(states) == [s \in Slot |-> [FreshSlot EXCEPT !.state = states[s]]]

\* Mutant: the copies are laid out backwards.
RepeatedOrderMutant(s, b, st) ==
    LET w == BaseWidth[SlotBase[b]]
    IN IF st.value = Missing THEN NoState
       ELSE [value |-> [k \in 1..Width(s) |-> st.value[w - ((k - 1) % w)]],
             changedAt |-> st.changedAt]

\* repeated_source_slots: a repetition has the value and the change time of
\* its source.
Repeated(s, b, st) ==
    LET w == BaseWidth[SlotBase[b]]
    IN IF st.value = Missing THEN NoState
       ELSE [value |-> [k \in 1..Width(s) |-> st.value[((k - 1) % w) + 1]],
             changedAt |-> st.changedAt]

BaseSlots == Slot \ ComputedSlots

\* What a seeking reader answers for tick t: the states of base signals, from
\* which repetitions are derived.
PointResults(t) ==
    LET at(c, s) == [value |-> hist.obs[s][t], changedAt |-> c[s]]
    IN {[s \in Slot |-> IF s \in BaseSlots THEN at(c, s)
                        ELSE LET b == CHOOSE b \in BaseSlots : TRUE
                             IN Repeated(s, b, at(c, b))] :
        c \in {x \in [BaseSlots -> 0..t \cup {NoTime}] :
                 \A s \in BaseSlots : StateOK(hist, s, t, at(x, s))}}

\* Mutant: the snapshot claims to enter the tick that was read.
AfterPointMutant(i, states) ==
    [pos |-> i, start |-> PointTick, end |-> PointTick, time |-> NoTime, slots |-> SlotsOf(states)]

\* The snapshot of a completed point read: the states entering the next tick.
AfterPoint(i, states) ==
    [pos |-> i, start |-> PointTick + 1, end |-> PointTick,
     time |-> NoTime, slots |-> SlotsOf(states)]

\* The reader seeks.  The states after the tick become a snapshot for the next
\* one, unless there is no next tick or they exceed the size bound.
PointSeek ==
    /\ PointMiss
    /\ \E states \in PointResults(PointTick) :
        /\ PointStates(states)
        /\ \/ /\ PointTick < MaxTick
              /\ \E i \in 1..(Len(recs) + 1) :
                    /\ IsFirstAt(hist, PointTick + 1, i)
                    /\ replay' = AfterPoint(i, states)
           \/ replay' = None
    /\ checkpoint' = None

\* SHM cannot certify the point; the caches are already gone.
PointUncertified ==
    /\ PointMiss /\ kind = "shm"
    /\ PointDeclined
    /\ replay' = None /\ checkpoint' = None

PointFail == PointMiss /\ Abandon("error") /\ received' = <<>>

-----------------------------------------------------------------------------
(* read_ticks_from: choosing a snapshot, then one record at a time. *)

\* The checkpoint made of the states before the window.
Prefix(i, states) ==
    [pos |-> i, start |-> call.from, end |-> call.from - 1,
     time |-> NoTime, slots |-> SlotsOf(states)]

\* VCD workers can supply the state before the window and a position to resume
\* from; the result is kept as a checkpoint if it is small enough.
ParallelPrefix ==
    /\ phase = "load" /\ kind = "vcd"
    /\ replay = None /\ checkpoint = None
    /\ ComputedSlots = {} /\ Slices = {} /\ EventSlots = {}
    /\ call.from > 0
    /\ \E states \in PointResults(call.from - 1), i \in 1..(Len(recs) + 1) :
        /\ IsFirstAt(hist, call.from, i)
        /\ checkpoint' = Prefix(i, states)
    /\ UNCHANGED <<source, replay, call, phase, reading, ticking, visiting, reply>>

\* The slots a resumed snapshot has left to commit.
Touched(ds) == {s \in Slot : ds[s].pending # Missing \/ ds[s].events > 0}

\* Both caches leave the selection; the first eligible one is resumed.
Load ==
    LET from == IF Eligible(replay) THEN replay
                ELSE IF Eligible(checkpoint) THEN checkpoint ELSE None
        start == IF from = None THEN Fresh ELSE from.slots
    IN /\ phase = "load"
       /\ phase' = "read"
       /\ slots' = start
       /\ active' = Touched(start)
       /\ cursor' = IF from = None THEN 1 ELSE from.pos
       /\ pendingTime' = IF from = None THEN NoTime ELSE from.time
       /\ replayStart' = IF from = None THEN 0 ELSE from.start
       /\ kept' = checkpoint
       /\ considered' = (checkpoint # None /\ checkpoint.start = call.from)
       /\ replay' = None /\ checkpoint' = None
       /\ UNCHANGED <<source, call, ticking, visiting, reply>>

HasRecord == cursor <= Len(recs) /\ recs[cursor].time <= call.last

\* Positions are reported by VCD, and by native readers without events.
ReportsPosition == kind = "vcd" \/ (kind \in Native /\ EventSlots = {})

\* A record of a later tick, or the end of the read, completes a tick first.
CompleteTick(then) ==
    /\ phase' = "complete"
    /\ work' = ComputedSlots
    /\ after' = then
    /\ UNCHANGED <<source, caches, call, reading, visiting, reply>>

\* Mutant: every record completes the tick it belongs to.
TickPassedMutant ==
    /\ phase = "read" /\ HasRecord
    /\ pendingTime # NoTime
    /\ CompleteTick("deliver")
    /\ UNCHANGED saved

TickPassed ==
    /\ phase = "read" /\ HasRecord
    /\ pendingTime # NoTime /\ pendingTime # recs[cursor].time
    /\ CompleteTick("deliver")
    /\ UNCHANGED saved

\* GHW reports the end of a tick even when no selected record follows it.
TickBoundary ==
    /\ phase = "read" /\ kind = "ghw" /\ pendingTime # NoTime
    /\ HasRecord => pendingTime # recs[cursor].time
    /\ CompleteTick("tick")
    /\ UNCHANGED saved

Arriving ==
    /\ HasRecord
    /\ \/ phase = "read" /\ pendingTime \in {NoTime, recs[cursor].time}
       \/ phase = "deliver"

\* The first record inside the window, before it is applied, is where a
\* checkpoint is taken: every earlier tick has been committed.
AtWindow ==
    /\ ~considered
    /\ call.from # NoTime /\ ReportsPosition
    /\ recs[cursor].time >= call.from
    /\ pendingTime < call.from

Considers ==
    IF AtWindow
    THEN /\ considered' = TRUE
         /\ kept' \in {None, [pos |-> cursor, start |-> call.from,
                              end |-> recs[cursor].time, time |-> NoTime, slots |-> slots]}
    ELSE UNCHANGED <<considered, kept>>

\* Mutant: occurrences are added without a check.
FitsMutant(s, n) == TRUE

\* The occurrences of a tick stay representable: checked_add.
Fits(s, n) == slots[s].events + n <= MaxCount

\* Every slot of the record's base takes the value or adds the occurrences.
Deliver ==
    LET r == recs[cursor]
        touched == {s \in Slot : SlotBase[s] = r.base}
    IN /\ Arriving
       /\ \A s \in touched \cap EventSlots : Fits(s, r.count)
       /\ Considers
       /\ pendingTime' = r.time
       /\ cursor' = cursor + 1
       /\ slots' = [s \in Slot |->
                      IF s \notin touched THEN slots[s]
                      ELSE IF s \in EventSlots
                      THEN [slots[s] EXCEPT !.events = @ + r.count]
                      ELSE [slots[s] EXCEPT !.pending = Project(s, r.value)]]
       /\ active' = active \cup {s \in touched : s \in EventSlots => r.count > 0}
       /\ phase' = "read"
       /\ UNCHANGED <<source, caches, call, replayStart, ticking, visiting, reply>>

\* The reader fails, a record cannot be decoded, or a count overflows.  What
\* has been delivered stays delivered; collected results are dropped.
Owned == call.op \in {"sample", "samples_at"}

ReadFails ==
    /\ phase \in {"read", "deliver"}
    /\ Abandon("error")
    /\ received' = IF Owned THEN <<>> ELSE received

\* The end of the records up to the requested tick.  The snapshot is taken
\* before the last tick completes, so that a later query can continue it.
SavesReplay ==
    \/ kind = "vcd"
    \/ kind \in Native /\ EventSlots = {} /\ call.last < MaxTick

\* Mutant: the snapshot enters the requested tick, not the last one read.
SnapshotMutant ==
    [pos |-> cursor, start |-> IF pendingTime = NoTime THEN replayStart ELSE call.last,
     end |-> call.last, time |-> pendingTime, slots |-> slots]

Snapshot ==
    [pos |-> cursor, start |-> IF pendingTime = NoTime THEN replayStart ELSE pendingTime,
     end |-> call.last, time |-> pendingTime, slots |-> slots]

\* FSDB and VCD keep the snapshot whatever its size.
EndOfRecords ==
    /\ phase = "read" /\ ~HasRecord
    /\ saved' \in IF ~SavesReplay THEN {None}
                  ELSE IF kind \in {"vcd", "fsdb"} THEN {Snapshot} ELSE {Snapshot, None}
    /\ IF pendingTime # NoTime
       THEN CompleteTick("end")
       ELSE /\ phase' = "store"
            /\ UNCHANGED <<source, caches, call, reading, work, after, visiting, reply>>

-----------------------------------------------------------------------------
(* complete_tick: computations in plan order, the visitor, the commit. *)

\* Mutant: a computation runs only when all of its operands were written.
LiveMutant(s) == \A i \in Inputs(s) : slots[i].pending # Missing

\* A computation runs when an operand was written at this tick.
Live(s) == \E i \in Inputs(s) : slots[i].pending # Missing

Compute ==
    \E s \in work :
        LET cur == [i \in Slot |-> Current(slots[i])]
        IN /\ phase = "complete"
           /\ \A o \in work : s <= o
           /\ work' = work \ {s}
           /\ slots' = IF Live(s) THEN [slots EXCEPT ![s].pending = Assemble(s, cur)] ELSE slots
           /\ active' = IF Live(s) THEN active \cup {s} ELSE active
           /\ UNCHANGED <<source, caches, call, phase, cursor, pendingTime, replayStart,
                          kept, considered, after, saved, visiting, reply>>

\* Mutant: the lower bound is exclusive.
VisitedMutant == call.from = NoTime \/ pendingTime > call.from

\* Ticks before the lower bound are read but not visited.
Visited == call.from = NoTime \/ pendingTime >= call.from

\* sample_visit collects the entering state and updates it with the change.
Collected ==
    [s \in Slot |->
        [state |-> Commit(slots[s], pendingTime).state, events |-> slots[s].events]]

\* GHW takes the pending tick; otherwise the next record replaces it.
OpenTick == IF after = "tick" THEN NoTime ELSE pendingTime

FinishTick ==
    /\ phase = "complete" /\ work = {}
    /\ IF Visited THEN Hand(Delivery) ELSE UNCHANGED received
    /\ emitted' = (emitted \/ (Visited /\ pendingTime >= call.first))
    /\ todo' = {t \in todo : t > pendingTime}
    /\ acc' = IF Visited /\ call.op = "sample" THEN Collected ELSE acc
    /\ IF Visited /\ call.op = "query"
       THEN prevTick' = pendingTime /\ prevEvents' = [s \in Slot |-> slots[s].events]
       ELSE UNCHANGED <<prevTick, prevEvents>>
    /\ slots' = [s \in Slot |-> IF s \in active THEN Commit(slots[s], pendingTime) ELSE slots[s]]
    /\ active' = {}
    /\ pendingTime' = OpenTick
    /\ phase' = CASE after = "deliver" -> "deliver"
                  [] after = "tick" -> "read"
                  [] OTHER -> "store"
    /\ after' = "none"
    /\ UNCHANGED <<source, caches, call, cursor, replayStart, kept, considered, work, saved, result>>

\* The caller breaks, fails or unwinds inside a callback of this tick.  A stop
\* before the last callback hands over fewer of the same records, which no
\* property of a stopped call tells apart.
StopTick ==
    /\ phase = "complete" /\ work = {} /\ Visited
    /\ call.op \in {"scan", "query"} /\ Delivery # {}
    /\ Hand(Delivery)
    /\ Abandon("stopped")

-----------------------------------------------------------------------------
(* The read succeeded: store the caches, then the callbacks that follow. *)

Store ==
    /\ phase = "store"
    /\ replay' = saved /\ checkpoint' = kept
    /\ phase' = "reply"
    /\ acc' = IF emitted THEN acc
              ELSE [s \in Slot |-> [state |-> slots[s].state, events |-> 0]]
    /\ UNCHANGED <<source, call, reading, ticking, emitted, todo, prevTick, prevEvents, reply>>

\* Entering states of a quiet window, rows after the last record, samples.
Rest ==
    CASE call.op = "scan" -> Entering
      [] call.op = "samples_at" -> UNION {SamplesOf(t, NoTime) : t \in todo}
      [] call.op = "sample" ->
            {Observation("sample", call.first, s, acc[s]) : s \in Selected}
      [] OTHER -> {}

Reply ==
    /\ phase = "reply"
    /\ Hand(Rest)
    /\ Return("ok")
    /\ UNCHANGED caches

\* A callback stops here: the caches were taken again and are not put back.
StopReply ==
    /\ phase = "reply" /\ call.op \in {"scan", "sample"} /\ Rest # {}
    /\ Hand(Rest)
    /\ Abandon("stopped")

Operation ==
    \/ \E w \in Windows : Scan(w[1], w[2])
    \/ \E times \in Batches : SamplesAt(times)
    \/ \E w \in Windows, d \in DriverSets : Query(w[1], w[2], d)
    \/ \E t \in PointTicks : Sample(t)
    \/ \E t \in PointTicks : ShmReplaySample(t)

Step ==
    \/ PointSkip \/ PointReuse \/ PointSeek \/ PointUncertified \/ PointFail
    \/ ParallelPrefix \/ Load
    \/ TickPassed \/ TickBoundary \/ Deliver \/ ReadFails \/ EndOfRecords
    \/ Compute \/ FinishTick \/ StopTick
    \/ Store \/ Reply \/ StopReply

Next == Operation \/ Step

Spec == Init /\ [][Next]_vars

-----------------------------------------------------------------------------
(* Properties. *)

Phases == {"idle", "point", "seed", "load", "read", "deliver", "complete", "store", "reply"}

\* Every variable holds a value of its type; snapshots are well formed.
TypeOK ==
    /\ kind \in Kinds
    /\ replay \in Replay \cup {None} /\ checkpoint \in Replay \cup {None}
    /\ kept \in Replay \cup {None} /\ saved \in Replay \cup {None}
    /\ call \in [op : {"none", "scan", "sample", "samples_at", "query"},
                 first : Time, last : Time, from : Time \cup {NoTime},
                 seed : BOOLEAN, times : SUBSET Time, drivers : SUBSET Selected]
    /\ phase \in Phases
    /\ slots \in [Slot -> SlotData] /\ active \subseteq Slot
    /\ cursor \in Nat \ {0} /\ pendingTime \in Time \cup {NoTime}
    /\ replayStart \in Time /\ considered \in BOOLEAN
    /\ work \subseteq ComputedSlots
    /\ after \in {"none", "deliver", "tick", "end"}
    /\ emitted \in BOOLEAN /\ todo \subseteq Time
    /\ prevTick \in Time \cup {NoTime} /\ prevEvents \in [Slot -> 0..MaxCount]
    /\ acc \in [Slot -> Cell]
    /\ received \in Seq(Parcel)
    /\ result \in {"none", "running", "ok", "stopped", "error"}

\* A slot's value at the end of tick t differs from the tick before.
NetChange(h, s, t) ==
    /\ h.obs[s][t] # Missing
    /\ t > 0 => h.obs[s][t - 1] # h.obs[s][t]

\* The occurrences of slot s recorded at exactly tick t.
Occurrences(h, s, t) ==
    LET sum[i \in 0..Len(h.records)] ==
            IF i = 0 THEN 0
            ELSE sum[i - 1] + IF h.records[i].base = SlotBase[s] /\ h.records[i].time = t
                              THEN h.records[i].count ELSE 0
    IN sum[Len(h.records)]

\* A slot shows, as pending, what the records before `pos` wrote at tick t.
PendingOK(h, ds, t, pos) ==
    \A s \in Slot \ (ComputedSlots \cup EventSlots) :
        LET wrote == {i \in 1..Len(h.records) :
                        i < pos /\ h.records[i].base = SlotBase[s] /\ h.records[i].time = t}
        IN IF wrote = {} THEN ds[s].pending = Missing
           ELSE \E i \in wrote : /\ \A j \in wrote : j <= i
                                 /\ ds[s].pending = Project(s, h.records[i].value)

\* A snapshot of a selection stands for the source: its slots hold exactly the
\* states entering its tick, its pending values are that tick's last records,
\* and the position separates the records it stands for from the others.
SnapshotOK(h, r) ==
    /\ \A s \in Slot : EnteringOK(h, s, r.start, r.slots[s].state)
    /\ IF r.time = NoTime
       THEN /\ IsFirstAt(h, r.start, r.pos)
            /\ \A s \in Slot : r.slots[s].pending = Missing /\ r.slots[s].events = 0
       ELSE /\ r.time = r.start /\ r.start <= r.end
            /\ r.pos \in 1..(Len(h.records) + 1)
            /\ \A i \in 1..Len(h.records) :
                  IF i < r.pos THEN h.records[i].time <= r.start ELSE h.records[i].time > r.end
            /\ PendingOK(h, r.slots, r.time, r.pos)
            /\ \A s \in ComputedSlots \cup EventSlots : r.slots[s].pending = Missing

\* Whatever sequence of queries, stops, errors and unwinds came before, the
\* replay and the checkpoint a Selection holds stand for the source.
CachesFaithful ==
    /\ replay # None => SnapshotOK(hist, replay)
    /\ checkpoint # None => SnapshotOK(hist, checkpoint)

\* The strengthening of CachesFaithful that every step preserves.  Between
\* ticks the slots hold the states after tick t and the cursor separates the
\* records up to t from the rest.
Settled(t) ==
    /\ \A i \in 1..Len(recs) : i < cursor <=> recs[i].time <= t
    /\ \A s \in Slot : /\ slots[s].pending = Missing /\ slots[s].events = 0
                       /\ AfterOK(hist, s, t, slots[s].state)

\* Before the first tick of a read, or after a tick boundary.
Rested ==
    \E t \in Time \cup {NoTime} :
        /\ Settled(t)
        /\ kind # "ghw" => t = replayStart - 1

\* While a tick is read its records before the cursor are pending on top of the
\* states entering it.
TickOpen ==
    /\ pendingTime <= call.last
    /\ \A i \in 1..Len(recs) : IF i < cursor THEN recs[i].time <= pendingTime
                               ELSE recs[i].time >= pendingTime
    /\ \A s \in Slot : EnteringOK(hist, s, pendingTime, slots[s].state)
    /\ PendingOK(hist, slots, pendingTime, cursor)
    /\ \A s \in EventSlots : slots[s].pending = Missing
    /\ \A s \in Slot : slots[s].pending # Missing \/ slots[s].events > 0 => s \in active

\* While it completes, computed slots no longer in `work` show the meaning of
\* this tick.
TickClosing ==
    /\ TickOpen
    /\ \A i \in 1..Len(recs) : i >= cursor => recs[i].time > pendingTime
    /\ \A s \in ComputedSlots :
          IF s \in work THEN slots[s].pending = Missing
          ELSE Current(slots[s]) = hist.obs[s][pendingTime]

ReadInv ==
    /\ phase \in {"read", "deliver", "complete", "store"} =>
          /\ cursor \in 1..(Len(recs) + 1)
          /\ call.from # NoTime => replayStart <= call.from
          /\ replay = None /\ checkpoint = None
    /\ phase = "read" =>
          IF pendingTime = NoTime THEN Rested
          ELSE TickOpen /\ \A s \in ComputedSlots : slots[s].pending = Missing
    /\ phase = "deliver" => pendingTime # NoTime /\ HasRecord /\ Settled(pendingTime)
    /\ phase = "complete" =>
          /\ pendingTime # NoTime /\ TickClosing
          /\ after = "deliver" => HasRecord
          /\ after = "tick" => kind = "ghw"
          /\ after # "none"
    /\ kept # None => SnapshotOK(hist, kept)
    /\ saved # None => SnapshotOK(hist, saved)

\* TypeOK and CachesFaithful as an inductive invariant.
EngineInv == TypeOK /\ ReadInv /\ CachesFaithful

\* Every value a caller has received is the one the source defines: the state
\* entering a range, the net change of a completed tick, the state and change
\* time at a requested tick.
StatesSound ==
    \A o \in out :
        CASE o.what = "initial" ->
                EnteringOK(hist, o.slot, call.first, o.state) /\ o.state.value # Missing
          [] o.what = "change" ->
                o.slot \notin EventSlots =>
                    NetChange(hist, o.slot, o.time) /\ o.state.value = hist.obs[o.slot][o.time]
          [] OTHER -> StateOK(hist, o.slot, o.time, o.state)

\* Every event count a caller has received is the exact total of its tick, never
\* carried into a later tick, and an event is only delivered as a change when
\* it occurred.
EventsSound ==
    \A o \in out :
        o.what # "initial" =>
            /\ o.events = Occurrences(hist, o.slot, o.time)
            /\ o.what = "change" /\ o.slot \in EventSlots => o.events > 0

Active(s, t) == NetChange(hist, s, t) \/ Occurrences(hist, s, t) > 0

Has(what, t, s) == \E o \in out : o.what = what /\ o.time = t /\ o.slot = s

\* A call that succeeds has left nothing out: a scan no entering state and no
\* active tick of its range, a query no active tick of a driver, a point read
\* or batch no requested tick.
SuccessComplete ==
    result = "ok" =>
        CASE call.op = "scan" ->
                \A s \in Selected :
                    /\ (/\ call.first > 0 /\ call.first <= call.last
                        /\ hist.obs[s][call.first - 1] # Missing)
                          => Has("initial", call.first, s)
                    /\ \A t \in call.first..call.last : Active(s, t) => Has("change", t, s)
          [] call.op = "query" ->
                \A t \in call.first..call.last :
                    (\E d \in call.drivers : Active(d, t)) =>
                        \A s \in Selected :
                            Has("sample", t, s) /\ (t > 0 => Has("sample", t - 1, s))
          [] call.op = "samples_at" -> \A t \in call.times, s \in Selected : Has("sample", t, s)
          [] call.op = "sample" -> \A s \in Selected : Has("sample", call.first, s)
          [] OTHER -> TRUE

\* Mutant: the first value ever seen counts as a change.
SavedChangeTimeMutant(before, initial, t) == t

\* A saved change has a predecessor in the trace: an earlier change or the
\* entering state.
SavedChangeTime(before, initial, t) ==
    IF Cardinality(before) > 1 \/ initial # {} THEN t ELSE NoTime

\* Trace::sample on the changes a scan saved, for a covered tick t.
SavedSample(s, t) ==
    LET before == {o \in out : o.what = "change" /\ o.slot = s /\ o.time <= t}
        initial == {o \in out : o.what = "initial" /\ o.slot = s}
    IN IF s \in EventSlots
       THEN [state |-> NoState,
             events |-> IF \E o \in before : o.time = t
                        THEN (CHOOSE o \in before : o.time = t).events ELSE 0]
       ELSE IF before # {}
       THEN LET last == CHOOSE o \in before : \A p \in before : p.time <= o.time
            IN [state |-> [value |-> last.state.value,
                           changedAt |-> SavedChangeTime(before, initial, last.time)],
                events |-> 0]
       ELSE [state |-> IF initial = {} THEN NoState ELSE (CHOOSE o \in initial : TRUE).state,
             events |-> 0]

\* An owned trace answers every tick of its range as the source would.
SavedTraceFaithful ==
    (result = "ok" /\ call.op = "scan") =>
        \A s \in Selected, t \in call.first..call.last :
            /\ StateOK(hist, s, t, SavedSample(s, t).state)
            /\ SavedSample(s, t).events = Occurrences(hist, s, t)

\* New is about a later tick than old, and is nothing that comes before the range; a
\* query looks at the tick before its candidate as well, which may be the last one told.
Precedes(old, new) ==
    /\ \A o \in new : o.what # "initial" /\ \A p \in old : p.time <= o.time
    /\ \E o \in new : \A p \in old : p.time < o.time

\* What one call hands over comes in order: entering states once, with the first of it,
\* nothing about an earlier tick, and about each tick once, whatever snapshot the
\* traversal resumed and wherever ticks end.
InOrder ==
    \A i, j \in DOMAIN received : i < j => Precedes(received[i], received[j])

\* What a caller has received is what the source defines, and all of it once the call
\* succeeds: values, change times, event counts, deliveries, and the owned trace.
AnswersExact == StatesSound /\ EventsSound /\ SuccessComplete /\ SavedTraceFaithful
=============================================================================
