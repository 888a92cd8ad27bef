------------------------ MODULE QueryAnswersProofs ------------------------
(***************************************************************************)
(* What the callers of the query engine receive, for every plan, source,   *)
(* reader and sequence of calls: every state handed out is the one that    *)
(* the source defines.                                                     *)
(***************************************************************************)
EXTENDS QueryEngineProofs

-----------------------------------------------------------------------------
(* The invariant. *)

\* The tick that is being read, if there is one.
OpenTime == IF phase \in {"read", "complete"} THEN pendingTime ELSE NoTime

\* No tick at or after t has been completed.
Ahead(t) ==
    \A i \in 1..Len(recs) : i < cursor /\ recs[i].time >= t => recs[i].time = OpenTime

\* What the operations ask of the traversal.
CallShape ==
    /\ call.op \in {"scan", "sample"} => call.from = call.first
    /\ call.op = "sample" => call.first = call.last
    /\ call.op = "samples_at" => call.from = NoTime /\ \A t \in call.times : t <= call.last
    /\ phase # "idle" /\ call.from # NoTime => call.from <= call.last
    /\ phase # "idle" /\ call.op = "samples_at" => todo \subseteq call.times
    /\ phase = "point" => call.op = "sample"

\* Only event slots count occurrences.
CountsOnly(ds) == \A s \in Slot \ EventSlots : ds[s].events = 0

\* A replay without a pending tick was read to its end without a record.
Quiet(h, r) ==
    r.time = NoTime => r.start - 1 <= r.end /\ NoRecordIn(h, r.start - 1, r.end)

SnapshotsInv ==
    /\ CountsOnly(slots)
    /\ \A r \in {replay, checkpoint, kept, saved} \ {None} : CountsOnly(r.slots)
    /\ \A r \in {replay, saved} \ {None} : Quiet(hist, r)

\* Nothing that the caller is still to be told lies behind the traversal.
DueInv ==
    /\ phase \in {"idle", "point", "seed", "load"} => ~emitted
    /\ phase \in {"read", "deliver", "complete", "store", "reply"} =>
          /\ call.op \in {"scan", "sample"} /\ ~emitted => Ahead(call.first)
          /\ call.op = "samples_at" => \A t \in todo : Ahead(t)
    /\ phase \in {"read", "deliver", "complete"} /\ call.from = NoTime => replayStart = 0

\* Once the records are read, the slots hold the states after the last one.
EndInv ==
    /\ phase = "complete" /\ after = "end" => ~HasRecord
    /\ phase = "store" \/ (phase = "reply" /\ call.op # "sample") =>
          /\ \A i \in 1..Len(recs) : i >= cursor => recs[i].time > call.last
          /\ \E t \in Time \cup {NoTime} : Settled(t)

\* What sample_visit has collected is the state at its tick.
AccInv ==
    call.op = "sample" /\ (emitted \/ phase = "reply") =>
        \A s \in Slot : StateOK(hist, s, call.first, acc[s].state)

AnswerInv ==
    /\ Inv
    /\ CallShape /\ SnapshotsInv /\ DueInv /\ EndInv /\ AccInv
    /\ StatesSound

-----------------------------------------------------------------------------
(* States at ticks between which nothing is recorded. *)

LEMMA AfterBack ==
    ASSUME NEW h \in Histories, NEW s \in Slot, NEW st \in StateType,
           NEW t \in Time \cup {NoTime}, NEW u \in Time, t <= u,
           NoRecordIn(h, t, u), AfterOK(h, s, u, st)
    PROVE  AfterOK(h, s, t, st)
<1>1. StateOK(h, s, u, st)
  BY ZeroTick DEF AfterOK
<1>2. CASE t = NoTime
  <2>1. \A i \in 1..Len(h.records) : h.records[i].time > u
    BY <1>2, SourceFacts, PlanFacts DEF NoRecordIn, Time, NoTime
  <2>2. h.obs[s][u] = Missing
    BY <2>1, EarlyMissing
  <2>3. st = NoState
    BY <1>1, <2>2 DEF StateOK, StateType, NoState
  <2> QED BY <1>2, <2>3 DEF AfterOK
<1>3. CASE t # NoTime
  <2>1. t \in Time
    BY <1>3
  <2>2. StateOK(h, s, t, st)
    BY <1>1, <2>1, StateBack
  <2> QED BY <1>3, <2>2 DEF AfterOK
<1> QED BY <1>2, <1>3

\* The same records are not later than t and than u.
SameRecords(h, t, u) ==
    \A i \in 1..Len(h.records) : h.records[i].time <= t <=> h.records[i].time <= u

LEMMA AfterMoves ==
    ASSUME NEW h \in Histories, NEW s \in Slot, NEW st \in StateType,
           NEW t \in Time \cup {NoTime}, NEW u \in Time \cup {NoTime},
           SameRecords(h, t, u), AfterOK(h, s, t, st)
    PROVE  AfterOK(h, s, u, st)
<1>0. /\ Len(h.records) \in Nat /\ \A i \in 1..Len(h.records) : h.records[i].time \in Int
      /\ t \in Int /\ u \in Int
  BY SourceFacts, PlanFacts DEF Time, NoTime
<1>1. CASE t <= u
  <2>1. NoRecordIn(h, t, u)
    BY <1>0 DEF NoRecordIn, SameRecords
  <2>2. CASE u \in Time
    BY <1>1, <2>1, <2>2, StateKept
  <2>3. CASE u = NoTime
    <3>1. t = u
      BY <1>0, <1>1, <2>3, PlanFacts DEF Time, NoTime
    <3> QED BY <3>1
  <2> QED BY <2>2, <2>3
<1>2. CASE u < t
  <2>1. NoRecordIn(h, u, t) /\ u <= t
    BY <1>0, <1>2 DEF NoRecordIn, SameRecords
  <2>2. t \in Time
    BY <1>0, <1>2, PlanFacts DEF Time, NoTime
  <2> QED BY <2>1, <2>2, AfterBack
<1> QED BY <1>0, <1>1, <1>2

-----------------------------------------------------------------------------
(* Samples of slots. *)

LEMMA NoStateOK ==
    ASSUME NEW h \in Histories, NEW s \in EventSlots, NEW t \in Time
    PROVE  StateOK(h, s, t, NoState)
BY MeaningAssumption DEF StateOK, NoState

LEMMA SlotTyped ==
    ASSUME NEW d \in SlotData
    PROVE  d.state \in StateType /\ d.events \in Nat
BY PlanFacts DEF SlotData, StateType

\* Slot::sample of the tick that completes gives the state that it commits.
LEMMA SampleIsCommit ==
    ASSUME NEW h \in Histories, NEW s \in Slot, NEW t \in Time, NEW d \in SlotData,
           EnteringOK(h, s, t, d.state), s \notin EventSlots
    PROVE  SampleOf(s, d, t).state = Commit(d, t).state
<1>1. t # NoTime
  BY ZeroTick
<1>2. SampleOf(s, d, t).state =
        [value |-> Current(d), changedAt |-> IF Changed(d) /\ d.state.value # Missing
                                             THEN t ELSE d.state.changedAt]
  BY <1>1 DEF SampleOf
<1>3. d.state \in StateType
  BY SlotTyped
<1>4. d.state.value = Missing => d.state.changedAt = NoTime
  <2>1. CASE t = 0
    BY <2>1 DEF EnteringOK, AfterOK, NoState, NoTime
  <2>2. CASE t # 0
    <3>1. t - 1 # NoTime
      BY <2>2, PlanFacts DEF Time, NoTime
    <3> QED BY <3>1 DEF EnteringOK, AfterOK, StateOK
  <2> QED BY <2>1, <2>2
<1>5. CASE Changed(d)
  BY <1>2, <1>4, <1>5 DEF Commit, Changed, Current
<1>6. CASE ~Changed(d)
  <2>1. Current(d) = d.state.value
    BY <1>6 DEF Changed, Current
  <2>2. Commit(d, t).state = d.state
    BY <1>6 DEF Commit
  <2>3. d.state = [value |-> d.state.value, changedAt |-> d.state.changedAt]
    BY <1>3 DEF StateType
  <2> QED BY <1>2, <1>6, <2>1, <2>2, <2>3
<1> QED BY <1>5, <1>6

LEMMA SampleOK ==
    ASSUME NEW h \in Histories, NEW s \in Slot, NEW t \in Time, NEW d \in SlotData,
           EnteringOK(h, s, t, d.state), Current(d) = h.obs[s][t]
    PROVE  StateOK(h, s, t, SampleOf(s, d, t).state)
<1>1. CASE s \in EventSlots
  BY <1>1, NoStateOK DEF SampleOf
<1>2. CASE s \notin EventSlots
  BY <1>2, SampleIsCommit, CommitOK
<1> QED BY <1>1, <1>2

\* Without a tick it gives the state in force.
LEMMA QuietSampleOK ==
    ASSUME NEW h \in Histories, NEW s \in Slot, NEW t \in Time, NEW d,
           AfterOK(h, s, t, d.state)
    PROVE  StateOK(h, s, t, SampleOf(s, d, NoTime).state)
<1>1. CASE s \in EventSlots
  BY <1>1, NoStateOK DEF SampleOf
<1>2. CASE s \notin EventSlots
  BY <1>2, ZeroTick DEF SampleOf, AfterOK
<1> QED BY <1>1, <1>2

\* What a caller is told of a slot.
Told(o) ==
    CASE o.what = "initial" ->
            EnteringOK(hist, o.slot, call.first, o.state) /\ o.state.value # Missing
      [] o.what = "change" ->
            o.slot \notin EventSlots =>
                NetChange(hist, o.slot, o.time) /\ o.state.value = hist.obs[o.slot][o.time]
      [] OTHER -> StateOK(hist, o.slot, o.time, o.state)

LEMMA ReceivedTyped == AnswerInv => received \in Seq(Parcel)
BY DEF AnswerInv, Inv, EngineInv, TypeOK

LEMMA SoundIsTold == StatesSound <=> \A o \in out : Told(o)
BY DEF StatesSound, Told

LEMMA ToldSample ==
    ASSUME NEW t, NEW s, NEW c, StateOK(hist, s, t, c.state)
    PROVE  Told(Observation("sample", t, s, c))
BY DEF Told, Observation

LEMMA ToldInitial ==
    ASSUME NEW s, NEW c, EnteringOK(hist, s, call.first, c.state), c.state.value # Missing
    PROVE  Told(Observation("initial", call.first, s, c))
BY DEF Told, Observation

LEMMA ToldChange ==
    ASSUME NEW t, NEW s, NEW c,
           s \notin EventSlots => NetChange(hist, s, t) /\ c.state.value = hist.obs[s][t]
    PROVE  Told(Observation("change", t, s, c))
BY DEF Told, Observation

-----------------------------------------------------------------------------
(* Starting and ending a call. *)

Answers == CallShape /\ SnapshotsInv /\ DueInv /\ EndInv /\ AccInv /\ StatesSound

\* Nothing new is wrong.
LEMMA SoundKept ==
    ASSUME StatesSound, hist' = hist, call' = call, out' \in {out, {}}
    PROVE  StatesSound'
BY DEF StatesSound

LEMMA SoundGrows ==
    ASSUME StatesSound, hist' = hist, call' = call, NEW new, out' = out \cup new,
           \A o \in new : Told(o)
    PROVE  StatesSound'
<1>1. \A o \in out' : Told(o)
  BY SoundIsTold
<1>2. \A o \in out' : Told(o)'
  BY <1>1 DEF Told
<1> QED BY <1>2 DEF StatesSound, Told

LEMMA FreshCounts == CountsOnly(Fresh)
BY FreshType DEF CountsOnly

LEMMA ReturnAnswers ==
    ASSUME AnswerInv, NEW how, Return(how), StatesSound',
           replay' \in {replay, None}, checkpoint' \in {checkpoint, None}
    PROVE  Answers'
<1>1. /\ phase' = "idle" /\ call' = call /\ hist' = hist
      /\ slots' = Fresh /\ kept' = None /\ saved' = None
  BY DEF Return, DropLocals, source
<1>2. ~emitted'
  BY Zenon DEF Return, DropLocals
<1>3. CallShape'
  BY <1>1 DEF AnswerInv, CallShape
<1>4. SnapshotsInv'
  <2>1. CountsOnly(slots')
    BY <1>1, FreshCounts
  <2>2. \A r \in {replay', checkpoint', kept', saved'} \ {None} : CountsOnly(r.slots)
    BY <1>1 DEF AnswerInv, SnapshotsInv
  <2>3. \A r \in {replay', saved'} \ {None} : Quiet(hist', r)
    BY <1>1 DEF AnswerInv, SnapshotsInv
  <2> QED BY <2>1, <2>2, <2>3 DEF SnapshotsInv, CountsOnly
<1>5. DueInv' /\ EndInv'
  BY <1>1, <1>2 DEF DueInv, EndInv
<1>6. AccInv'
  BY <1>1, <1>2 DEF AccInv
<1> QED BY <1>3, <1>4, <1>5, <1>6 DEF Answers

\* What a call record asks of the traversal.
ShapeOK(c) ==
    /\ c.op \in {"scan", "sample"} => c.from = c.first
    /\ c.op = "sample" => c.first = c.last
    /\ c.op = "samples_at" => c.from = NoTime /\ \A t \in c.times : t <= c.last

LEMMA BeginAnswers ==
    ASSUME AnswerInv, NEW c, NEW reads, NEW first \in {"seed", "point"}, Begin(c, reads, first),
           ShapeOK(c), reads /\ c.from # NoTime => c.from <= c.last,
           first = "point" => c.op = "sample"
    PROVE  Answers'
<1>1. /\ phase = "idle" /\ call' = c /\ phase' \in {"idle", "seed", "point"}
      /\ phase' # "idle" => reads /\ phase' = first
      /\ phase' # "idle" => todo' = c.times
      /\ out' = {}
      /\ UNCHANGED <<hist, replay, checkpoint, slots, kept, saved>>
  BY OutNothing DEF Begin, source, caches, reading, ticking
<1>2. ~emitted'
  <2>1. ~emitted
    BY <1>1 DEF AnswerInv, DueInv
  <2> QED BY <2>1, Zenon DEF Begin
<1>3. CallShape'
  BY <1>1 DEF CallShape, ShapeOK
<1>4. SnapshotsInv'
  BY <1>1 DEF AnswerInv, SnapshotsInv
<1>5. DueInv' /\ EndInv'
  BY <1>1, <1>2 DEF DueInv, EndInv
<1>6. AccInv'
  BY <1>1, <1>2 DEF AccInv
<1>7. StatesSound'
  BY <1>1 DEF StatesSound
<1> QED BY <1>3, <1>4, <1>5, <1>6, <1>7 DEF Answers

\* A replay shows the states at its last tick.
LEMMA ReplayShows ==
    ASSUME NEW h \in Histories, NEW r \in Replay, SnapshotOK(h, r), Quiet(h, r),
           NEW s \in Slot, s \notin ComputedSlots
    PROVE  StateOK(h, s, r.end, SampleOf(s, r.slots[s], r.time).state)
<1>0. /\ Len(h.records) \in Nat /\ \A i \in 1..Len(h.records) : h.records[i].time \in Time
      /\ r.start \in Time /\ r.end \in Time /\ r.slots[s] \in SlotData /\ r.pos \in Nat
      /\ r.start - 1 \in Time \cup {NoTime}
  BY SourceFacts, PlanFacts DEF Replay, Time, NoTime
<1>1. EnteringOK(h, s, r.start, r.slots[s].state)
  BY DEF SnapshotOK
<1>2. CASE r.time = NoTime
  <2>1. AfterOK(h, s, r.start - 1, r.slots[s].state)
    BY <1>1 DEF EnteringOK
  <2>2. AfterOK(h, s, r.end, r.slots[s].state)
    BY <1>0, <1>2, <2>1, StateKept DEF Quiet
  <2> QED BY <1>0, <1>2, <2>2, QuietSampleOK
<1>3. CASE r.time # NoTime
  <2>1. /\ r.time = r.start /\ r.start <= r.end /\ PendingOK(h, r.slots, r.start, r.pos)
        /\ \A e \in EventSlots : r.slots[e].pending = Missing
        /\ \A i \in 1..Len(h.records) :
              IF i < r.pos THEN h.records[i].time <= r.start ELSE h.records[i].time > r.end
    BY <1>3 DEF SnapshotOK
  <2>2. \A i \in 1..Len(h.records) : i < r.pos <=> h.records[i].time <= r.start
    BY <1>0, <2>1, PlanFacts DEF Time
  <2>3. Current(r.slots[s]) = h.obs[s][r.start]
    BY <1>0, <1>1, <2>1, <2>2, PendingShows
  <2>4. StateOK(h, s, r.start, SampleOf(s, r.slots[s], r.start).state)
    BY <1>0, <1>1, <2>3, SampleOK
  <2>5. NoRecordIn(h, r.start, r.end)
    BY <1>0, <2>1 DEF NoRecordIn
  <2>6. AfterOK(h, s, r.start, SampleOf(s, r.slots[s], r.start).state)
    BY <1>0, <2>4, ZeroTick DEF AfterOK
  <2>7. AfterOK(h, s, r.end, SampleOf(s, r.slots[s], r.start).state)
    BY <1>0, <2>1, <2>5, <2>6, StateKept
  <2> QED BY <1>0, <2>1, <2>7, ZeroTick DEF AfterOK
<1> QED BY <1>2, <1>3

LEMMA ShmReplayAnswers ==
    ASSUME AnswerInv, NEW t \in PointTicks, ShmReplaySample(t)
    PROVE  Answers'
<1>1. /\ phase = "idle" /\ ComputedSlots = {} /\ replay # None /\ replay.end = t
      /\ call' = [NoCall EXCEPT !.op = "sample", !.first = t, !.last = t, !.from = t]
      /\ replay' \in {replay, None} /\ checkpoint' \in {checkpoint, None}
      /\ phase' = phase /\ UNCHANGED <<hist, slots, kept, saved, emitted>>
  BY DEF ShmReplaySample, source, caches, reading, ticking, visiting
<1>2. /\ call'.op = "sample" /\ call'.first = t /\ call'.last = t /\ call'.from = t
  BY <1>1 DEF NoCall
<1>3. ~emitted'
  BY <1>1, Zenon DEF AnswerInv, DueInv
<1>4. CallShape'
  BY <1>1, <1>2 DEF CallShape
<1>5. SnapshotsInv'
  BY <1>1 DEF AnswerInv, SnapshotsInv
<1>6. DueInv' /\ EndInv' /\ AccInv'
  BY <1>1, <1>3 DEF DueInv, EndInv, AccInv
<1>7. StatesSound'
  <2>1. replay \in Replay /\ SnapshotOK(hist, replay) /\ Quiet(hist, replay) /\ hist \in Histories
    BY <1>1 DEF AnswerInv, Inv, EngineInv, TypeOK, CachesFaithful, SnapshotsInv
  <2>2. ASSUME NEW s \in Selected
        PROVE  StateOK(hist, s, t, SampleOf(s, replay.slots[s], replay.time).state)
    BY <1>1, <2>1, ReplayShows, PlanFacts
  <2>3. \A o \in out' : /\ o.what = "sample" /\ o.time = t
                        /\ StateOK(hist, o.slot, o.time, o.state)
    <3>1. out' = {Observation("sample", t, s,
                    [state |-> SampleOf(s, replay.slots[s], replay.time).state,
                     events |-> 0]) : s \in Selected}
      BY OutOnly DEF ShmReplaySample
    <3> QED BY <2>2, <3>1 DEF Observation
  <2> QED BY <1>1, <2>3 DEF StatesSound
<1> QED BY <1>4, <1>5, <1>6, <1>7 DEF Answers

LEMMA OperationAnswers ==
    ASSUME AnswerInv, Operation
    PROVE  Answers'
<1> USE ZeroTick
<1>0. hist \in Histories /\ hist.span \in Time \cup {NoTime}
  BY SourceAssumption DEF AnswerInv, Inv
<1>1. ASSUME NEW w \in Windows, Scan(w[1], w[2])
      PROVE  Answers'
  <2> DEFINE last == EndTick(w[2], IF hist.span < w[1] THEN w[1] ELSE hist.span)
             c == [NoCall EXCEPT !.op = "scan", !.first = w[1], !.last = last,
                                 !.from = w[1], !.seed = TRUE]
  <2>1. Begin(c, w[1] <= last, "seed")
    BY <1>1 DEF Scan
  <2>2. c.op = "scan" /\ c.from = w[1] /\ c.first = w[1] /\ c.last = last
    BY DEF NoCall
  <2> HIDE DEF c, last
  <2>3. ShapeOK(c)
    BY <2>2 DEF ShapeOK
  <2>4. w[1] <= last /\ c.from # NoTime => c.from <= c.last
    BY <2>2
  <2> QED BY <2>1, <2>3, <2>4, BeginAnswers
<1>2. ASSUME NEW times \in Batches, SamplesAt(times)
      PROVE  Answers'
  <2>1. PICK last \in times :
           /\ \A t \in times : t <= last
           /\ Begin([NoCall EXCEPT !.op = "samples_at", !.last = last, !.seed = TRUE,
                                   !.times = times], TRUE, "seed")
    BY <1>2 DEF SamplesAt
  <2> DEFINE c == [NoCall EXCEPT !.op = "samples_at", !.last = last, !.seed = TRUE,
                                 !.times = times]
  <2>2. c.op = "samples_at" /\ c.from = NoTime /\ c.last = last /\ c.times = times
    BY DEF NoCall
  <2>3. Begin(c, TRUE, "seed")
    BY <2>1
  <2> HIDE DEF c
  <2>4. ShapeOK(c)
    BY <2>1, <2>2 DEF ShapeOK
  <2>5. c.from = NoTime
    BY <2>2
  <2> QED BY <2>3, <2>4, <2>5, BeginAnswers
<1>3. ASSUME NEW w \in Windows, NEW d \in DriverSets, Query(w[1], w[2], d)
      PROVE  Answers'
  <2> DEFINE last == EndTick(w[2], hist.span)
             c == [NoCall EXCEPT !.op = "query", !.first = w[1], !.last = last,
                                 !.from = w[1] - 1, !.seed = TRUE, !.drivers = d]
             reads == d # {} /\ w[1] <= last
  <2>1. w[1] \in Time /\ w[2] \in Time \cup {NoTime}
    BY PlanAssumption
  <2>2. last \in Time
    BY <1>0, <2>1, EndTickType
  <2>3. Begin(c, reads, "seed")
    BY <1>3 DEF Query
  <2>4. c.op = "query" /\ c.from = w[1] - 1 /\ c.last = last
    BY DEF NoCall
  <2> HIDE DEF c, last
  <2>5. ShapeOK(c)
    BY <2>4 DEF ShapeOK
  <2>6. reads /\ c.from # NoTime => c.from <= c.last
    BY <2>1, <2>2, <2>4, PlanFacts DEF Time
  <2> HIDE DEF reads
  <2> QED BY <2>3, <2>5, <2>6, BeginAnswers
<1>4. ASSUME NEW t \in PointTicks, Sample(t)
      PROVE  Answers'
  <2> DEFINE c == [NoCall EXCEPT !.op = "sample", !.first = t, !.last = t, !.from = t,
                                 !.seed = kind # "shm"]
  <2>1. t \in Nat
    BY PlanAssumption, PlanFacts DEF Time
  <2>2. c.op = "sample" /\ c.first = t /\ c.last = t /\ c.from = t
    BY DEF NoCall
  <2>3. Begin(c, TRUE, "point")
    BY <1>4 DEF Sample
  <2> HIDE DEF c
  <2>4. ShapeOK(c) /\ (TRUE /\ c.from # NoTime => c.from <= c.last)
    BY <2>1, <2>2 DEF ShapeOK
  <2> QED BY <2>2, <2>3, <2>4, BeginAnswers
<1>5. ASSUME NEW t \in PointTicks, ShmReplaySample(t)
      PROVE  Answers'
  BY <1>5, ShmReplayAnswers
<1> QED BY <1>1, <1>2, <1>3, <1>4, <1>5 DEF Operation

-----------------------------------------------------------------------------
(* Point reads and the choice of a snapshot. *)

\* Before the traversal starts, only the caches and the phase change.
LEMMA DeclinedAnswers ==
    ASSUME AnswerInv, phase \in {"point", "seed"}, PointDeclined,
           replay' \in {replay, None}, checkpoint' \in {checkpoint, None}
    PROVE  Answers'
<1>1. /\ phase' \in {"seed", "load"}
      /\ UNCHANGED <<hist, call, slots, kept, saved, emitted, todo, out, acc>>
  BY OutKept DEF PointDeclined, source, reading, ticking, visiting, reply
<1>2. ~emitted'
  BY <1>1, Zenon DEF AnswerInv, DueInv
<1>3. CallShape'
  BY <1>1 DEF AnswerInv, CallShape
<1>4. SnapshotsInv'
  BY <1>1 DEF AnswerInv, SnapshotsInv
<1>5. DueInv' /\ EndInv' /\ AccInv'
  BY <1>1, <1>2 DEF DueInv, EndInv, AccInv
<1>6. StatesSound'
  BY <1>1, SoundKept DEF AnswerInv
<1> QED BY <1>3, <1>4, <1>5, <1>6 DEF Answers

\* The states of a point read are those of its tick.
LEMMA PointStatesAnswers ==
    ASSUME AnswerInv, phase \in {"point", "seed"}, NEW states, PointStates(states),
           phase = "point" => \A s \in Slot : StateOK(hist, s, call.first, states[s]),
           \A r \in {replay', checkpoint'} \ {None} : CountsOnly(r.slots),
           replay' # None => Quiet(hist, replay')
    PROVE  Answers'
<1>1. UNCHANGED <<hist, call, slots, kept, saved, todo, out>>
  BY OutKept DEF PointStates, source, reading, ticking, reply
<1>4. CallShape' /\ DueInv' /\ EndInv' /\ AccInv'
  <2>1. CASE phase = "seed"
    <3>1. phase' = "load"
      BY <2>1 DEF PointStates
    <3>2. ~emitted'
      BY <2>1, Zenon DEF PointStates
    <3> QED BY <1>1, <2>1, <3>1, <3>2 DEF AnswerInv, CallShape, DueInv, EndInv, AccInv
  <2>2. CASE phase = "point"
    <3>1. /\ phase' = "reply" /\ call.op = "sample"
          /\ acc' = [s \in Slot |-> [state |-> states[s], events |-> 0]]
      BY <2>2 DEF PointStates, AnswerInv, CallShape
    <3>2. emitted'
      BY <2>2, Zenon DEF PointStates
    <3>3. CallShape' /\ DueInv' /\ EndInv'
      BY <1>1, <2>2, <3>1, <3>2 DEF AnswerInv, CallShape, DueInv, EndInv
    <3>4. AccInv'
      BY <1>1, <2>2, <3>1 DEF AccInv
    <3> QED BY <3>3, <3>4
  <2> QED BY <2>1, <2>2
<1>5. SnapshotsInv'
  BY <1>1 DEF AnswerInv, SnapshotsInv
<1>6. StatesSound'
  BY <1>1, SoundKept DEF AnswerInv
<1> QED BY <1>4, <1>5, <1>6 DEF Answers

LEMMA SlotsOfCounts ==
    ASSUME NEW states
    PROVE  CountsOnly(SlotsOf(states))
BY DEF CountsOnly, SlotsOf, FreshSlot

LEMMA PointReuseAnswers ==
    ASSUME AnswerInv, PointReuse
    PROVE  Answers'
<1> DEFINE states == [s \in Slot |-> replay.slots[s].state]
<1>1. /\ phase \in {"point", "seed"} /\ Seeding /\ PointHit /\ PointStates(states)
      /\ replay' = replay /\ checkpoint' = checkpoint
  BY DEF PointReuse, caches
<1>2. PointTick \in Time
  BY <1>1, PointTickType DEF AnswerInv
<1>3. /\ replay # None /\ SnapshotOK(hist, replay) /\ replay.start = PointTick + 1
  BY <1>1 DEF PointHit, AnswerInv, Inv, EngineInv, CachesFaithful
<1>4. ASSUME NEW s \in Slot PROVE StateOK(hist, s, PointTick, replay.slots[s].state)
  <2>1. EnteringOK(hist, s, PointTick + 1, replay.slots[s].state)
    BY <1>3 DEF SnapshotOK
  <2>2. (PointTick + 1) - 1 = PointTick /\ PointTick # NoTime
    BY <1>2, PlanFacts DEF Time, NoTime
  <2> QED BY <2>1, <2>2 DEF EnteringOK, AfterOK
<1>5. phase = "point" => \A s \in Slot : StateOK(hist, s, call.first, states[s])
  BY <1>4 DEF PointTick
<1>6. /\ \A r \in {replay', checkpoint'} \ {None} : CountsOnly(r.slots)
      /\ replay' # None => Quiet(hist, replay')
  BY <1>1 DEF AnswerInv, SnapshotsInv
<1> HIDE DEF states
<1> QED BY <1>1, <1>5, <1>6, PointStatesAnswers

LEMMA PointSeekAnswers ==
    ASSUME AnswerInv, PointSeek
    PROVE  Answers'
<1>1. phase \in {"point", "seed"} /\ Seeding /\ Seekable /\ checkpoint' = None
  BY DEF PointSeek, PointMiss
<1>2. PointTick \in Time /\ (ComputedSlots = {} \/ RepeatsOneSource)
  BY <1>1, PointTickType DEF Seekable, AnswerInv
<1>3. PICK states \in PointResults(PointTick) :
        /\ PointStates(states)
        /\ replay' = None \/ \E i : replay' = AfterPoint(i, states)
  BY DEF PointSeek
<1>4. \A s \in Slot : StateOK(hist, s, PointTick, states[s])
  BY <1>2, PointResultsOK DEF AnswerInv, Inv
<1>5. phase = "point" => \A s \in Slot : StateOK(hist, s, call.first, states[s])
  BY <1>4 DEF PointTick
<1>6. ASSUME replay' # None
      PROVE  CountsOnly(replay'.slots) /\ Quiet(hist, replay')
  <2>1. replay'.start = PointTick + 1 /\ replay'.end = PointTick /\ replay'.slots = SlotsOf(states)
    BY <1>3, <1>6 DEF AfterPoint
  <2>2. CountsOnly(replay'.slots)
    BY <2>1, SlotsOfCounts
  <2>3. NoRecordIn(hist, PointTick, PointTick)
    BY <1>2, SourceFacts, PlanFacts DEF NoRecordIn, Time, AnswerInv, Inv
  <2>4. (PointTick + 1) - 1 = PointTick /\ PointTick <= PointTick
    BY <1>2, PlanFacts DEF Time
  <2>5. replay'.start - 1 = PointTick
    BY <2>1, <2>4
  <2>6. Quiet(hist, replay')
    BY <2>1, <2>3, <2>4, <2>5 DEF Quiet
  <2> QED BY <2>2, <2>6
<1>7. \A r \in {replay', checkpoint'} \ {None} : CountsOnly(r.slots)
  BY <1>1, <1>6
<1> QED BY <1>1, <1>3, <1>5, <1>6, <1>7, PointStatesAnswers

LEMMA PointAnswers ==
    ASSUME AnswerInv, PointSkip \/ PointReuse \/ PointSeek \/ PointUncertified \/ PointFail
    PROVE  Answers'
<1>1. CASE PointSkip
  BY <1>1, DeclinedAnswers DEF PointSkip, caches
<1>2. CASE PointUncertified
  BY <1>2, DeclinedAnswers DEF PointUncertified, PointMiss
<1>3. CASE PointFail
  <2>1. StatesSound'
    BY <1>3, OutNothing DEF PointFail, StatesSound
  <2> QED BY <1>3, <2>1, ReturnAnswers DEF PointFail, Abandon
<1> QED BY <1>1, <1>2, <1>3, PointReuseAnswers, PointSeekAnswers

LEMMA ParallelPrefixAnswers ==
    ASSUME AnswerInv, ParallelPrefix
    PROVE  Answers'
<1>1. /\ phase = "load" /\ phase' = "load"
      /\ UNCHANGED <<hist, call, replay, slots, kept, saved, emitted, todo, out>>
  BY OutKept DEF ParallelPrefix, source, reading, ticking, visiting, reply
<1>2. PICK i, states : checkpoint' = Prefix(i, states)
  BY DEF ParallelPrefix
<1>3. CountsOnly(checkpoint'.slots)
  BY <1>2, SlotsOfCounts DEF Prefix
<1>4. ~emitted'
  BY <1>1, Zenon DEF AnswerInv, DueInv
<1>5. CallShape'
  BY <1>1 DEF AnswerInv, CallShape
<1>6. SnapshotsInv'
  BY <1>1, <1>3 DEF AnswerInv, SnapshotsInv
<1>7. DueInv' /\ EndInv' /\ AccInv'
  BY <1>1, <1>4 DEF DueInv, EndInv, AccInv
<1>8. StatesSound'
  BY <1>1, SoundKept DEF AnswerInv
<1> QED BY <1>5, <1>6, <1>7, <1>8 DEF Answers

LEMMA LoadAnswers ==
    ASSUME AnswerInv, Load
    PROVE  Answers'
<1> DEFINE from == IF Eligible(replay) THEN replay
                   ELSE IF Eligible(checkpoint) THEN checkpoint ELSE None
<1>0. /\ Len(recs) \in Nat /\ \A j \in 1..Len(recs) : recs[j].time \in Time
      /\ hist \in Histories /\ call \in CallType
  BY SourceFacts DEF AnswerInv, Inv, EngineInv, TypeOK, CallType, recs
<1>1. /\ phase = "load" /\ phase' = "read" /\ replay' = None /\ checkpoint' = None
      /\ kept' = checkpoint
      /\ UNCHANGED <<hist, call, saved, emitted, todo, out>>
  BY OutKept DEF Load, source, ticking, visiting, reply
<1>2. /\ slots' = IF from = None THEN Fresh ELSE from.slots
      /\ cursor' = IF from = None THEN 1 ELSE from.pos
      /\ pendingTime' = IF from = None THEN NoTime ELSE from.time
      /\ replayStart' = IF from = None THEN 0 ELSE from.start
  BY DEF Load
<1>3. from # None => /\ from \in Replay /\ SnapshotOK(hist, from) /\ Eligible(from)
                     /\ CountsOnly(from.slots)
  BY DEF Eligible, AnswerInv, Inv, EngineInv, TypeOK, CachesFaithful, SnapshotsInv
<1> HIDE DEF from
<1>4. ~emitted'
  BY <1>1, Zenon DEF AnswerInv, DueInv
<1>5. CallShape'
  BY <1>1 DEF AnswerInv, CallShape
<1>6. SnapshotsInv'
  <2>1. CountsOnly(slots')
    BY <1>2, <1>3, FreshCounts
  <2> QED BY <1>1, <2>1 DEF AnswerInv, SnapshotsInv, CountsOnly
<1>7. call.from = NoTime => cursor' = 1 /\ replayStart' = 0
  BY <1>2, <1>3 DEF Eligible
<1>8. ASSUME call.from # NoTime PROVE Ahead(call.from)'
  <2> SUFFICES ASSUME NEW i \in 1..Len(recs), i < cursor', recs[i].time >= call.from
               PROVE  recs[i].time = pendingTime'
    BY <1>1 DEF Ahead, OpenTime, recs
  <2>1. from # None
    BY <1>0, <1>2
  <2>2. /\ from.start <= call.from /\ i < from.pos /\ pendingTime' = from.time
        /\ from.start \in Time /\ call.from \in Time
    BY <1>0, <1>2, <1>3, <1>8, <2>1 DEF Eligible, Replay, CallType
  <2>3. CASE from.time = NoTime
    <3>1. recs[i].time < from.start
      BY <1>3, <2>1, <2>2, <2>3 DEF SnapshotOK, IsFirstAt, recs
    <3> QED BY <1>0, <2>2, <3>1, PlanFacts DEF Time
  <2>4. CASE from.time # NoTime
    <3>1. recs[i].time <= from.start /\ from.time = from.start
      BY <1>3, <2>1, <2>2, <2>4 DEF SnapshotOK, recs
    <3> QED BY <1>0, <2>2, <3>1, PlanFacts DEF Time
  <2> QED BY <2>3, <2>4
<1>9. DueInv'
  <2>1. call.op \in {"scan", "sample"} => Ahead(call.first)'
    <3>1. call.op \in {"scan", "sample"} => call.first = call.from /\ call.from # NoTime
      BY <1>0, ZeroTick DEF AnswerInv, CallShape, CallType
    <3> QED BY <1>1, <1>8, <3>1 DEF Ahead
  <2>2. call.op = "samples_at" => \A t \in todo : Ahead(t)'
    <3>1. call.op = "samples_at" => cursor' = 1
      BY <1>7 DEF AnswerInv, CallShape
    <3> QED BY <1>0, <1>1, <3>1 DEF Ahead, recs
  <2> QED BY <1>1, <1>7, <2>1, <2>2 DEF DueInv, Ahead
<1>10. EndInv' /\ AccInv'
  BY <1>1, <1>4 DEF EndInv, AccInv
<1>11. StatesSound'
  BY <1>1, SoundKept DEF AnswerInv
<1> QED BY <1>5, <1>6, <1>9, <1>10, <1>11 DEF Answers

-----------------------------------------------------------------------------
(* Reading records. *)

LEMMA CompleteAnswers ==
    ASSUME AnswerInv, phase = "read", NEW then \in {"deliver", "tick", "end"}, CompleteTick(then),
           then = "end" => ~HasRecord,
           saved' # None => CountsOnly(saved'.slots) /\ Quiet(hist, saved')
    PROVE  Answers'
<1>1. /\ phase' = "complete" /\ after' = then
      /\ UNCHANGED <<hist, call, replay, checkpoint, slots, cursor, pendingTime, replayStart, kept,
                     emitted, todo, acc, out>>
  BY OutKept DEF CompleteTick, source, caches, reading, visiting, reply
<1>2. CallShape'
  BY <1>1 DEF AnswerInv, CallShape
<1>3. SnapshotsInv'
  BY <1>1 DEF AnswerInv, SnapshotsInv
<1>4. DueInv'
  <2>1. OpenTime' = OpenTime
    BY <1>1 DEF OpenTime
  <2>2. /\ call.op \in {"scan", "sample"} /\ ~emitted => Ahead(call.first)
        /\ call.op = "samples_at" => \A t \in todo : Ahead(t)
        /\ call.from = NoTime => replayStart = 0
    BY DEF AnswerInv, DueInv
  <2> QED BY <1>1, <2>1, <2>2 DEF DueInv, Ahead, recs
<1>5. EndInv'
  BY <1>1 DEF EndInv, HasRecord, recs
<1>6. AccInv'
  BY <1>1 DEF AnswerInv, AccInv
<1>7. StatesSound'
  BY <1>1, SoundKept DEF AnswerInv
<1> QED BY <1>2, <1>3, <1>4, <1>5, <1>6, <1>7 DEF Answers

LEMMA TickEndAnswers ==
    ASSUME AnswerInv, TickPassed \/ TickBoundary
    PROVE  Answers'
<1>1. saved # None => CountsOnly(saved.slots) /\ Quiet(hist, saved)
  BY DEF AnswerInv, SnapshotsInv
<1>2. CASE TickPassed
  BY <1>1, <1>2, CompleteAnswers DEF TickPassed
<1>3. CASE TickBoundary
  BY <1>1, <1>3, CompleteAnswers DEF TickBoundary
<1> QED BY <1>2, <1>3

\* Without a record in the range, those that follow lie beyond it.
LEMMA BeyondRange ==
    ASSUME Inv, cursor \in 1..(Len(recs) + 1), ~HasRecord
    PROVE  \A i \in 1..Len(recs) : i >= cursor => recs[i].time > call.last
<1> SUFFICES ASSUME NEW i \in 1..Len(recs), i >= cursor PROVE recs[i].time > call.last
  OBVIOUS
<1>0. /\ Len(recs) \in Nat /\ \A j \in 1..Len(recs) : recs[j].time \in Time
      /\ \A j, k \in 1..Len(recs) : j <= k => recs[j].time <= recs[k].time
      /\ call.last \in Time
  BY SourceFacts DEF Inv, EngineInv, TypeOK, recs
<1>1. cursor \in 1..Len(recs)
  BY <1>0
<1>2. recs[cursor].time > call.last
  BY <1>0, <1>1, PlanFacts DEF HasRecord, Time
<1>3. recs[cursor].time <= recs[i].time
  BY <1>0, <1>1
<1> QED BY <1>0, <1>1, <1>2, <1>3, PlanFacts DEF Time

\* A read that resumed at replayStart and met no record leaves a quiet replay.
LEMMA SnapshotQuiet ==
    ASSUME AnswerInv, phase = "read", ~HasRecord, kind # "ghw"
    PROVE  CountsOnly(Snapshot.slots) /\ Quiet(hist, Snapshot)
<1>0. /\ Len(recs) \in Nat /\ \A j \in 1..Len(recs) : recs[j].time \in Time
      /\ cursor \in 1..(Len(recs) + 1) /\ replayStart \in Time /\ call.last \in Time
      /\ call.from \in Time \cup {NoTime}
  BY SourceFacts DEF AnswerInv, Inv, EngineInv, TypeOK, ReadInv, recs
<1>1. CountsOnly(Snapshot.slots)
  BY DEF Snapshot, AnswerInv, SnapshotsInv
<1>2. ASSUME pendingTime = NoTime
      PROVE  replayStart - 1 <= call.last /\ NoRecordIn(hist, replayStart - 1, call.last)
  <2>1. Settled(replayStart - 1)
    BY <1>2 DEF AnswerInv, Inv, EngineInv, ReadInv, Rested
  <2>2. \A i \in 1..Len(recs) : i >= cursor => recs[i].time > call.last
    BY <1>0, BeyondRange DEF AnswerInv
  <2>3. NoRecordIn(hist, replayStart - 1, call.last)
    BY <1>0, <2>1, <2>2 DEF NoRecordIn, Settled, recs
  <2>4. CASE call.from = NoTime
    <3>1. replayStart = 0
      BY <2>4 DEF AnswerInv, DueInv
    <3> QED BY <1>0, <2>3, <3>1, PlanFacts DEF Time
  <2>5. CASE call.from # NoTime
    <3>1. replayStart <= call.from /\ call.from <= call.last
      BY <2>5 DEF AnswerInv, Inv, EngineInv, ReadInv, CallShape
    <3> QED BY <1>0, <2>3, <2>5, <3>1, PlanFacts DEF Time
  <2> QED BY <2>4, <2>5
<1>3. Quiet(hist, Snapshot)
  BY <1>2 DEF Quiet, Snapshot
<1> QED BY <1>1, <1>3

LEMMA EndOfRecordsAnswers ==
    ASSUME AnswerInv, EndOfRecords
    PROVE  Answers'
<1>1. phase = "read" /\ ~HasRecord
  BY DEF EndOfRecords
<1>2. saved' \in {None, Snapshot} /\ (kind = "ghw" => saved' = None)
  BY DEF EndOfRecords, SavesReplay, Native
<1>3. saved' # None => CountsOnly(saved'.slots) /\ Quiet(hist, saved')
  BY <1>1, <1>2, SnapshotQuiet
<1>4. CASE pendingTime # NoTime
  BY <1>1, <1>3, <1>4, CompleteAnswers DEF EndOfRecords
<1>5. CASE pendingTime = NoTime
  <2>1. /\ phase' = "store"
        /\ UNCHANGED <<hist, call, replay, checkpoint, slots, cursor, pendingTime, replayStart,
                       kept, emitted, todo, acc, out>>
    BY <1>5, OutKept DEF EndOfRecords, source, caches, reading, visiting, reply
  <2>2. CallShape'
    BY <1>1, <2>1 DEF AnswerInv, CallShape
  <2>3. SnapshotsInv'
    BY <1>3, <2>1 DEF AnswerInv, SnapshotsInv
  <2>4. DueInv'
    <3>1. OpenTime' = OpenTime
      BY <1>1, <1>5, <2>1 DEF OpenTime
    <3>2. /\ call.op \in {"scan", "sample"} /\ ~emitted => Ahead(call.first)
          /\ call.op = "samples_at" => \A t \in todo : Ahead(t)
      BY <1>1 DEF AnswerInv, DueInv
    <3> QED BY <2>1, <3>1, <3>2 DEF DueInv, Ahead, recs
  <2>5. EndInv'
    <3>1. PICK t \in Time \cup {NoTime} : Settled(t)
      BY <1>1, <1>5 DEF AnswerInv, Inv, EngineInv, ReadInv, Rested
    <3>2. Settled(t)'
      BY <2>1, <3>1 DEF Settled, recs
    <3>3. \A i \in 1..Len(recs) : i >= cursor => recs[i].time > call.last
      BY <1>1, BeyondRange DEF AnswerInv, Inv, EngineInv, ReadInv
    <3>4. \A i \in 1..Len(recs') : i >= cursor' => recs'[i].time > call'.last
      BY <2>1, <3>3 DEF recs
    <3> QED BY <2>1, <3>2, <3>4 DEF EndInv
  <2>6. AccInv'
    BY <1>1, <2>1 DEF AnswerInv, AccInv
  <2>7. StatesSound'
    BY <2>1, SoundKept DEF AnswerInv
  <2> QED BY <2>2, <2>3, <2>4, <2>5, <2>6, <2>7 DEF Answers
<1> QED BY <1>4, <1>5

LEMMA DeliverCounts ==
    ASSUME AnswerInv, Deliver
    PROVE  CountsOnly(slots')
<1> SUFFICES ASSUME NEW s \in Slot \ EventSlots PROVE slots'[s].events = 0
  BY DEF CountsOnly
<1>1. slots[s].events = 0 /\ slots[s] \in SlotData
  BY DEF AnswerInv, SnapshotsInv, CountsOnly, Inv, EngineInv, TypeOK
<1>2. \/ slots'[s] = slots[s]
      \/ slots'[s] = [slots[s] EXCEPT !.pending = Project(s, recs[cursor].value)]
  BY DEF Deliver
<1> QED BY <1>1, <1>2 DEF SlotData

LEMMA DeliverAnswers ==
    ASSUME AnswerInv, Deliver
    PROVE  Answers'
<1> DEFINE r == recs[cursor]
<1>0. Len(recs) \in Nat /\ \A j \in 1..Len(recs) : recs[j].time \in Time
  BY SourceFacts DEF AnswerInv, Inv, recs
<1>1. /\ Arriving /\ Considers /\ pendingTime' = r.time /\ cursor' = cursor + 1 /\ phase' = "read"
      /\ UNCHANGED <<hist, call, replay, checkpoint, replayStart, saved, emitted, todo, acc, out>>
  BY OutKept DEF Deliver, source, caches, ticking, visiting, reply
<1>2. cursor \in 1..Len(recs) /\ phase \in {"read", "deliver"}
  BY <1>1, ArrivingFacts DEF AnswerInv, Arriving
<1>3. CallShape'
  BY <1>1, <1>2 DEF AnswerInv, CallShape
<1>4. SnapshotsInv'
  <2>1. kept' = kept \/ kept' = None \/ kept'.slots = slots
    BY <1>1 DEF Considers
  <2>2. kept' # None => CountsOnly(kept'.slots)
    BY <2>1 DEF AnswerInv, SnapshotsInv
  <2> QED BY <1>1, <2>2, DeliverCounts DEF AnswerInv, SnapshotsInv
<1>5. ASSUME NEW t, Ahead(t) PROVE Ahead(t)'
  <2> SUFFICES ASSUME NEW i \in 1..Len(recs), i < cursor + 1, recs[i].time >= t
               PROVE  recs[i].time = r.time
    BY <1>1 DEF Ahead, OpenTime, recs
  <2>1. CASE i = cursor
    BY <2>1
  <2>2. CASE i # cursor
    <3>1. i < cursor
      BY <1>0, <1>2, <2>2
    <3>2. recs[i].time = OpenTime /\ recs[i].time # NoTime
      BY <1>0, <1>5, <3>1, ZeroTick DEF Ahead
    <3> QED BY <1>1, <3>2 DEF OpenTime, Arriving
  <2> QED BY <2>1, <2>2
<1>6. DueInv'
  <2>1. /\ call.op \in {"scan", "sample"} /\ ~emitted => Ahead(call.first)
        /\ call.op = "samples_at" => \A t \in todo : Ahead(t)
        /\ call.from = NoTime => replayStart = 0
    BY <1>2 DEF AnswerInv, DueInv
  <2>2. call.op \in {"scan", "sample"} /\ ~emitted => Ahead(call.first)'
    BY <1>1, <1>5, <2>1 DEF Ahead
  <2>3. call.op = "samples_at" => \A t \in todo : Ahead(t)'
    BY <1>5, <2>1
  <2> QED BY <1>1, <2>1, <2>2, <2>3 DEF DueInv, Ahead
<1>7. EndInv'
  BY <1>1 DEF EndInv
<1>8. AccInv'
  BY <1>1, <1>2 DEF AnswerInv, AccInv
<1>9. StatesSound'
  BY <1>1, SoundKept DEF AnswerInv
<1> QED BY <1>3, <1>4, <1>6, <1>7, <1>8, <1>9 DEF Answers

LEMMA ComputeAnswers ==
    ASSUME AnswerInv, Compute
    PROVE  Answers'
<1>1. /\ phase = "complete"
      /\ UNCHANGED <<hist, call, replay, checkpoint, phase, cursor, pendingTime, replayStart, kept,
                     after, saved, emitted, todo, acc, out>>
  BY OutKept DEF Compute, source, caches, visiting, reply
<1>2. CountsOnly(slots')
  <2>1. PICK s \in Slot : \E v : slots' \in {slots, [slots EXCEPT ![s].pending = v]}
    BY DEF Compute, AnswerInv, Inv, EngineInv, TypeOK, ComputedSlots
  <2>2. slots \in [Slot -> SlotData] /\ CountsOnly(slots)
    BY DEF AnswerInv, Inv, EngineInv, TypeOK, SnapshotsInv
  <2> QED BY <2>1, <2>2 DEF CountsOnly, SlotData
<1>3. CallShape'
  BY <1>1 DEF AnswerInv, CallShape
<1>4. SnapshotsInv'
  BY <1>1, <1>2 DEF AnswerInv, SnapshotsInv
<1>5. DueInv'
  <2>1. OpenTime' = OpenTime
    BY <1>1 DEF OpenTime
  <2>2. /\ call.op \in {"scan", "sample"} /\ ~emitted => Ahead(call.first)
        /\ call.op = "samples_at" => \A t \in todo : Ahead(t)
        /\ call.from = NoTime => replayStart = 0
    BY <1>1 DEF AnswerInv, DueInv
  <2> QED BY <1>1, <2>1, <2>2 DEF DueInv, Ahead, recs
<1>6. EndInv'
  BY <1>1 DEF AnswerInv, EndInv, HasRecord, recs
<1>7. AccInv'
  BY <1>1 DEF AnswerInv, AccInv
<1>8. StatesSound'
  BY <1>1, SoundKept DEF AnswerInv
<1> QED BY <1>3, <1>4, <1>5, <1>6, <1>7, <1>8 DEF Answers

-----------------------------------------------------------------------------
(* Completing a tick. *)

LEMMA ClosingFacts ==
    ASSUME Inv, phase = "complete", work = {}
    PROVE  /\ hist \in Histories /\ pendingTime \in Time /\ pendingTime <= call.last
           /\ \A i \in 1..Len(recs) : i < cursor <=> recs[i].time <= pendingTime
           /\ \A s \in Slot : /\ slots[s] \in SlotData /\ slots[s].state \in StateType
                              /\ EnteringOK(hist, s, pendingTime, slots[s].state)
                              /\ Current(slots[s]) = hist.obs[s][pendingTime]
<1>1. /\ hist \in Histories /\ pendingTime \in Time /\ TickClosing /\ cursor \in Nat
      /\ slots \in [Slot -> SlotData]
  BY DEF Inv, EngineInv, TypeOK, ReadInv
<1>2. \A j \in 1..Len(recs) : recs[j].time \in Time
  BY <1>1, SourceFacts DEF recs
<1>3. \A i \in 1..Len(recs) : i < cursor <=> recs[i].time <= pendingTime
  BY <1>1, <1>2, PlanFacts DEF TickClosing, TickOpen, Time
<1>4. \A s \in Slot : slots[s] \in SlotData /\ slots[s].state \in StateType
  BY <1>1 DEF SlotData, StateType
<1>5. \A s \in Slot : EnteringOK(hist, s, pendingTime, slots[s].state)
  BY <1>1 DEF TickClosing, TickOpen
<1>6. \A s \in Slot : Current(slots[s]) = hist.obs[s][pendingTime]
  BY <1>1, BaseCurrent DEF TickClosing
<1> QED BY <1>1, <1>3, <1>4, <1>5, <1>6 DEF TickClosing, TickOpen

\* The states entering the open tick hold since the last tick before it.
LEMMA TickMoves ==
    ASSUME AnswerInv, phase = "complete", work = {}, NEW s \in Slot,
           NEW v \in Time, Ahead(v), NEW u \in Time \cup {NoTime},
           v - 1 <= u, u <= pendingTime - 1
    PROVE  AfterOK(hist, s, u, slots[s].state)
<1>0. Len(recs) \in Nat /\ \A j \in 1..Len(recs) : recs[j].time \in Time
  BY SourceFacts DEF AnswerInv, Inv, recs
<1>1. /\ hist \in Histories /\ pendingTime \in Time /\ pendingTime - 1 \in Time \cup {NoTime}
      /\ \A i \in 1..Len(recs) : i < cursor <=> recs[i].time <= pendingTime
      /\ AfterOK(hist, s, pendingTime - 1, slots[s].state) /\ slots[s].state \in StateType
  BY ClosingFacts, PlanFacts DEF AnswerInv, EnteringOK, Time, NoTime
<1>2. ASSUME NEW i \in 1..Len(recs)
      PROVE  recs[i].time <= pendingTime - 1 <=> recs[i].time <= u
  <2>1. recs[i].time <= u => recs[i].time <= pendingTime - 1
    BY <1>0, <1>1, PlanFacts DEF Time, NoTime
  <2>2. ASSUME recs[i].time <= pendingTime - 1, ~(recs[i].time <= u) PROVE FALSE
    <3>1. recs[i].time >= v /\ recs[i].time <= pendingTime /\ recs[i].time # pendingTime
      BY <1>0, <1>1, <2>2, PlanFacts DEF Time, NoTime
    <3> QED BY <1>1, <3>1 DEF Ahead, OpenTime
  <2> QED BY <2>1, <2>2
<1>3. SameRecords(hist, pendingTime - 1, u)
  BY <1>2 DEF SameRecords, recs
<1> QED BY <1>1, <1>3, AfterMoves

\* A change is delivered when the tick leaves the slot with another value.
LEMMA ChangesTold ==
    ASSUME AnswerInv, phase = "complete", work = {}
    PROVE  \A o \in Changes(pendingTime) : Told(o)
<1> DEFINE t == pendingTime
<1> SUFFICES ASSUME NEW s \in Selected, Changed(slots[s]) \/ slots[s].events > 0
             PROVE  Told(Observation("change", t, s, SampleOf(s, slots[s], t)))
  BY DEF Changes
<1>1. /\ s \in Slot /\ hist \in Histories /\ t \in Time /\ t # NoTime
      /\ EnteringOK(hist, s, t, slots[s].state) /\ Current(slots[s]) = hist.obs[s][t]
  BY ClosingFacts, PlanFacts, ZeroTick DEF AnswerInv
<1>2. ASSUME s \notin EventSlots
      PROVE  /\ NetChange(hist, s, t)
             /\ SampleOf(s, slots[s], t).state.value = hist.obs[s][t]
  <2>1. Changed(slots[s])
    BY <1>1, <1>2 DEF AnswerInv, SnapshotsInv, CountsOnly
  <2>2. hist.obs[s][t] = slots[s].pending /\ slots[s].pending # Missing
        /\ slots[s].pending # slots[s].state.value
    BY <1>1, <2>1 DEF Changed, Current
  <2>3. t > 0 => slots[s].state.value = hist.obs[s][t - 1]
    BY <1>1, EnteringValue, PlanFacts DEF Time
  <2>4. NetChange(hist, s, t)
    BY <2>2, <2>3 DEF NetChange
  <2>5. SampleOf(s, slots[s], t).state.value = Current(slots[s])
    BY <1>1, <1>2 DEF SampleOf
  <2> QED BY <1>1, <2>4, <2>5
<1> HIDE DEF t
<1> QED BY <1>2, ToldChange

\* The entering states, delivered before the first tick of the range.
LEMMA EnteringTold ==
    ASSUME call.op = "scan",
           ~emitted => \A s \in Selected : EnteringOK(hist, s, call.first, slots[s].state)
    PROVE  \A o \in Entering : Told(o)
<1>1. CASE emitted
  BY <1>1 DEF Entering
<1>2. CASE ~emitted
  <2> SUFFICES ASSUME NEW s \in Selected, slots[s].state.value # Missing
               PROVE  Told(Observation("initial", call.first, s,
                                       [state |-> slots[s].state, events |-> 0]))
    BY <1>2 DEF Entering, Initials
  <2> DEFINE c == [state |-> slots[s].state, events |-> 0]
  <2>1. EnteringOK(hist, s, call.first, c.state) /\ c.state.value # Missing
    BY <1>2
  <2> HIDE DEF c
  <2>2. Told(Observation("initial", call.first, s, c))
    BY <2>1, ToldInitial
  <2> QED BY <2>2 DEF c
<1> QED BY <1>1, <1>2

LEMMA ScanTold ==
    ASSUME AnswerInv, phase = "complete", work = {}, Visited, call.op = "scan"
    PROVE  \A o \in Entering \cup Changes(pendingTime) : Told(o)
<1>1. /\ call.first \in Time /\ call.first - 1 \in Time \cup {NoTime}
      /\ call.from = call.first /\ pendingTime \in Time /\ pendingTime >= call.first
  BY ClosingFacts, PlanFacts, ZeroTick
     DEF AnswerInv, Inv, EngineInv, TypeOK, CallShape, Visited, Time, NoTime
<1>2. ASSUME ~emitted, NEW s \in Selected
      PROVE  EnteringOK(hist, s, call.first, slots[s].state)
  <2>1. Ahead(call.first)
    BY <1>2 DEF AnswerInv, DueInv
  <2>2. call.first - 1 <= call.first - 1 /\ call.first - 1 <= pendingTime - 1
    BY <1>1, PlanFacts DEF Time
  <2> QED BY <1>1, <2>1, <2>2, TickMoves, PlanFacts DEF EnteringOK
<1>3. ~emitted => \A s \in Selected : EnteringOK(hist, s, call.first, slots[s].state)
  BY <1>2, Zenon
<1> QED BY <1>3, EnteringTold, ChangesTold

LEMMA SamplesTold ==
    ASSUME AnswerInv, phase = "complete", work = {}, call.op = "samples_at",
           NEW t \in todo, t <= pendingTime
    PROVE  \A o \in SamplesOf(t, IF t = pendingTime THEN t ELSE NoTime) : Told(o)
<1> DEFINE tick == IF t = pendingTime THEN t ELSE NoTime
<1>1. t \in Time /\ pendingTime \in Time /\ hist \in Histories
  BY ClosingFacts DEF AnswerInv, Inv, EngineInv, TypeOK
<1>2. ASSUME NEW s \in Selected PROVE StateOK(hist, s, t, SampleOf(s, slots[s], tick).state)
  <2>1. /\ s \in Slot /\ slots[s] \in SlotData
        /\ EnteringOK(hist, s, pendingTime, slots[s].state)
        /\ Current(slots[s]) = hist.obs[s][pendingTime]
    BY ClosingFacts, PlanFacts DEF AnswerInv
  <2>2. CASE t = pendingTime
    BY <1>1, <2>1, <2>2, SampleOK
  <2>3. CASE t # pendingTime
    <3>1. t - 1 <= t /\ t <= pendingTime - 1 /\ Ahead(t)
      BY <1>1, <2>3, PlanFacts DEF Time, AnswerInv, DueInv
    <3>2. AfterOK(hist, s, t, slots[s].state)
      BY <1>1, <2>1, <3>1, TickMoves
    <3> QED BY <1>1, <2>1, <2>3, <3>2, QuietSampleOK
  <2> QED BY <2>2, <2>3
<1> HIDE DEF tick
<1>3. \A s \in Selected : Told(Observation("sample", t, s, SampleOf(s, slots[s], tick)))
  BY <1>2, ToldSample
<1>4. \A o \in SamplesOf(t, tick) : Told(o)
  BY <1>3 DEF SamplesOf
<1> QED BY <1>4 DEF tick

LEMMA QueryTold ==
    ASSUME AnswerInv, phase = "complete", work = {}
    PROVE  /\ \A o \in SamplesOf(pendingTime, pendingTime) : Told(o)
           /\ pendingTime > 0 => \A o \in SamplesBefore(pendingTime) : Told(o)
<1> DEFINE t == pendingTime
<1>1. /\ t \in Time /\ hist \in Histories
      /\ \A s \in Selected : /\ s \in Slot /\ slots[s] \in SlotData
                             /\ EnteringOK(hist, s, t, slots[s].state)
                             /\ Current(slots[s]) = hist.obs[s][t]
  BY ClosingFacts, PlanFacts DEF AnswerInv
<1> HIDE DEF t
<1>2. \A s \in Selected : StateOK(hist, s, t, SampleOf(s, slots[s], t).state)
  BY <1>1, SampleOK
<1>3. \A o \in SamplesOf(t, t) : Told(o)
  BY <1>2, ToldSample DEF SamplesOf
<1>4. ASSUME t > 0, NEW o \in SamplesBefore(t) PROVE Told(o)
  <2>1. t - 1 \in Time
    BY <1>1, <1>4, PlanFacts DEF Time
  <2>2. PICK s \in Selected, n \in {prevEvents[x] : x \in Selected} \cup {0} :
           o = Observation("sample", t - 1, s,
                           [state |-> SampleOf(s, slots[s], NoTime).state, events |-> n])
    BY <1>4 DEF SamplesBefore
  <2> DEFINE c == [state |-> SampleOf(s, slots[s], NoTime).state, events |-> n]
  <2>3. AfterOK(hist, s, t - 1, slots[s].state)
    BY <1>1 DEF EnteringOK
  <2>4. StateOK(hist, s, t - 1, SampleOf(s, slots[s], NoTime).state)
    BY <1>1, <2>1, <2>3, QuietSampleOK
  <2>5. c.state = SampleOf(s, slots[s], NoTime).state
    OBVIOUS
  <2> HIDE DEF c
  <2>6. Told(Observation("sample", t - 1, s, c))
    BY <2>4, <2>5, ToldSample
  <2> QED BY <2>2, <2>6 DEF c
<1> QED BY <1>3, <1>4 DEF t

\* What a visitor hands over for a completed tick.
LEMMA DeliveryTold ==
    ASSUME AnswerInv, phase = "complete", work = {}, Visited
    PROVE  \A o \in Delivery : Told(o)
<1>1. CASE call.op = "scan"
  BY <1>1, ScanTold DEF Delivery
<1>2. CASE call.op = "samples_at"
  BY <1>2, SamplesTold DEF Delivery
<1>3. CASE call.op = "query"
  BY <1>3, QueryTold DEF Delivery
<1>4. CASE call.op \notin {"scan", "samples_at", "query"}
  BY <1>4 DEF Delivery
<1> QED BY <1>1, <1>2, <1>3, <1>4

LEMMA FinishTickAnswers ==
    ASSUME AnswerInv, FinishTick
    PROVE  Answers'
<1>0. /\ Len(recs) \in Nat /\ \A j \in 1..Len(recs) : recs[j].time \in Time
      /\ call \in CallType
  BY SourceFacts DEF AnswerInv, Inv, EngineInv, TypeOK, CallType, recs
<1>1. /\ phase = "complete" /\ work = {}
      /\ phase' \in {"deliver", "read", "store"} /\ (phase' = "store" => after = "end")
      /\ phase' = "read" => pendingTime' = NoTime
      /\ todo' = {t \in todo : t > pendingTime}
      /\ UNCHANGED <<hist, call, replay, checkpoint, cursor, replayStart, kept, saved>>
  BY DEF FinishTick, OpenTick, source, caches, AnswerInv, Inv, EngineInv, TypeOK, ReadInv
<1>2. /\ hist \in Histories /\ pendingTime \in Time /\ pendingTime <= call.last
      /\ \A i \in 1..Len(recs) : i < cursor <=> recs[i].time <= pendingTime
      /\ \A s \in Slot : /\ EnteringOK(hist, s, pendingTime, slots[s].state)
                         /\ Current(slots[s]) = hist.obs[s][pendingTime]
  BY <1>1, ClosingFacts DEF AnswerInv
<1>3. \A s \in Slot : /\ slots'[s].pending = Missing /\ slots'[s].events = 0
                      /\ AfterOK(hist, s, pendingTime, slots'[s].state)
  BY <1>2, TickCommitted, ZeroTick DEF AnswerInv, AfterOK
<1>4. ~emitted' => ~emitted /\ ~(Visited /\ pendingTime >= call.first)
  BY Zenon DEF FinishTick
<1>5. CallShape'
  BY <1>1 DEF AnswerInv, CallShape
<1>6. SnapshotsInv'
  <2>1. CountsOnly(slots')
    BY <1>3 DEF CountsOnly
  <2> QED BY <1>1, <2>1 DEF AnswerInv, SnapshotsInv
<1>7. ASSUME NEW t \in Time, Ahead(t), t > pendingTime PROVE Ahead(t)'
  <2> SUFFICES ASSUME NEW i \in 1..Len(recs), i < cursor, recs[i].time >= t
               PROVE  FALSE
    BY <1>1 DEF Ahead, recs
  <2>1. recs[i].time <= pendingTime
    BY <1>2
  <2> QED BY <1>0, <1>2, <1>7, <2>1, PlanFacts DEF Time
<1>8. DueInv'
  <2>1. ASSUME call.op \in {"scan", "sample"}, ~emitted' PROVE Ahead(call.first)'
    <3>1. Ahead(call.first) /\ call.first \in Time
      BY <1>0, <1>1, <1>4, <2>1 DEF AnswerInv, DueInv, CallType
    <3>2. call.from = call.first
      BY <2>1 DEF AnswerInv, CallShape
    <3>3. call.first > pendingTime
      BY <1>2, <1>4, <2>1, <3>1, <3>2, PlanFacts DEF Visited, Time
    <3> QED BY <1>1, <1>7, <3>1, <3>3 DEF Ahead
  <2>2. ASSUME call.op = "samples_at", NEW t \in todo' PROVE Ahead(t)'
    <3>1. t \in Time /\ t > pendingTime /\ Ahead(t)
      BY <1>1, <2>2 DEF AnswerInv, DueInv, Inv, EngineInv, TypeOK
    <3> QED BY <1>7, <3>1
  <2>3. call.from = NoTime => replayStart = 0
    BY <1>1 DEF AnswerInv, DueInv
  <2> QED BY <1>1, <2>1, <2>2, <2>3 DEF DueInv
<1>9. EndInv'
  <2>1. PICK t \in Time : t = pendingTime
    BY <1>2
  <2>2. Settled(t)'
    BY <1>1, <1>2, <1>3, <2>1 DEF Settled, recs
  <2>3. ASSUME phase' = "store"
        PROVE  \A i \in 1..Len(recs') : i >= cursor' => recs'[i].time > call'.last
    <3>1. ~HasRecord /\ cursor \in 1..(Len(recs) + 1)
      BY <1>1, <2>3 DEF AnswerInv, EndInv, Inv, EngineInv, ReadInv
    <3>2. \A i \in 1..Len(recs) : i >= cursor => recs[i].time > call.last
      BY <3>1, BeyondRange DEF AnswerInv
    <3> QED BY <1>1, <3>2 DEF recs
  <2> QED BY <1>1, <2>2, <2>3 DEF EndInv
<1>10. AccInv'
  <2> SUFFICES ASSUME call.op = "sample", emitted', NEW s \in Slot
               PROVE  StateOK(hist, s, call.first, acc'[s].state)
    BY <1>1, Zenon DEF AccInv
  <2>1. CASE Visited
    <3>1. pendingTime = call.first
      BY <1>0, <1>2, <2>1, PlanFacts, ZeroTick
         DEF Visited, AnswerInv, CallShape, CallType, Time
    <3>2. acc' = Collected
      BY <2>1 DEF FinishTick
    <3>3. acc'[s].state = Commit(slots[s], pendingTime).state
      BY <3>2 DEF Collected
    <3>4. StateOK(hist, s, pendingTime, Commit(slots[s], pendingTime).state)
      BY <1>2, CommitOK
    <3> QED BY <3>1, <3>3, <3>4
  <2>2. CASE ~Visited
    <3>1. acc' = acc
      BY <2>2 DEF FinishTick
    <3>2. emitted
      BY <2>2, Zenon DEF FinishTick
    <3> QED BY <3>1, <3>2 DEF AnswerInv, AccInv
  <2> QED BY <2>1, <2>2
<1>11. StatesSound'
  <2>1. CASE Visited
    <3>1. out' = out \cup Delivery /\ \A o \in Delivery : Told(o)
      BY <1>1, <2>1, DeliveryTold, ReceivedTyped, OutGrows DEF FinishTick
    <3> QED BY <1>1, <3>1, SoundGrows DEF AnswerInv
  <2>2. CASE ~Visited
    BY <1>1, <2>2, SoundKept, OutKept DEF AnswerInv, FinishTick
  <2> QED BY <2>1, <2>2
<1> QED BY <1>5, <1>6, <1>8, <1>9, <1>10, <1>11 DEF Answers

LEMMA StopAnswers ==
    ASSUME AnswerInv, StopTick \/ ReadFails
    PROVE  Answers'
<1>1. CASE StopTick
  <2>1. out' = out \cup Delivery /\ \A o \in Delivery : Told(o)
    BY <1>1, DeliveryTold, ReceivedTyped, OutGrows DEF StopTick
  <2>2. Return("stopped") /\ replay' = None /\ checkpoint' = None /\ hist' = hist /\ call' = call
    BY <1>1 DEF StopTick, Abandon, Return, source
  <2>3. StatesSound'
    BY <2>1, <2>2, SoundGrows DEF AnswerInv
  <2> QED BY <2>2, <2>3, ReturnAnswers
<1>2. CASE ReadFails
  <2>1. Return("error") /\ replay' = None /\ checkpoint' = None /\ hist' = hist /\ call' = call
    BY <1>2 DEF ReadFails, Abandon, Return, source
  <2>2. StatesSound'
    BY <1>2, <2>1, SoundKept, OutKept, OutNothing DEF AnswerInv, ReadFails
  <2> QED BY <2>1, <2>2, ReturnAnswers
<1> QED BY <1>1, <1>2

-----------------------------------------------------------------------------
(* Storing the caches and replying. *)

\* After the last record the slots hold the states of every later tick.
LEMMA RestMoves ==
    ASSUME AnswerInv, phase = "store" \/ (phase = "reply" /\ call.op # "sample"), NEW s \in Slot,
           NEW v \in Time, Ahead(v), NEW u \in Time \cup {NoTime},
           v - 1 <= u, u <= call.last
    PROVE  AfterOK(hist, s, u, slots[s].state)
<1>0. /\ Len(recs) \in Nat /\ \A j \in 1..Len(recs) : recs[j].time \in Time
      /\ hist \in Histories /\ call.last \in Time /\ cursor \in Nat
  BY SourceFacts DEF AnswerInv, Inv, EngineInv, TypeOK, recs
<1>1. PICK t \in Time \cup {NoTime} : Settled(t)
  BY DEF AnswerInv, EndInv
<1>2. \A i \in 1..Len(recs) : i >= cursor => recs[i].time > call.last
  BY DEF AnswerInv, EndInv
<1>3. AfterOK(hist, s, t, slots[s].state) /\ slots[s].state \in StateType
  BY <1>1 DEF Settled, AnswerInv, Inv, EngineInv, TypeOK, SlotData, StateType
<1>4. ASSUME NEW i \in 1..Len(recs) PROVE recs[i].time <= t <=> recs[i].time <= u
  <2>1. i < cursor <=> recs[i].time <= t
    BY <1>1 DEF Settled
  <2>2. ASSUME recs[i].time <= u, ~(i < cursor) PROVE FALSE
    <3>1. recs[i].time > call.last
      BY <1>0, <1>2, <2>2
    <3> QED BY <1>0, <2>2, <3>1, PlanFacts DEF Time, NoTime
  <2>3. ASSUME i < cursor, ~(recs[i].time <= u) PROVE FALSE
    <3>1. recs[i].time >= v
      BY <1>0, <2>3, PlanFacts DEF Time, NoTime
    <3>2. recs[i].time = OpenTime /\ OpenTime = NoTime
      BY <2>3, <3>1 DEF Ahead, OpenTime
    <3> QED BY <1>0, <3>2, ZeroTick
  <2> QED BY <2>1, <2>2, <2>3
<1>5. SameRecords(hist, t, u)
  BY <1>4 DEF SameRecords, recs
<1> QED BY <1>0, <1>3, <1>5, AfterMoves

LEMMA StoreAnswers ==
    ASSUME AnswerInv, Store
    PROVE  Answers'
<1>1. /\ phase = "store" /\ phase' = "reply" /\ replay' = saved /\ checkpoint' = kept
      /\ UNCHANGED <<hist, call, slots, cursor, kept, saved, emitted, todo, out>>
  BY OutKept DEF Store, source, reading, ticking, reply
<1>2. CallShape'
  BY <1>1 DEF AnswerInv, CallShape
<1>3. SnapshotsInv'
  BY <1>1 DEF AnswerInv, SnapshotsInv
<1>4. DueInv'
  <2>1. OpenTime' = OpenTime
    BY <1>1 DEF OpenTime
  <2>2. /\ call.op \in {"scan", "sample"} /\ ~emitted => Ahead(call.first)
        /\ call.op = "samples_at" => \A t \in todo : Ahead(t)
    BY <1>1 DEF AnswerInv, DueInv
  <2> QED BY <1>1, <2>1, <2>2 DEF DueInv, Ahead, recs
<1>5. EndInv'
  <2>1. PICK t \in Time \cup {NoTime} : Settled(t)
    BY <1>1 DEF AnswerInv, EndInv
  <2>2. Settled(t)'
    BY <1>1, <2>1 DEF Settled, recs
  <2>3. \A i \in 1..Len(recs') : i >= cursor' => recs'[i].time > call'.last
    BY <1>1 DEF AnswerInv, EndInv, recs
  <2> QED BY <1>1, <2>2, <2>3 DEF EndInv
<1>6. AccInv'
  <2> SUFFICES ASSUME call.op = "sample", NEW s \in Slot
               PROVE  StateOK(hist, s, call.first, acc'[s].state)
    BY <1>1 DEF AccInv
  <2>1. CASE emitted
    <3>1. acc' = acc
      BY <2>1 DEF Store
    <3> QED BY <2>1, <3>1 DEF AnswerInv, AccInv
  <2>2. CASE ~emitted
    <3>1. acc'[s].state = slots[s].state
      BY <2>2 DEF Store
    <3>2. Ahead(call.first) /\ call.first \in Time /\ call.first = call.last
      BY <1>1, <2>2 DEF AnswerInv, DueInv, CallShape, Inv, EngineInv, TypeOK
    <3>3. call.first - 1 <= call.first /\ call.first <= call.last
      BY <3>2, PlanFacts DEF Time
    <3>4. AfterOK(hist, s, call.first, slots[s].state)
      BY <1>1, <3>2, <3>3, RestMoves
    <3> QED BY <3>1, <3>2, <3>4, ZeroTick DEF AfterOK
  <2> QED BY <2>1, <2>2
<1>7. StatesSound'
  BY <1>1, SoundKept DEF AnswerInv
<1> QED BY <1>2, <1>3, <1>4, <1>5, <1>6, <1>7 DEF Answers

\* What is handed over after the read.
LEMMA RestTold ==
    ASSUME AnswerInv, phase = "reply"
    PROVE  \A o \in Rest : Told(o)
<1>0. /\ call \in CallType /\ hist \in Histories /\ todo \subseteq Time
  BY DEF AnswerInv, Inv, EngineInv, TypeOK, CallType
<1>1. CASE call.op = "scan"
  <2>1. /\ call.first \in Time /\ call.first - 1 \in Time \cup {NoTime}
        /\ call.first - 1 <= call.first - 1 /\ call.first - 1 <= call.last
    BY <1>0, <1>1, PlanFacts, ZeroTick DEF AnswerInv, CallShape, CallType, Time, NoTime
  <2>2. ASSUME ~emitted, NEW s \in Selected
        PROVE  EnteringOK(hist, s, call.first, slots[s].state)
    <3>1. Ahead(call.first)
      BY <1>1, <2>2 DEF AnswerInv, DueInv
    <3> QED BY <1>1, <2>1, <3>1, RestMoves, PlanFacts DEF EnteringOK
  <2>3. ~emitted => \A s \in Selected : EnteringOK(hist, s, call.first, slots[s].state)
    BY <2>2, Zenon
  <2> QED BY <1>1, <2>3, EnteringTold DEF Rest
<1>2. CASE call.op = "samples_at"
  <2>1. ASSUME NEW t \in todo, NEW s \in Selected
        PROVE  Told(Observation("sample", t, s, SampleOf(s, slots[s], NoTime)))
    <3>1. t \in Time /\ Ahead(t) /\ t - 1 <= t /\ t <= call.last /\ s \in Slot
      BY <1>0, <1>2, PlanFacts DEF AnswerInv, DueInv, CallShape, Time
    <3>2. AfterOK(hist, s, t, slots[s].state)
      BY <1>2, <3>1, RestMoves
    <3>3. StateOK(hist, s, t, SampleOf(s, slots[s], NoTime).state)
      BY <1>0, <3>1, <3>2, QuietSampleOK
    <3> QED BY <3>3, ToldSample
  <2> QED BY <1>2, <2>1 DEF Rest, SamplesOf
<1>3. CASE call.op = "sample"
  <2>1. ASSUME NEW s \in Selected
        PROVE  Told(Observation("sample", call.first, s, acc[s]))
    <3>1. StateOK(hist, s, call.first, acc[s].state)
      BY <1>3, PlanFacts DEF AnswerInv, AccInv
    <3> QED BY <3>1, ToldSample
  <2> QED BY <1>3, <2>1 DEF Rest
<1>4. CASE call.op \notin {"scan", "samples_at", "sample"}
  BY <1>4 DEF Rest
<1> QED BY <1>1, <1>2, <1>3, <1>4

LEMMA ReplyAnswers ==
    ASSUME AnswerInv, Reply \/ StopReply
    PROVE  Answers'
<1>1. /\ phase = "reply" /\ out' = out \cup Rest
      /\ hist' = hist /\ call' = call
      /\ replay' \in {replay, None} /\ checkpoint' \in {checkpoint, None}
  BY ReceivedTyped, OutGrows DEF Reply, StopReply, Abandon, Return, source, caches
<1>2. Return("ok") \/ Return("stopped")
  BY DEF Reply, StopReply, Abandon
<1>3. StatesSound'
  BY <1>1, RestTold, SoundGrows DEF AnswerInv
<1> QED BY <1>1, <1>2, <1>3, ReturnAnswers

-----------------------------------------------------------------------------
(* The theorem. *)

LEMMA InitAnswers == Init => AnswerInv
<1> SUFFICES ASSUME Init PROVE AnswerInv
  OBVIOUS
<1>1. ~emitted
  BY Zenon DEF Init
<1>2. /\ phase = "idle" /\ call.op = "none" /\ out = {} /\ slots = Fresh
      /\ replay = None /\ checkpoint = None /\ kept = None /\ saved = None
  BY DEF Init, NoCall, out
<1>3. CallShape /\ DueInv /\ EndInv /\ AccInv /\ StatesSound
  BY <1>1, <1>2 DEF CallShape, DueInv, EndInv, AccInv, StatesSound
<1>4. SnapshotsInv
  BY <1>2, FreshCounts DEF SnapshotsInv
<1> QED BY <1>3, <1>4, InitInv DEF AnswerInv

LEMMA StepAnswers == AnswerInv /\ [Next]_vars => AnswerInv'
<1> SUFFICES ASSUME AnswerInv, [Next]_vars PROVE AnswerInv'
  OBVIOUS
<1>1. Inv'
  BY StepInv DEF AnswerInv
<1>2. Answers'
  <2>1. CASE UNCHANGED vars
    BY <2>1, OutKept DEF vars, source, caches, reading, ticking, visiting, reply, AnswerInv, Answers,
                CallShape, SnapshotsInv, DueInv, EndInv, AccInv, StatesSound, Ahead, OpenTime,
                Settled, HasRecord, recs
  <2> QED BY <2>1, OperationAnswers, PointAnswers, ParallelPrefixAnswers, LoadAnswers,
             TickEndAnswers, DeliverAnswers, EndOfRecordsAnswers, ComputeAnswers,
             FinishTickAnswers, StopAnswers, StoreAnswers, ReplyAnswers DEF Next, Step
<1> QED BY <1>1, <1>2 DEF AnswerInv, Answers

\* Every state that scan, sample, samples_at or query has handed to its caller
\* is the one that the source defines, whichever snapshot, point read or prefix
\* the traversal started from and however the calls before it ended.
THEOREM StatesStaySound == Spec => []StatesSound
<1>1. AnswerInv => StatesSound
  BY DEF AnswerInv
<1> QED BY <1>1, InitAnswers, StepAnswers, PTL DEF Spec
=============================================================================
