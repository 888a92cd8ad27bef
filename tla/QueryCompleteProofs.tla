------------------------ MODULE QueryCompleteProofs ------------------------
(***************************************************************************)
(* The answers of the query engine are exact, for every plan, source,      *)
(* reader and sequence of calls: event counts are the totals of their      *)
(* ticks, a call that succeeds has left nothing out, an owned trace        *)
(* answers as the source would, and deliveries come in order.              *)
(***************************************************************************)
EXTENDS QueryAnswersProofs, FiniteSetTheorems

-----------------------------------------------------------------------------
(* The invariant. *)

\* The running totals of the occurrences of slot s at tick t.
Sums(h, s, t) ==
    LET sum[i \in 0..Len(h.records)] ==
            IF i = 0 THEN 0
            ELSE sum[i - 1] + IF h.records[i].base = SlotBase[s] /\ h.records[i].time = t
                              THEN h.records[i].count ELSE 0
    IN sum

\* Event slots count the occurrences of tick t before a position.
Counted(h, ds, t, pos) ==
    \A s \in EventSlots : ds[s].events = Sums(h, s, t)[pos - 1]

Reading == phase \in {"read", "deliver", "complete", "store", "reply"}

\* A call that is under way has not been answered, and has received nothing
\* before its traversal starts.
RunInv ==
    /\ phase # "idle" => result = "running"
    /\ phase \in {"point", "seed", "load"} => out = {} /\ prevTick = NoTime
    /\ phase = "idle" => prevTick = NoTime
    /\ phase # "idle" /\ call.op = "query" => call.from = call.first - 1
    /\ phase # "idle" /\ call.op = "samples_at" /\ ~Reading => todo = call.times

\* The counts of the tick being read, and of the tick pending in a snapshot.
CountInv ==
    /\ OpenTime # NoTime => Counted(hist, slots, pendingTime, cursor)
    /\ \A r \in {replay, checkpoint, kept, saved} \ {None} :
          r.time # NoTime => Counted(hist, r.slots, r.time, r.pos)
    /\ kind \in Native /\ (replay # None \/ saved # None) => EventSlots = {}

\* What sample_visit has collected counts the occurrences of its tick.
AccCounts ==
    call.op = "sample" /\ (emitted \/ phase = "reply") =>
        \A s \in Slot : acc[s].events = Occurrences(hist, s, call.first)

\* Tick t has a record and has been completed.
Done(t) == t # OpenTime /\ \E i \in 1..Len(recs) : i < cursor /\ recs[i].time = t

\* Tick t lies behind the traversal.
Behind(t) ==
    /\ OpenTime # NoTime => t < OpenTime
    /\ \A i \in 1..Len(recs) : i >= cursor => t < recs[i].time

\* A query remembers the counts of the last tick that it completed.
PrevInv ==
    call.op = "query" /\ Reading =>
        /\ \A s \in Slot : prevTick # NoTime => prevEvents[s] = Occurrences(hist, s, prevTick)
        /\ \A t \in Time : t >= call.from /\ Done(t) => t <= prevTick
        /\ Behind(prevTick)

\* Whatever a completed tick has to tell has been delivered.
ScanDone ==
    \A s \in Selected :
        /\ emitted /\ call.first > 0 /\ hist.obs[s][call.first - 1] # Missing
              => Has("initial", call.first, s)
        /\ \A t \in call.first..call.last : Done(t) /\ Active(s, t) => Has("change", t, s)

QueryDone ==
    \A t \in call.first..call.last :
        Done(t) /\ (\E d \in call.drivers : Active(d, t)) =>
            \A s \in Selected : Has("sample", t, s) /\ (t > 0 => Has("sample", t - 1, s))

BatchDone == \A t \in call.times \ todo, s \in Selected : Has("sample", t, s)

DoneInv ==
    Reading =>
        /\ call.op = "scan" => ScanDone
        /\ call.op = "query" => QueryDone
        /\ call.op = "samples_at" => BatchDone

\* One change of a slot at a tick, each at a tick of the range; entering
\* states belong to the start of the range.
OutShape ==
    /\ call.op = "scan" => \A o \in out :
          \/ o.what = "initial" /\ o.time = call.first
          \/ o.what = "change" /\ o.time \in call.first..call.last
    /\ call.op = "scan" => \A o, p \in out :
          o.what = "change" /\ p.what = "change" /\ o.slot = p.slot /\ o.time = p.time => o = p
    /\ call.op = "query" => \A o \in out : o.what = "sample"

\* What has been delivered lies behind the traversal, or before every tick that still
\* lacks a row; nothing is delivered before the entering states, or before the sample.
OutPlace ==
    Reading =>
        /\ call.op = "scan" /\ ~emitted => out = {}
        /\ call.op = "sample" => out = {}
        /\ call.op \in {"scan", "query"} => \A o \in out : o.time \in Int /\ Behind(o.time)
        /\ call.op = "samples_at" => \A o \in out, t \in todo : o.time \in Int /\ o.time < t

ExactInv ==
    /\ AnswerInv
    /\ RunInv /\ CountInv /\ AccCounts /\ PrevInv /\ DoneInv /\ OutShape /\ OutPlace
    /\ EventsSound /\ SuccessComplete

-----------------------------------------------------------------------------
(* Occurrences. *)

\* What record i adds to the occurrences of slot s at tick t.
Adds(h, s, t, i) ==
    IF h.records[i].base = SlotBase[s] /\ h.records[i].time = t THEN h.records[i].count ELSE 0

LEMMA AddsType ==
    ASSUME NEW h \in Histories, NEW s \in Slot, NEW t, NEW i \in 1..Len(h.records)
    PROVE  /\ Adds(h, s, t, i) \in Nat
           /\ s \notin EventSlots => Adds(h, s, t, i) = 0
           /\ h.records[i].time # t => Adds(h, s, t, i) = 0
<1>1. IsRecord(h.records[i])
  BY SourceAssumption
<1>2. SlotBase[s] \in EventBases => s \in EventSlots
  BY DEF EventSlots
<1> QED BY <1>1, <1>2 DEF Adds, IsRecord

LEMMA SumsFacts ==
    ASSUME NEW h \in Histories, NEW s \in Slot, NEW t
    PROVE  /\ Occurrences(h, s, t) = Sums(h, s, t)[Len(h.records)]
           /\ \A i \in 0..Len(h.records) : Sums(h, s, t)[i] \in Nat
           /\ Sums(h, s, t)[0] = 0
           /\ \A i \in 1..Len(h.records) : Sums(h, s, t)[i] = Sums(h, s, t)[i - 1] + Adds(h, s, t, i)
<1> DEFINE n == Len(h.records)
           c == [i \in 1..n |-> Adds(h, s, t, i)]
           P(f) == f = [i \in 0..n |->
                          IF i = 0 THEN 0
                          ELSE f[i - 1] + IF h.records[i].base = SlotBase[s] /\ h.records[i].time = t
                                          THEN h.records[i].count ELSE 0]
           S == Sums(h, s, t)
<1>1. n \in Nat
  BY SourceFacts
<1>2. Totals(c, n) # {}
  <2>1. \A i \in 1..n : c[i] \in Nat
    BY AddsType
  <2> HIDE DEF c, n
  <2> QED BY <1>1, <2>1, RunningTotals
<1>3. PICK f \in [0..n -> Nat] : f = [i \in 0..n |-> IF i = 0 THEN 0 ELSE f[i - 1] + c[i]]
  BY <1>2 DEF Totals
<1>4. P(f)
  <2>1. \A i \in 0..n : i # 0 => i \in 1..n /\ c[i] = Adds(h, s, t, i)
    BY <1>1
  <2>2. [i \in 0..n |-> IF i = 0 THEN 0 ELSE f[i - 1] + c[i]] =
        [i \in 0..n |-> IF i = 0 THEN 0 ELSE f[i - 1] + Adds(h, s, t, i)]
    <3> HIDE DEF c, n
    <3> QED BY <2>1
  <2>3. f = [i \in 0..n |-> IF i = 0 THEN 0 ELSE f[i - 1] + Adds(h, s, t, i)]
    BY <1>3, <2>2
  <2> QED BY <2>3 DEF Adds
<1>5. S = CHOOSE g : P(g)
  BY DEF Sums
<1>6. P(S)
  <2> HIDE DEF P, S
  <2> QED BY <1>4, <1>5
<1>7. S = [i \in 0..n |-> IF i = 0 THEN 0 ELSE S[i - 1] + Adds(h, s, t, i)]
  <2> HIDE DEF S, n
  <2> QED BY <1>6 DEF Adds
<1>8. Occurrences(h, s, t) = S[n]
  BY DEF Occurrences, Sums
<1>9. S[0] = 0 /\ \A i \in 1..n : S[i] = S[i - 1] + Adds(h, s, t, i)
  <2> HIDE DEF S, n
  <2>1. \A i \in 0..n : S[i] = IF i = 0 THEN 0 ELSE S[i - 1] + Adds(h, s, t, i)
    BY <1>7
  <2> QED BY <1>1, <2>1
<1>10. \A i \in 0..n : S[i] \in Nat
  <2>1. \A i \in 1..n : Adds(h, s, t, i) \in Nat
    BY AddsType
  <2> HIDE DEF S, n
  <2>2. \A i \in 1..n : S[i - 1] \in Nat => S[i] \in Nat
    BY <1>9, <2>1
  <2>3. S[0] \in Nat
    BY <1>9
  <2> QED BY <1>1, <2>2, <2>3, StaysIn
<1> HIDE DEF S, n
<1>11. /\ Occurrences(h, s, t) = S[n]
       /\ \A i \in 0..n : S[i] \in Nat
       /\ S[0] = 0
       /\ \A i \in 1..n : S[i] = S[i - 1] + Adds(h, s, t, i)
  BY <1>8, <1>9, <1>10
<1> QED BY <1>11 DEF S, n

\* Records that add nothing leave the total.
LEMMA SumsKept ==
    ASSUME NEW h \in Histories, NEW s \in Slot, NEW t,
           NEW a \in 0..Len(h.records), NEW b \in 0..Len(h.records), a <= b,
           \A i \in (a + 1)..b : h.records[i].time # t
    PROVE  Sums(h, s, t)[a] = Sums(h, s, t)[b]
<1> DEFINE S == Sums(h, s, t)
<1>0. Len(h.records) \in Nat
  BY SourceFacts
<1>1. ASSUME NEW i \in (a + 1)..b PROVE S[i] = S[i - 1]
  <2>1. i \in 1..Len(h.records) /\ i - 1 \in 0..Len(h.records)
    BY <1>0
  <2>2. Adds(h, s, t, i) = 0
    BY <2>1, AddsType
  <2>3. S[i] = S[i - 1] + Adds(h, s, t, i) /\ S[i - 1] \in Nat
    BY <2>1, SumsFacts
  <2> HIDE DEF S
  <2> QED BY <2>2, <2>3
<1> HIDE DEF S
<1>2. a \in Nat /\ b \in Nat
  BY <1>0
<1>3. S[a] = S[b]
  BY <1>1, <1>2, TotalKept
<1> QED BY <1>3 DEF S

LEMMA OccurrencesType ==
    ASSUME NEW h \in Histories, NEW s \in Slot, NEW t
    PROVE  /\ Occurrences(h, s, t) \in Nat
           /\ s \notin EventSlots => Occurrences(h, s, t) = 0
<1> DEFINE S == Sums(h, s, t)
           n == Len(h.records)
<1>0. n \in Nat
  BY SourceFacts
<1>1. Occurrences(h, s, t) = S[n] /\ S[n] \in Nat /\ S[0] = 0
  BY <1>0, SumsFacts
<1>2. ASSUME s \notin EventSlots PROVE S[0] = S[n]
  <2>1. ASSUME NEW i \in 1..n PROVE S[i] = S[i - 1]
    <3>1. Adds(h, s, t, i) = 0 /\ S[i] = S[i - 1] + Adds(h, s, t, i) /\ S[i - 1] \in Nat
      BY <1>0, <1>2, AddsType, SumsFacts
    <3> HIDE DEF S
    <3> QED BY <3>1
  <2> HIDE DEF S, n
  <2>2. \A i \in (0 + 1)..n : S[i] = S[i - 1]
    BY <2>1
  <2> QED BY <1>0, <2>2, TotalKept
<1> HIDE DEF S, n
<1> QED BY <1>1, <1>2

\* Without a record at the tick nothing occurred.
LEMMA NoOccurrence ==
    ASSUME NEW h \in Histories, NEW s \in Slot, NEW t,
           \A i \in 1..Len(h.records) : h.records[i].time # t
    PROVE  Occurrences(h, s, t) = 0
<1>0. Len(h.records) \in Nat
  BY SourceFacts
<1>1. Sums(h, s, t)[0] = Sums(h, s, t)[Len(h.records)]
  <2>1. /\ 0 \in 0..Len(h.records) /\ Len(h.records) \in 0..Len(h.records)
        /\ \A i \in (0 + 1)..Len(h.records) : h.records[i].time # t
    BY <1>0
  <2> QED BY <1>0, <2>1, SumsKept
<1> QED BY <1>1, SumsFacts

-----------------------------------------------------------------------------
(* Starting and ending a call. *)

Exact ==
    /\ RunInv /\ CountInv /\ AccCounts /\ PrevInv /\ DoneInv /\ OutShape /\ OutPlace
    /\ EventsSound /\ SuccessComplete

\* The count that a caller is told.
CountTold(o) ==
    o.what # "initial" =>
        /\ o.events = Occurrences(hist, o.slot, o.time)
        /\ o.what = "change" /\ o.slot \in EventSlots => o.events > 0

LEMMA CountsKept ==
    ASSUME EventsSound, hist' = hist, out' \in {out, {}}
    PROVE  EventsSound'
BY DEF EventsSound

LEMMA CountsGrow ==
    ASSUME EventsSound, hist' = hist, NEW new, out' = out \cup new, \A o \in new : CountTold(o)
    PROVE  EventsSound'
<1>1. \A o \in out' : CountTold(o)
  BY DEF EventsSound, CountTold
<1>2. \A o \in out' : CountTold(o)'
  BY <1>1 DEF CountTold
<1> QED BY <1>2 DEF EventsSound, CountTold

\* What is not a success promises nothing.
LEMMA NotSuccessful ==
    ASSUME result' # "ok"
    PROVE  SuccessComplete'
BY DEF SuccessComplete

\* The snapshots that a step keeps or drops.
LEMMA SnapshotsKept ==
    ASSUME CountInv, hist' = hist, kind' = kind, OpenTime' = NoTime,
           replay' \in {replay, None}, checkpoint' \in {checkpoint, None},
           kept' \in {kept, None}, saved' \in {saved, None}
    PROVE  CountInv'
<1>1. \A r \in {replay', checkpoint', kept', saved'} \ {None} :
         r.time # NoTime => Counted(hist, r.slots, r.time, r.pos)
  BY DEF CountInv
<1>2. \A r \in {replay', checkpoint', kept', saved'} \ {None} :
         r.time # NoTime => Counted(hist', r.slots, r.time, r.pos)
  BY <1>1
<1>3. kind' \in Native /\ (replay' # None \/ saved' # None) => EventSlots = {}
  BY DEF CountInv
<1> QED BY <1>2, <1>3 DEF CountInv

LEMMA ReturnExact ==
    ASSUME ExactInv, NEW how, Return(how),
           replay' \in {replay, None}, checkpoint' \in {checkpoint, None},
           EventsSound', OutShape', SuccessComplete'
    PROVE  Exact'
<1>1. /\ phase' = "idle" /\ call' = call /\ hist' = hist /\ kind' = kind
      /\ kept' = None /\ saved' = None /\ prevTick' = NoTime
  BY DEF Return, DropLocals, source
<1>2. ~emitted'
  BY Zenon DEF Return, DropLocals
<1>3. OpenTime' = NoTime /\ ~Reading'
  BY <1>1 DEF OpenTime, Reading
<1>4. RunInv'
  BY <1>1 DEF RunInv
<1>5. CountInv'
  BY <1>1, <1>3, SnapshotsKept DEF ExactInv
<1>6. AccCounts' /\ PrevInv' /\ DoneInv' /\ OutPlace'
  BY <1>1, <1>2, <1>3 DEF AccCounts, PrevInv, DoneInv, OutPlace
<1> QED BY <1>4, <1>5, <1>6 DEF Exact

\* A call that reads nothing has nothing to tell.
Trivially(c) ==
    \/ c.op = "scan" /\ c.first > c.last
    \/ c.op = "query" /\ (c.drivers = {} \/ c.first > c.last)

LEMMA BeginExact ==
    ASSUME ExactInv, NEW c \in CallType, NEW reads, NEW first \in {"seed", "point"},
           Begin(c, reads, first), c.op = "query" => c.from = c.first - 1,
           ~reads => Trivially(c)
    PROVE  Exact'
<1>1. /\ phase = "idle" /\ call' = c /\ phase' \in {"idle", "seed", "point"}
      /\ phase' = "idle" <=> ~reads
      /\ result' = IF reads THEN "running" ELSE "ok"
      /\ phase' # "idle" => todo' = c.times
      /\ out' = {}
      /\ UNCHANGED <<hist, kind, replay, checkpoint, kept, saved, prevTick>>
  BY OutNothing DEF Begin, source, caches, reading, ticking
<1>2. ~emitted'
  <2>1. ~emitted
    BY <1>1 DEF ExactInv, AnswerInv, DueInv
  <2> QED BY <2>1, Zenon DEF Begin
<1>3. OpenTime' = NoTime /\ ~Reading'
  BY <1>1 DEF OpenTime, Reading
<1>4. RunInv'
  BY <1>1 DEF ExactInv, RunInv
<1>5. CountInv'
  BY <1>1, <1>3, SnapshotsKept DEF ExactInv
<1>6. AccCounts' /\ PrevInv' /\ DoneInv' /\ OutShape' /\ OutPlace' /\ EventsSound'
  BY <1>1, <1>2, <1>3 DEF AccCounts, PrevInv, DoneInv, OutShape, OutPlace, EventsSound
<1>7. SuccessComplete'
  <2>1. CASE reads
    BY <1>1, <2>1, NotSuccessful
  <2>2. CASE ~reads
    <3>1. Trivially(c)
      BY <2>2
    <3>2. c.first \in Int /\ c.last \in Int
      BY PlanFacts DEF CallType, Time
    <3>3. CASE c.op = "scan" /\ c.first > c.last
      <4>1. call'.op = "scan" /\ ~(call'.first <= call'.last) /\ call'.first..call'.last = {}
        BY <1>1, <3>2, <3>3
      <4> QED BY <4>1 DEF SuccessComplete
    <3>4. CASE c.op = "query" /\ (c.drivers = {} \/ c.first > c.last)
      <4>1. call'.op = "query" /\ (call'.drivers = {} \/ call'.first..call'.last = {})
        BY <1>1, <3>2, <3>4
      <4> QED BY <4>1 DEF SuccessComplete
    <3> QED BY <3>1, <3>3, <3>4 DEF Trivially
  <2> QED BY <2>1, <2>2
<1> QED BY <1>4, <1>5, <1>6, <1>7 DEF Exact

LEMMA ShmReplayExact ==
    ASSUME ExactInv, NEW t \in PointTicks, ShmReplaySample(t)
    PROVE  Exact'
<1>0. out' = {Observation("sample", t, s,
                 [state |-> SampleOf(s, replay.slots[s], replay.time).state, events |-> 0]) :
                    s \in Selected}
  BY OutOnly DEF ShmReplaySample
<1>1. /\ phase = "idle" /\ replay # None /\ kind = "shm"
      /\ call' = [NoCall EXCEPT !.op = "sample", !.first = t, !.last = t, !.from = t]
      /\ replay' \in {replay, None} /\ checkpoint' \in {checkpoint, None}
      /\ UNCHANGED <<phase, hist, kind, kept, saved, emitted, prevTick>>
      /\ result' \in {"ok", "stopped"}
  BY DEF ShmReplaySample, source, caches, reading, ticking, visiting
<1>2. /\ call'.op = "sample" /\ call'.first = t
  BY <1>1 DEF NoCall
<1>3. ~emitted'
  BY <1>1, Zenon DEF ExactInv, AnswerInv, DueInv
<1>4. OpenTime' = NoTime /\ ~Reading'
  BY <1>1 DEF OpenTime, Reading
<1>5. EventSlots = {} /\ hist \in Histories
  BY <1>1 DEF ExactInv, CountInv, Native, AnswerInv, Inv
<1>6. \A o \in out' : /\ o.what = "sample" /\ o.slot \in Slot /\ o.events = 0
  BY <1>0, PlanFacts DEF Observation
<1>7. EventsSound'
  BY <1>1, <1>5, <1>6, OccurrencesType DEF EventsSound
<1>8. ASSUME NEW s \in Selected PROVE Has("sample", t, s)'
  <2> DEFINE c == [state |-> SampleOf(s, replay.slots[s], replay.time).state, events |-> 0]
  <2>1. Observation("sample", t, s, c) \in out'
    BY <1>0
  <2> HIDE DEF c
  <2> QED BY <2>1 DEF Observation, Has
<1>9. SuccessComplete'
  BY <1>2, <1>8 DEF SuccessComplete
<1>10. RunInv' /\ AccCounts' /\ PrevInv' /\ DoneInv' /\ OutShape' /\ OutPlace'
  BY <1>1, <1>2, <1>3, <1>4 DEF ExactInv, RunInv, AccCounts, PrevInv, DoneInv, OutShape, OutPlace
<1>11. CountInv'
  BY <1>1, <1>4, SnapshotsKept DEF ExactInv
<1> QED BY <1>7, <1>9, <1>10, <1>11 DEF Exact

LEMMA OperationExact ==
    ASSUME ExactInv, Operation
    PROVE  Exact'
<1> USE ZeroTick
<1>0. /\ hist \in Histories /\ hist.span \in Time \cup {NoTime}
      /\ \A w \in Windows : w[1] \in Time /\ w[2] \in Time \cup {NoTime}
  BY SourceAssumption, PlanAssumption DEF ExactInv, AnswerInv, Inv
<1>1. ASSUME NEW w \in Windows, Scan(w[1], w[2])
      PROVE  Exact'
  <2> DEFINE unbounded == IF hist.span < w[1] THEN w[1] ELSE hist.span
             last == EndTick(w[2], unbounded)
             c == [NoCall EXCEPT !.op = "scan", !.first = w[1], !.last = last,
                                 !.from = w[1], !.seed = TRUE]
             reads == w[1] <= last
  <2>1. Begin(c, reads, "seed")
    BY <1>1 DEF Scan
  <2>2. last \in Time
    <3>1. hist.span # NoTime => unbounded \in Time
      BY <1>0
    <3> HIDE DEF unbounded
    <3> QED BY <1>0, <3>1, EndTickType
  <2> HIDE DEF last
  <2>3. c.op = "scan" /\ c.first = w[1] /\ c.last = last /\ c \in CallType
    BY <1>0, <2>2 DEF NoCall, CallType
  <2>4. ~reads => Trivially(c)
    BY <1>0, <2>2, <2>3, PlanFacts DEF Trivially, Time
  <2> HIDE DEF c, reads
  <2> QED BY <2>1, <2>3, <2>4, BeginExact
<1>2. ASSUME NEW times \in Batches, SamplesAt(times)
      PROVE  Exact'
  <2>1. PICK last \in times :
           Begin([NoCall EXCEPT !.op = "samples_at", !.last = last, !.seed = TRUE,
                                   !.times = times], TRUE, "seed")
    BY <1>2 DEF SamplesAt
  <2> DEFINE c == [NoCall EXCEPT !.op = "samples_at", !.last = last, !.seed = TRUE,
                                 !.times = times]
  <2>2. times \subseteq Time
    BY PlanAssumption
  <2>3. c.op = "samples_at" /\ c \in CallType
    BY <2>2 DEF NoCall, CallType
  <2>4. Begin(c, TRUE, "seed")
    BY <2>1
  <2> HIDE DEF c
  <2> QED BY <2>3, <2>4, BeginExact
<1>3. ASSUME NEW w \in Windows, NEW d \in DriverSets, Query(w[1], w[2], d)
      PROVE  Exact'
  <2> DEFINE last == EndTick(w[2], hist.span)
             c == [NoCall EXCEPT !.op = "query", !.first = w[1], !.last = last,
                                 !.from = w[1] - 1, !.seed = TRUE, !.drivers = d]
             reads == d # {} /\ w[1] <= last
  <2>1. last \in Time /\ d \subseteq Selected
    BY <1>0, EndTickType, PlanAssumption
  <2>2. Begin(c, reads, "seed")
    BY <1>3 DEF Query
  <2> HIDE DEF last
  <2>3. w[1] - 1 \in Time \cup {NoTime}
    BY <1>0, PlanFacts DEF Time, NoTime
  <2>4. /\ c.op = "query" /\ c.from = c.first - 1 /\ c.first = w[1] /\ c.last = last
        /\ c.drivers = d /\ c \in CallType
    BY <1>0, <2>1, <2>3 DEF NoCall, CallType
  <2>5. ~reads => Trivially(c)
    BY <1>0, <2>1, <2>4, PlanFacts DEF Trivially, Time
  <2> HIDE DEF c, reads
  <2> QED BY <2>2, <2>4, <2>5, BeginExact
<1>4. ASSUME NEW t \in PointTicks, Sample(t)
      PROVE  Exact'
  <2> DEFINE c == [NoCall EXCEPT !.op = "sample", !.first = t, !.last = t, !.from = t,
                                 !.seed = kind # "shm"]
  <2>1. t \in Time
    BY PlanAssumption
  <2>2. (kind # "shm") \in BOOLEAN
    OBVIOUS
  <2>3. c.op = "sample" /\ c \in CallType
    BY <2>1, <2>2 DEF NoCall, CallType
  <2>4. Begin(c, TRUE, "point")
    BY <1>4 DEF Sample
  <2> HIDE DEF c
  <2> QED BY <2>3, <2>4, BeginExact
<1>5. ASSUME NEW t \in PointTicks, ShmReplaySample(t)
      PROVE  Exact'
  BY <1>5, ShmReplayExact
<1> QED BY <1>1, <1>2, <1>3, <1>4, <1>5 DEF Operation

-----------------------------------------------------------------------------
(* Point reads and the choice of a snapshot. *)

LEMMA DeclinedExact ==
    ASSUME ExactInv, phase \in {"point", "seed"}, PointDeclined,
           replay' \in {replay, None}, checkpoint' \in {checkpoint, None}
    PROVE  Exact'
<1>1. /\ phase' \in {"seed", "load"}
      /\ UNCHANGED <<hist, kind, call, kept, saved, emitted, todo, prevTick, out, result>>
  BY OutKept DEF PointDeclined, source, reading, ticking, visiting, reply
<1>2. ~emitted' /\ result' = "running" /\ out' = {}
  <2>1. ~emitted
    BY Zenon DEF ExactInv, AnswerInv, DueInv
  <2> QED BY <1>1, <2>1 DEF ExactInv, RunInv
<1>3. OpenTime' = NoTime /\ ~Reading' /\ ~Reading
  BY <1>1 DEF OpenTime, Reading
<1>4. RunInv'
  BY <1>1, <1>3 DEF ExactInv, RunInv
<1>5. CountInv'
  BY <1>1, <1>3, SnapshotsKept DEF ExactInv
<1>6. AccCounts' /\ PrevInv' /\ DoneInv' /\ OutShape' /\ OutPlace' /\ EventsSound'
  BY <1>1, <1>2, <1>3 DEF AccCounts, PrevInv, DoneInv, OutShape, OutPlace, EventsSound
<1> QED BY <1>2, <1>4, <1>5, <1>6, NotSuccessful DEF Exact

LEMMA PointStatesExact ==
    ASSUME ExactInv, phase \in {"point", "seed"}, NEW states, PointStates(states), Seekable,
           checkpoint' \in {checkpoint, None},
           replay' # replay /\ replay' # None => replay'.time = NoTime
    PROVE  Exact'
<1>1. /\ UNCHANGED <<hist, kind, call, kept, saved, todo, prevTick, out, result>>
      /\ phase' = IF phase = "point" THEN "reply" ELSE "load"
  BY OutKept DEF PointStates, source, reading, ticking, reply
<1>3. /\ result' = "running" /\ out' = {} /\ OpenTime' = NoTime
      /\ phase' = "reply" => call.op = "sample"
      /\ phase' # "reply" => ~Reading'
      /\ hist \in Histories
  BY <1>1 DEF ExactInv, RunInv, AnswerInv, CallShape, Inv, OpenTime, Reading
<1>4. EventSlots = {}
  <2>1. ASSUME NEW s \in EventSlots PROVE FALSE
    <3>1. SlotBase[s] \in EventBases /\ SlotBase[s] \in BitBases \cup {Computed}
      BY DEF Seekable, EventSlots
    <3> QED BY <3>1, PlanAssumption DEF Bases
  <2> QED BY <2>1
<1>5. RunInv'
  BY <1>1, <1>3 DEF ExactInv, RunInv, Reading
<1>6. CountInv'
  <2>1. \A r \in {replay', checkpoint', kept', saved'} \ {None} :
           r.time # NoTime => Counted(hist, r.slots, r.time, r.pos)
    BY <1>4 DEF Counted
  <2> QED BY <1>1, <1>3, <1>4, <2>1 DEF CountInv
<1>7. AccCounts'
  <2>1. CASE phase = "seed"
    <3>1. ~emitted'
      BY <2>1, Zenon DEF PointStates
    <3> QED BY <1>1, <2>1, <3>1 DEF AccCounts
  <2>2. CASE phase = "point"
    <3>1. acc' = [s \in Slot |-> [state |-> states[s], events |-> 0]]
      BY <2>2 DEF PointStates
    <3>2. \A s \in Slot : acc'[s].events = 0
      BY <3>1
    <3>3. \A s \in Slot : Occurrences(hist, s, call.first) = 0
      BY <1>3, <1>4, OccurrencesType
    <3> QED BY <1>1, <3>2, <3>3 DEF AccCounts
  <2> QED BY <2>1, <2>2
<1>8. PrevInv' /\ DoneInv' /\ OutShape' /\ OutPlace' /\ EventsSound'
  BY <1>1, <1>3 DEF PrevInv, DoneInv, OutShape, OutPlace, EventsSound
<1> QED BY <1>3, <1>5, <1>6, <1>7, <1>8, NotSuccessful DEF Exact

LEMMA PointExact ==
    ASSUME ExactInv, PointSkip \/ PointReuse \/ PointSeek \/ PointUncertified \/ PointFail
    PROVE  Exact'
<1>1. CASE PointSkip
  BY <1>1, DeclinedExact DEF PointSkip, caches
<1>2. CASE PointUncertified
  BY <1>2, DeclinedExact DEF PointUncertified, PointMiss
<1>3. CASE PointFail
  <2>1. out' = {} /\ Return("error") /\ replay' = None /\ checkpoint' = None /\ phase' = "idle"
        /\ result' # "ok"
    BY <1>3, OutNothing DEF PointFail, Abandon, Return
  <2>2. EventsSound' /\ OutShape' /\ OutPlace'
    BY <2>1 DEF EventsSound, OutShape, OutPlace
  <2> QED BY <2>1, <2>2, NotSuccessful, ReturnExact
<1>4. CASE PointReuse
  BY <1>4, PointStatesExact DEF PointReuse, caches
<1>5. CASE PointSeek
  <2>1. /\ phase \in {"point", "seed"} /\ Seekable /\ checkpoint' = None
        /\ \E states : PointStates(states) /\ (replay' = None \/ \E i : replay' = AfterPoint(i, states))
    BY <1>5 DEF PointSeek, PointMiss
  <2>2. replay' # None => replay'.time = NoTime
    BY <2>1 DEF AfterPoint
  <2> QED BY <2>1, <2>2, PointStatesExact
<1> QED BY <1>1, <1>2, <1>3, <1>4, <1>5

LEMMA ParallelPrefixExact ==
    ASSUME ExactInv, ParallelPrefix
    PROVE  Exact'
<1>1. /\ phase = "load" /\ phase' = "load"
      /\ UNCHANGED <<hist, kind, call, replay, kept, saved, emitted, todo, prevTick, out, result>>
  BY OutKept DEF ParallelPrefix, source, reading, ticking, visiting, reply
<1>2. checkpoint'.time = NoTime
  BY DEF ParallelPrefix, Prefix
<1>3. ~emitted' /\ result' = "running" /\ out' = {}
  <2>1. ~emitted
    BY <1>1, Zenon DEF ExactInv, AnswerInv, DueInv
  <2> QED BY <1>1, <2>1 DEF ExactInv, RunInv
<1>4. OpenTime' = NoTime /\ ~Reading' /\ ~Reading
  BY <1>1 DEF OpenTime, Reading
<1>5. RunInv'
  BY <1>1, <1>4 DEF ExactInv, RunInv
<1>6. CountInv'
  <2>1. \A r \in {replay', checkpoint', kept', saved'} \ {None} :
           r.time # NoTime => Counted(hist', r.slots, r.time, r.pos)
    BY <1>1, <1>2 DEF ExactInv, CountInv
  <2> QED BY <1>1, <1>4, <2>1 DEF ExactInv, CountInv
<1>7. AccCounts' /\ PrevInv' /\ DoneInv' /\ OutShape' /\ OutPlace' /\ EventsSound'
  BY <1>1, <1>3, <1>4 DEF AccCounts, PrevInv, DoneInv, OutShape, OutPlace, EventsSound
<1> QED BY <1>3, <1>5, <1>6, <1>7, NotSuccessful DEF Exact

\* No tick at or after the lower bound lies behind a read that starts.
LEMMA LoadAhead ==
    ASSUME ExactInv, Load
    PROVE  /\ \A t \in Time : t >= call.from => ~Done(t)'
           /\ OpenTime' = NoTime \/ OpenTime' \in Time
           /\ call.from = NoTime => cursor' = 1
<1> DEFINE from == IF Eligible(replay) THEN replay
                   ELSE IF Eligible(checkpoint) THEN checkpoint ELSE None
<1>0. /\ Len(recs) \in Nat /\ \A j \in 1..Len(recs) : recs[j].time \in Time
      /\ hist \in Histories /\ call \in CallType
  BY SourceFacts DEF ExactInv, AnswerInv, Inv, EngineInv, TypeOK, CallType, recs
<1>1. phase' = "read" /\ hist' = hist
  BY DEF Load, source
<1>2. /\ cursor' = IF from = None THEN 1 ELSE from.pos
      /\ pendingTime' = IF from = None THEN NoTime ELSE from.time
  BY DEF Load
<1>3. from # None => from \in Replay /\ SnapshotOK(hist, from) /\ Eligible(from)
  BY DEF Eligible, ExactInv, AnswerInv, Inv, EngineInv, TypeOK, CachesFaithful
<1> HIDE DEF from
<1>4. OpenTime' = pendingTime'
  BY <1>1 DEF OpenTime
<1>5. call.from = NoTime => cursor' = 1
  BY <1>2, <1>3 DEF Eligible
<1>6. OpenTime' = NoTime \/ OpenTime' \in Time
  BY <1>2, <1>3, <1>4 DEF Replay
<1>7. ASSUME NEW i \in 1..Len(recs), i < cursor', recs[i].time >= call.from
      PROVE  recs[i].time = OpenTime'
  <2>1. from # None
    BY <1>0, <1>2, <1>7
  <2>2. /\ from.start <= call.from /\ i < from.pos /\ OpenTime' = from.time
        /\ from.start \in Time /\ call.from \in Time /\ recs[i].time >= call.from
    BY <1>0, <1>2, <1>3, <1>4, <1>7, <2>1 DEF Eligible, Replay, CallType
  <2>3. CASE from.time = NoTime
    <3>1. recs[i].time < from.start
      BY <1>3, <2>1, <2>2, <2>3 DEF SnapshotOK, IsFirstAt, recs
    <3> QED BY <1>0, <2>2, <3>1, PlanFacts DEF Time
  <2>4. CASE from.time # NoTime
    <3>1. recs[i].time <= from.start /\ from.time = from.start
      BY <1>3, <2>1, <2>2, <2>4 DEF SnapshotOK, recs
    <3> QED BY <1>0, <2>2, <3>1, PlanFacts DEF Time
  <2> QED BY <2>3, <2>4
<1>8. ASSUME NEW t \in Time, t >= call.from, Done(t)' PROVE FALSE
  <2>1. PICK i \in 1..Len(recs) : i < cursor' /\ recs[i].time = t /\ t # OpenTime'
    BY <1>1, <1>8 DEF Done, recs
  <2> QED BY <1>7, <1>8, <2>1
<1> QED BY <1>5, <1>6, <1>8

LEMMA LoadExact ==
    ASSUME ExactInv, Load
    PROVE  Exact'
<1> DEFINE from == IF Eligible(replay) THEN replay
                   ELSE IF Eligible(checkpoint) THEN checkpoint ELSE None
<1>0. /\ Len(recs) \in Nat /\ \A j \in 1..Len(recs) : recs[j].time \in Time
      /\ hist \in Histories /\ call \in CallType
  BY SourceFacts DEF ExactInv, AnswerInv, Inv, EngineInv, TypeOK, CallType, recs
<1>1. /\ phase = "load" /\ phase' = "read" /\ replay' = None /\ checkpoint' = None
      /\ kept' = checkpoint
      /\ UNCHANGED <<hist, kind, call, saved, emitted, todo, prevTick, out, result>>
  BY OutKept DEF Load, source, ticking, visiting, reply
<1>2. /\ slots' = IF from = None THEN Fresh ELSE from.slots
      /\ cursor' = IF from = None THEN 1 ELSE from.pos
      /\ pendingTime' = IF from = None THEN NoTime ELSE from.time
  BY DEF Load
<1>3. from \in {replay, checkpoint, None}
  OBVIOUS
<1> HIDE DEF from
<1>4. ~emitted' /\ result' = "running" /\ out' = {} /\ prevTick' = NoTime
  <2>1. ~emitted
    BY <1>1, Zenon DEF ExactInv, AnswerInv, DueInv
  <2> QED BY <1>1, <2>1 DEF ExactInv, RunInv
<1>5. RunInv'
  BY <1>1, <1>4 DEF ExactInv, RunInv, Reading
<1>6. CountInv'
  <2>1. OpenTime' # NoTime => Counted(hist', slots', pendingTime', cursor')
    <3> SUFFICES ASSUME pendingTime' # NoTime PROVE Counted(hist, slots', pendingTime', cursor')
      BY <1>1 DEF OpenTime
    <3>1. from # None /\ from.time # NoTime
      BY <1>2
    <3>2. Counted(hist, from.slots, from.time, from.pos)
      BY <1>3, <3>1 DEF ExactInv, CountInv
    <3> QED BY <1>2, <3>1, <3>2
  <2>2. \A r \in {replay', checkpoint', kept', saved'} \ {None} :
           r.time # NoTime => Counted(hist', r.slots, r.time, r.pos)
    BY <1>1 DEF ExactInv, CountInv
  <2> QED BY <1>1, <2>1, <2>2 DEF ExactInv, CountInv
<1>7. AccCounts' /\ OutShape' /\ OutPlace' /\ EventsSound'
  BY <1>1, <1>4 DEF AccCounts, OutShape, OutPlace, EventsSound
<1>8. ASSUME NEW t \in Time, t >= call.from, Done(t)' PROVE FALSE
  BY <1>8, LoadAhead
<1>9. PrevInv'
  <2> SUFFICES ASSUME call.op = "query" PROVE PrevInv'
    BY <1>1 DEF PrevInv
  <2>1. Behind(prevTick)'
    <3>1. OpenTime' # NoTime => NoTime < OpenTime'
      BY LoadAhead, PlanFacts DEF Time, NoTime
    <3>2. \A i \in 1..Len(recs) : NoTime < recs[i].time
      BY <1>0, PlanFacts DEF Time, NoTime
    <3> QED BY <1>1, <1>4, <3>1, <3>2 DEF Behind, recs
  <2>2. \A t \in Time : t >= call.from /\ Done(t)' => t <= prevTick'
    BY <1>8
  <2> QED BY <1>1, <1>4, <2>1, <2>2 DEF PrevInv
<1>10. DoneInv'
  <2>1. ASSUME call.op \in {"scan", "query"}, NEW t \in call.first..call.last PROVE ~Done(t)'
    <3>1. t \in Time /\ t >= call.from
      <4>1. call.first \in Nat /\ call.last \in 0..MaxTick /\ MaxTick \in Nat
        BY <1>0, PlanFacts DEF CallType, Time
      <4>2. call.from = call.first \/ call.from = call.first - 1
        BY <1>1, <2>1 DEF ExactInv, RunInv, AnswerInv, CallShape
      <4>3. t \in Nat /\ t >= call.first /\ t <= call.last
        BY <2>1, <4>1
      <4> QED BY <4>1, <4>2, <4>3 DEF Time
    <3> QED BY <1>8, <3>1
  <2>2. call.op = "samples_at" => call.times \ todo = {}
    BY <1>1 DEF ExactInv, RunInv, Reading
  <2>3. call.op = "scan" => ScanDone'
    BY <1>1, <1>4, <2>1 DEF ScanDone
  <2>4. call.op = "query" => QueryDone'
    BY <1>1, <2>1 DEF QueryDone
  <2>5. call.op = "samples_at" => BatchDone'
    BY <1>1, <2>2 DEF BatchDone
  <2> QED BY <1>1, <2>3, <2>4, <2>5 DEF DoneInv
<1> QED BY <1>4, <1>5, <1>6, <1>7, <1>9, <1>10, NotSuccessful DEF Exact

-----------------------------------------------------------------------------
(* Reading records. *)

\* A step that neither delivers nor moves leaves what has been delivered exact.
LEMMA StillExact ==
    ASSUME ExactInv, Reading, Reading', OpenTime' = OpenTime,
           UNCHANGED <<hist, call, cursor, emitted, todo, prevTick, prevEvents, out, result>>
    PROVE  /\ RunInv' /\ PrevInv' /\ DoneInv' /\ OutShape' /\ OutPlace' /\ EventsSound'
           /\ SuccessComplete'
<1>1. phase # "idle" /\ phase \notin {"point", "seed", "load"}
      /\ phase' # "idle" /\ phase' \notin {"point", "seed", "load"}
  BY DEF Reading
<1>2. RunInv'
  BY <1>1 DEF ExactInv, RunInv
<1>3. /\ \A t : Done(t)' <=> Done(t)
      /\ \A t : Behind(t)' <=> Behind(t)
  BY DEF Done, Behind, recs
<1>4. PrevInv'
  BY <1>3 DEF ExactInv, PrevInv, Behind, recs
<1>5. DoneInv'
  <2>1. /\ \A w, t, s : Has(w, t, s)' <=> Has(w, t, s)
        /\ \A s, t : Active(s, t)' <=> Active(s, t)
    BY DEF Has, Active
  <2>2. call.op = "scan" => ScanDone'
    <3>1. call.op = "scan" => ScanDone
      BY DEF ExactInv, DoneInv
    <3> QED BY <1>3, <2>1, <3>1 DEF ScanDone, Has
  <2>3. call.op = "query" => QueryDone'
    <3>1. call.op = "query" => QueryDone
      BY DEF ExactInv, DoneInv
    <3> QED BY <1>3, <2>1, <3>1 DEF QueryDone
  <2>4. call.op = "samples_at" => BatchDone'
    <3>1. call.op = "samples_at" => BatchDone
      BY DEF ExactInv, DoneInv
    <3> QED BY <2>1, <3>1 DEF BatchDone
  <2> QED BY <2>2, <2>3, <2>4 DEF DoneInv
<1>6. OutShape' /\ OutPlace'
  BY <1>3 DEF ExactInv, OutShape, OutPlace, Behind, recs
<1>7. EventsSound'
  BY CountsKept DEF ExactInv
<1>8. result' # "ok"
  BY <1>1 DEF ExactInv, RunInv
<1> QED BY <1>2, <1>4, <1>5, <1>6, <1>7, <1>8, NotSuccessful

\* A snapshot at the end of a read counts its pending tick.
SavedCounts(r) ==
    /\ r.time # NoTime => Counted(hist, r.slots, r.time, r.pos)
    /\ kind \in Native => EventSlots = {}

LEMMA SavedCount ==
    ASSUME ExactInv, saved # None
    PROVE  SavedCounts(saved)
BY DEF ExactInv, CountInv, SavedCounts

LEMMA SavedKept ==
    ASSUME ExactInv, UNCHANGED <<hist, kind, replay, checkpoint, kept>>,
           OpenTime' # NoTime => Counted(hist, slots', pendingTime', cursor'),
           saved' # None => SavedCounts(saved')
    PROVE  CountInv'
<1>1. \A r \in {replay', checkpoint', kept', saved'} \ {None} :
         r.time # NoTime => Counted(hist', r.slots, r.time, r.pos)
  BY DEF ExactInv, CountInv, SavedCounts
<1>2. kind' \in Native /\ (replay' # None \/ saved' # None) => EventSlots = {}
  BY DEF ExactInv, CountInv, SavedCounts
<1> QED BY <1>1, <1>2 DEF CountInv

LEMMA CompleteExact ==
    ASSUME ExactInv, phase = "read", NEW then \in {"deliver", "tick", "end"}, CompleteTick(then),
           saved' # None => SavedCounts(saved')
    PROVE  Exact'
<1>1. /\ phase' = "complete"
      /\ UNCHANGED <<hist, kind, call, replay, checkpoint, slots, cursor, pendingTime, kept,
                     emitted, todo, prevTick, prevEvents, acc, out, result>>
  BY OutKept DEF CompleteTick, source, caches, reading, visiting, reply
<1>2. OpenTime' = OpenTime /\ Reading /\ Reading'
  BY <1>1 DEF OpenTime, Reading
<1>3. CountInv'
  <2>1. OpenTime' # NoTime => Counted(hist, slots', pendingTime', cursor')
    BY <1>1, <1>2 DEF ExactInv, CountInv
  <2> QED BY <1>1, <2>1, SavedKept
<1>4. AccCounts'
  BY <1>1 DEF ExactInv, AccCounts
<1> QED BY <1>1, <1>2, <1>3, <1>4, StillExact DEF Exact

LEMMA TickEndExact ==
    ASSUME ExactInv, TickPassed \/ TickBoundary
    PROVE  Exact'
<1>1. saved # None => SavedCounts(saved)
  BY SavedCount
<1>2. CASE TickPassed
  <2>1. saved' = saved
    BY <1>2 DEF TickPassed
  <2> QED BY <1>1, <1>2, <2>1, CompleteExact DEF TickPassed
<1>3. CASE TickBoundary
  <2>1. saved' = saved
    BY <1>3 DEF TickBoundary
  <2> QED BY <1>1, <1>3, <2>1, CompleteExact DEF TickBoundary
<1> QED BY <1>2, <1>3

LEMMA EndOfRecordsExact ==
    ASSUME ExactInv, EndOfRecords
    PROVE  Exact'
<1>1. phase = "read" /\ saved' \in {None, Snapshot}
  BY DEF EndOfRecords
<1>2. saved' # None => SavedCounts(saved')
  <2> SUFFICES ASSUME saved' # None PROVE SavedCounts(saved')
    OBVIOUS
  <2>1. SavesReplay /\ saved' = Snapshot
    BY <1>1 DEF EndOfRecords
  <2>2. /\ Snapshot.time = pendingTime /\ Snapshot.pos = cursor /\ Snapshot.slots = slots
    BY DEF Snapshot
  <2>3. pendingTime # NoTime => Counted(hist, slots, pendingTime, cursor)
    BY <1>1 DEF ExactInv, CountInv, OpenTime
  <2>4. kind \in Native => EventSlots = {}
    BY <2>1 DEF SavesReplay, Native
  <2> QED BY <2>1, <2>2, <2>3, <2>4 DEF SavedCounts
<1>3. CASE pendingTime # NoTime
  BY <1>1, <1>2, <1>3, CompleteExact DEF EndOfRecords
<1>4. CASE pendingTime = NoTime
  <2>1. /\ phase' = "store"
        /\ UNCHANGED <<hist, kind, call, replay, checkpoint, slots, cursor, pendingTime, kept,
                       emitted, todo, prevTick, prevEvents, acc, out, result>>
    BY <1>4, OutKept DEF EndOfRecords, source, caches, reading, visiting, reply
  <2>2. OpenTime' = OpenTime /\ OpenTime' = NoTime /\ Reading /\ Reading'
    BY <1>1, <1>4, <2>1 DEF OpenTime, Reading
  <2>3. CountInv'
    BY <1>2, <2>1, <2>2, SavedKept
  <2>4. AccCounts'
    BY <1>1, <2>1 DEF ExactInv, AccCounts
  <2> QED BY <2>1, <2>2, <2>3, <2>4, StillExact DEF Exact
<1> QED BY <1>3, <1>4

LEMMA ComputeExact ==
    ASSUME ExactInv, Compute
    PROVE  Exact'
<1>1. /\ phase = "complete"
      /\ UNCHANGED <<hist, kind, call, replay, checkpoint, phase, cursor, pendingTime, kept, saved,
                     emitted, todo, prevTick, prevEvents, acc, out, result>>
  BY OutKept DEF Compute, source, caches, visiting, reply
<1>2. OpenTime' = OpenTime /\ Reading /\ Reading' /\ OpenTime = pendingTime
  BY <1>1 DEF OpenTime, Reading
<1>3. \A s \in Slot : slots'[s].events = slots[s].events
  <2>1. PICK s \in Slot : \E v : slots' \in {slots, [slots EXCEPT ![s].pending = v]}
    BY DEF Compute, ExactInv, AnswerInv, Inv, EngineInv, TypeOK, ComputedSlots
  <2>2. slots \in [Slot -> SlotData]
    BY DEF ExactInv, AnswerInv, Inv, EngineInv, TypeOK
  <2> QED BY <2>1, <2>2 DEF SlotData
<1>4. CountInv'
  <2>1. OpenTime' # NoTime => Counted(hist, slots', pendingTime', cursor')
    BY <1>1, <1>2, <1>3 DEF ExactInv, CountInv, Counted, EventSlots
  <2>2. saved # None => SavedCounts(saved)
    BY SavedCount
  <2>3. saved' # None => SavedCounts(saved')
    BY <1>1, <2>2
  <2> QED BY <1>1, <2>1, <2>3, SavedKept
<1>5. AccCounts'
  BY <1>1 DEF ExactInv, AccCounts
<1> QED BY <1>1, <1>2, <1>4, <1>5, StillExact DEF Exact

\* Before a record of a new tick is applied nothing of its tick is counted.
LEMMA ArrivingCount ==
    ASSUME ExactInv, Arriving
    PROVE  Counted(hist, slots, recs[cursor].time, cursor)
<1>0. /\ Len(recs) \in Nat /\ \A j \in 1..Len(recs) : recs[j].time \in Time
      /\ hist \in Histories /\ cursor \in 1..Len(recs)
  BY SourceFacts, ArrivingFacts DEF ExactInv, AnswerInv, Inv, recs
<1>1. CASE phase = "read" /\ pendingTime # NoTime
  <2>1. pendingTime = recs[cursor].time
    BY <1>1 DEF Arriving
  <2> QED BY <1>1, <2>1 DEF ExactInv, CountInv, OpenTime
<1>2. CASE ~(phase = "read" /\ pendingTime # NoTime)
  <2>1. PICK t \in Time \cup {NoTime} : Settled(t)
    <3>1. CASE phase = "read"
      BY <1>2, <3>1 DEF ExactInv, AnswerInv, Inv, EngineInv, ReadInv, Rested
    <3>2. CASE phase = "deliver"
      BY <3>2 DEF ExactInv, AnswerInv, Inv, EngineInv, ReadInv, TypeOK
    <3> QED BY <3>1, <3>2 DEF Arriving
  <2>2. recs[cursor].time > t
    BY <1>0, <2>1, PlanFacts DEF Settled, Time, NoTime
  <2>3. \A i \in 1..(cursor - 1) : recs[i].time # recs[cursor].time
    BY <1>0, <2>1, <2>2, PlanFacts DEF Settled, Time, NoTime
  <2>4. ASSUME NEW s \in EventSlots PROVE slots[s].events = Sums(hist, s, recs[cursor].time)[cursor - 1]
    <3>1. s \in Slot /\ slots[s].events = 0
      BY <2>1 DEF Settled, EventSlots
    <3>2. /\ 0 \in 0..Len(recs) /\ cursor - 1 \in 0..Len(recs) /\ 0 <= cursor - 1
          /\ \A i \in (0 + 1)..(cursor - 1) : recs[i].time # recs[cursor].time
      BY <1>0, <2>3
    <3>3. Sums(hist, s, recs[cursor].time)[0] = Sums(hist, s, recs[cursor].time)[cursor - 1]
      BY <1>0, <3>1, <3>2, SumsKept DEF recs
    <3>4. Sums(hist, s, recs[cursor].time)[0] = 0
      BY <1>0, <3>1, SumsFacts
    <3> QED BY <3>1, <3>3, <3>4
  <2> QED BY <2>4 DEF Counted
<1> QED BY <1>1, <1>2

LEMMA DeliverCount ==
    ASSUME ExactInv, Deliver
    PROVE  Counted(hist, slots', pendingTime', cursor')
<1> DEFINE r == recs[cursor]
<1>0. /\ Len(recs) \in Nat /\ hist \in Histories /\ cursor \in 1..Len(recs)
      /\ slots \in [Slot -> SlotData]
  BY SourceFacts, ArrivingFacts DEF Deliver, ExactInv, AnswerInv, Inv, EngineInv, TypeOK, recs
<1>1. Counted(hist, slots, r.time, cursor)
  BY ArrivingCount DEF Deliver
<1>2. pendingTime' = r.time /\ cursor' = cursor + 1
  BY DEF Deliver
<1>3. ASSUME NEW s \in EventSlots PROVE slots'[s].events = Sums(hist, s, r.time)[cursor]
  <2>1. s \in Slot /\ slots[s] \in SlotData /\ slots[s].events \in Nat
    BY <1>0, SlotTyped DEF EventSlots
  <2>2. slots[s].events = Sums(hist, s, r.time)[cursor - 1]
    BY <1>1 DEF Counted
  <2>3. Sums(hist, s, r.time)[cursor] = Sums(hist, s, r.time)[cursor - 1] + Adds(hist, s, r.time, cursor)
    BY <1>0, <2>1, SumsFacts DEF recs
  <2>4. slots'[s].events = slots[s].events + Adds(hist, s, r.time, cursor)
    <3>1. CASE SlotBase[s] = r.base
      <4>1. slots'[s] = [slots[s] EXCEPT !.events = @ + r.count]
        BY <2>1, <3>1 DEF Deliver
      <4>2. Adds(hist, s, r.time, cursor) = r.count
        BY <3>1 DEF Adds, recs
      <4> QED BY <2>1, <4>1, <4>2 DEF SlotData
    <3>2. CASE SlotBase[s] # r.base
      <4>1. slots'[s] = slots[s]
        BY <2>1, <3>2 DEF Deliver
      <4>2. Adds(hist, s, r.time, cursor) = 0
        BY <3>2 DEF Adds, recs
      <4> QED BY <2>1, <4>1, <4>2
    <3> QED BY <3>1, <3>2
  <2> QED BY <2>2, <2>3, <2>4
<1>4. (cursor + 1) - 1 = cursor
  BY <1>0
<1> QED BY <1>2, <1>3, <1>4 DEF Counted

\* A record that arrives completes nothing and leaves nothing behind it.
LEMMA DeliverMoves ==
    ASSUME ExactInv, Deliver
    PROVE  /\ \A t \in Time : Done(t)' => Done(t)
           /\ \A t \in Int : Behind(t) => Behind(t)'
<1>0. /\ Len(recs) \in Nat /\ hist \in Histories /\ cursor \in 1..Len(recs)
      /\ \A j \in 1..Len(recs) : recs[j].time \in Time
  BY SourceFacts, ArrivingFacts DEF Deliver, ExactInv, AnswerInv, Inv, EngineInv, TypeOK, recs
<1>1. /\ cursor' = cursor + 1 /\ hist' = hist /\ OpenTime' = recs[cursor].time
      /\ OpenTime = NoTime \/ OpenTime = recs[cursor].time
  BY DEF Deliver, Arriving, OpenTime, source
<1>2. ASSUME NEW t \in Time, Done(t)' PROVE Done(t)
  <2>1. PICK i \in 1..Len(recs) : i < cursor + 1 /\ recs[i].time = t /\ t # recs[cursor].time
    BY <1>1, <1>2 DEF Done, recs
  <2>2. i < cursor
    BY <1>0, <2>1
  <2>3. t # OpenTime
    BY <1>1, <2>1, ZeroTick
  <2> QED BY <2>1, <2>2, <2>3 DEF Done
<1>3. ASSUME NEW t \in Int, Behind(t) PROVE Behind(t)'
  <2>1. t < recs[cursor].time
    BY <1>0, <1>3 DEF Behind
  <2>2. \A i \in 1..Len(recs) : i >= cursor + 1 => t < recs[i].time
    BY <1>0, <1>3 DEF Behind
  <2> QED BY <1>1, <2>1, <2>2 DEF Behind, recs
<1> QED BY <1>2, <1>3

LEMMA DeliverExact ==
    ASSUME ExactInv, Deliver
    PROVE  Exact'
<1>1. /\ Arriving /\ Considers /\ phase' = "read"
      /\ UNCHANGED <<hist, kind, call, replay, checkpoint, saved, emitted, todo, prevTick, prevEvents,
                     acc, out, result>>
  BY OutKept DEF Deliver, source, caches, ticking, visiting, reply
<1>2. /\ phase \in {"read", "deliver"} /\ Reading /\ Reading'
      /\ OpenTime' = pendingTime'
      /\ prevTick \in Int /\ call \in CallType
  BY <1>1, PlanFacts
     DEF Arriving, Reading, OpenTime, ExactInv, AnswerInv, Inv, EngineInv, TypeOK, CallType, Time, NoTime
<1>3. RunInv'
  BY <1>1, <1>2 DEF ExactInv, RunInv, Reading
<1>4. CountInv'
  <2>1. kept' = kept \/ kept' = None \/ kept'.time = NoTime
    BY <1>1 DEF Considers
  <2>2. \A r \in {replay', checkpoint', kept', saved'} \ {None} :
           r.time # NoTime => Counted(hist', r.slots, r.time, r.pos)
    BY <1>1, <2>1 DEF ExactInv, CountInv
  <2>3. Counted(hist', slots', pendingTime', cursor')
    BY <1>1, DeliverCount
  <2> QED BY <1>1, <2>2, <2>3 DEF ExactInv, CountInv
<1>5. AccCounts'
  BY <1>1, <1>2 DEF ExactInv, AccCounts
<1>6. PrevInv'
  <2> SUFFICES ASSUME call.op = "query" PROVE PrevInv'
    BY <1>1 DEF PrevInv
  <2>1. Behind(prevTick)'
    <3>1. Behind(prevTick)
      BY <1>2 DEF ExactInv, PrevInv
    <3>2. PICK p \in Int : p = prevTick
      BY <1>2
    <3>3. Behind(p)'
      BY <3>1, <3>2, DeliverMoves
    <3> QED BY <1>1, <3>2, <3>3 DEF Behind
  <2>2. \A t \in Time : t >= call.from /\ Done(t)' => t <= prevTick
    BY <1>2, DeliverMoves DEF ExactInv, PrevInv
  <2> QED BY <1>1, <1>2, <2>1, <2>2 DEF ExactInv, PrevInv
<1>7. DoneInv'
  <2>1. /\ \A w, t, s : Has(w, t, s)' <=> Has(w, t, s)
        /\ \A s, t : Active(s, t)' <=> Active(s, t)
    BY <1>1 DEF Has, Active
  <2>2. \A t \in call.first..call.last : Done(t)' => Done(t)
    <3>1. call.first..call.last \subseteq Time
      BY <1>2, PlanFacts DEF CallType, Time
    <3> QED BY <3>1, DeliverMoves
  <2>3. call.op = "scan" => ScanDone'
    <3>1. call.op = "scan" => ScanDone
      BY <1>2 DEF ExactInv, DoneInv
    <3> QED BY <1>1, <2>1, <2>2, <3>1 DEF ScanDone, Has
  <2>4. call.op = "query" => QueryDone'
    <3>1. call.op = "query" => QueryDone
      BY <1>2 DEF ExactInv, DoneInv
    <3> QED BY <1>1, <2>1, <2>2, <3>1 DEF QueryDone
  <2>5. call.op = "samples_at" => BatchDone'
    <3>1. call.op = "samples_at" => BatchDone
      BY <1>2 DEF ExactInv, DoneInv
    <3> QED BY <1>1, <2>1, <3>1 DEF BatchDone
  <2> QED BY <1>1, <2>3, <2>4, <2>5 DEF DoneInv
<1>8. OutShape' /\ OutPlace'
  <2>1. call.op \in {"scan", "query"} => \A o \in out : o.time \in Int /\ Behind(o.time)'
    <3> SUFFICES ASSUME call.op \in {"scan", "query"}, NEW o \in out
                 PROVE  o.time \in Int /\ Behind(o.time)'
      OBVIOUS
    <3>1. o.time \in Int /\ Behind(o.time)
      BY <1>2 DEF ExactInv, OutShape, OutPlace
    <3> QED BY <3>1, DeliverMoves
  <2> QED BY <1>1, <1>2, <2>1 DEF ExactInv, OutShape, OutPlace
<1>9. EventsSound'
  BY <1>1, CountsKept DEF ExactInv
<1>10. result' # "ok"
  BY <1>1, <1>2 DEF ExactInv, RunInv
<1> QED BY <1>3, <1>4, <1>5, <1>6, <1>7, <1>8, <1>9, <1>10, NotSuccessful DEF Exact

-----------------------------------------------------------------------------
(* Completing a tick. *)

\* The counts of a tick that completes are its occurrences.
LEMMA ClosingCount ==
    ASSUME ExactInv, phase = "complete", work = {}, NEW s \in Slot
    PROVE  slots[s].events = Occurrences(hist, s, pendingTime)
<1>0. /\ Len(recs) \in Nat /\ \A j \in 1..Len(recs) : recs[j].time \in Time
      /\ hist \in Histories /\ cursor \in 1..(Len(recs) + 1) /\ pendingTime \in Time
      /\ \A i \in 1..Len(recs) : i < cursor <=> recs[i].time <= pendingTime
  BY SourceFacts, ClosingFacts DEF ExactInv, AnswerInv, Inv, EngineInv, ReadInv, recs
<1>1. CASE s \notin EventSlots
  <2>1. slots[s].events = 0
    BY <1>1 DEF ExactInv, AnswerInv, SnapshotsInv, CountsOnly
  <2> QED BY <1>0, <1>1, <2>1, OccurrencesType
<1>2. CASE s \in EventSlots
  <2>1. OpenTime # NoTime
    BY <1>0, ZeroTick DEF OpenTime
  <2>2. slots[s].events = Sums(hist, s, pendingTime)[cursor - 1]
    BY <1>2, <2>1 DEF ExactInv, CountInv, Counted
  <2>3. \A i \in ((cursor - 1) + 1)..Len(recs) : recs[i].time # pendingTime
    BY <1>0, PlanFacts DEF Time
  <2>4. /\ cursor - 1 \in 0..Len(recs) /\ Len(recs) \in 0..Len(recs) /\ cursor - 1 <= Len(recs)
    BY <1>0
  <2>5. Sums(hist, s, pendingTime)[cursor - 1] = Sums(hist, s, pendingTime)[Len(recs)]
    BY <1>0, <2>3, <2>4, SumsKept DEF recs
  <2>6. Occurrences(hist, s, pendingTime) = Sums(hist, s, pendingTime)[Len(recs)]
    BY <1>0, SumsFacts DEF recs
  <2> QED BY <2>2, <2>5, <2>6
<1> QED BY <1>1, <1>2

\* An active slot of the tick was written or has occurrences.
LEMMA ActiveIsTouched ==
    ASSUME ExactInv, phase = "complete", work = {}, NEW s \in Slot, Active(s, pendingTime)
    PROVE  /\ Changed(slots[s]) \/ slots[s].events > 0
           /\ slots[s].pending # Missing \/ slots[s].events > 0
<1>1. /\ hist \in Histories /\ pendingTime \in Time
      /\ EnteringOK(hist, s, pendingTime, slots[s].state)
      /\ Current(slots[s]) = hist.obs[s][pendingTime]
  BY ClosingFacts DEF ExactInv, AnswerInv
<1>2. CASE Occurrences(hist, s, pendingTime) > 0
  BY <1>2, ClosingCount
<1>3. CASE NetChange(hist, s, pendingTime)
  <2>1. /\ pendingTime = 0 => slots[s].state.value = Missing
        /\ pendingTime # 0 => slots[s].state.value = hist.obs[s][pendingTime - 1]
    BY <1>1, EnteringValue
  <2>2. /\ hist.obs[s][pendingTime] # Missing
        /\ pendingTime # 0 => hist.obs[s][pendingTime - 1] # hist.obs[s][pendingTime]
    BY <1>1, <1>3, PlanFacts DEF NetChange, Time
  <2>3. Current(slots[s]) # slots[s].state.value
    BY <1>1, <2>1, <2>2
  <2> QED BY <2>3 DEF Current, Changed
<1> QED BY <1>2, <1>3 DEF Active

LEMMA SampleCount ==
    ASSUME NEW s, NEW d, NEW t
    PROVE  SampleOf(s, d, t).events =
              IF s \in EventSlots /\ t # NoTime THEN d.events ELSE 0
BY DEF SampleOf

\* The count of a sample taken at a completed or a quiet tick.
LEMMA SampleCounted ==
    ASSUME NEW t, NEW s, NEW c, c.events = Occurrences(hist, s, t)
    PROVE  CountTold(Observation("sample", t, s, c))
BY DEF CountTold, Observation

LEMMA ChangesCounted ==
    ASSUME ExactInv, phase = "complete", work = {}
    PROVE  \A o \in Changes(pendingTime) : CountTold(o)
<1> DEFINE t == pendingTime
<1> SUFFICES ASSUME NEW s \in Selected, Changed(slots[s]) \/ slots[s].events > 0
             PROVE  CountTold(Observation("change", t, s, SampleOf(s, slots[s], t)))
  BY DEF Changes
<1>1. s \in Slot /\ t \in Time /\ t # NoTime /\ hist \in Histories
  BY ClosingFacts, PlanFacts, ZeroTick DEF ExactInv, AnswerInv
<1>2. slots[s].events = Occurrences(hist, s, t)
  BY <1>1, ClosingCount
<1>3. SampleOf(s, slots[s], t).events = Occurrences(hist, s, t)
  BY <1>1, <1>2, SampleCount, OccurrencesType
<1>4. s \in EventSlots => slots[s].events > 0
  <2>1. s \in EventSlots => slots[s].pending = Missing
    BY DEF ExactInv, AnswerInv, Inv, EngineInv, ReadInv, TickClosing, TickOpen
  <2> QED BY <2>1 DEF Changed
<1> HIDE DEF t
<1> QED BY <1>2, <1>3, <1>4 DEF CountTold, Observation

LEMMA TickSamplesCounted ==
    ASSUME ExactInv, phase = "complete", work = {}
    PROVE  \A o \in SamplesOf(pendingTime, pendingTime) : CountTold(o)
<1> DEFINE t == pendingTime
<1> SUFFICES ASSUME NEW s \in Selected
             PROVE  CountTold(Observation("sample", t, s, SampleOf(s, slots[s], t)))
  BY DEF SamplesOf
<1>1. s \in Slot /\ t \in Time /\ t # NoTime /\ hist \in Histories
  BY ClosingFacts, PlanFacts, ZeroTick DEF ExactInv, AnswerInv
<1>2. slots[s].events = Occurrences(hist, s, t)
  BY <1>1, ClosingCount
<1>3. SampleOf(s, slots[s], t).events = Occurrences(hist, s, t)
  BY <1>1, <1>2, SampleCount, OccurrencesType
<1> HIDE DEF t
<1> QED BY <1>3, SampleCounted

LEMMA QuietSamplesCounted ==
    ASSUME hist \in Histories, NEW t, \A i \in 1..Len(recs) : recs[i].time # t
    PROVE  \A o \in SamplesOf(t, NoTime) : CountTold(o)
<1> SUFFICES ASSUME NEW s \in Selected
             PROVE  CountTold(Observation("sample", t, s, SampleOf(s, slots[s], NoTime)))
  BY DEF SamplesOf
<1>1. Occurrences(hist, s, t) = 0
  BY NoOccurrence, PlanFacts DEF recs
<1>2. SampleOf(s, slots[s], NoTime).events = Occurrences(hist, s, t)
  BY <1>1, SampleCount
<1> QED BY <1>2, SampleCounted

LEMMA BatchCounted ==
    ASSUME ExactInv, phase = "complete", work = {}, call.op = "samples_at",
           NEW t \in todo, t <= pendingTime
    PROVE  \A o \in SamplesOf(t, IF t = pendingTime THEN t ELSE NoTime) : CountTold(o)
<1>0. /\ t \in Time /\ pendingTime \in Time /\ hist \in Histories
      /\ \A j \in 1..Len(recs) : recs[j].time \in Time
      /\ \A i \in 1..Len(recs) : i < cursor <=> recs[i].time <= pendingTime
  BY SourceFacts, ClosingFacts DEF ExactInv, AnswerInv, Inv, EngineInv, TypeOK, recs
<1>1. CASE t = pendingTime
  BY <1>1, TickSamplesCounted
<1>2. CASE t # pendingTime
  <2>1. Ahead(t)
    BY DEF ExactInv, AnswerInv, DueInv
  <2>2. ASSUME NEW i \in 1..Len(recs), recs[i].time = t PROVE FALSE
    <3>1. i < cursor /\ recs[i].time >= t
      BY <1>0, <2>2, PlanFacts DEF Time
    <3> QED BY <1>2, <2>1, <2>2, <3>1 DEF Ahead, OpenTime
  <2> QED BY <1>0, <1>2, <2>2, QuietSamplesCounted
<1> QED BY <1>1, <1>2

\* QueryContext: the counts of the tick before are remembered or there are none.
LEMMA BeforeCounted ==
    ASSUME ExactInv, phase = "complete", work = {}, call.op = "query",
           pendingTime >= call.first, pendingTime > 0
    PROVE  \A o \in SamplesBefore(pendingTime) : CountTold(o)
<1> DEFINE t == pendingTime
<1>0. /\ t \in Time /\ t - 1 \in Time /\ hist \in Histories /\ call.first \in Time
      /\ call.from = call.first - 1 /\ prevTick \in Time \cup {NoTime}
      /\ \A j \in 1..Len(recs) : recs[j].time \in Time
      /\ \A i \in 1..Len(recs) : i < cursor <=> recs[i].time <= t
  <2>1. t \in Time /\ hist \in Histories /\ \A i \in 1..Len(recs) : i < cursor <=> recs[i].time <= t
    BY ClosingFacts DEF ExactInv, AnswerInv
  <2>2. t - 1 \in Time
    BY <2>1, PlanFacts DEF Time
  <2>3. /\ call.first \in Time /\ prevTick \in Time \cup {NoTime} /\ call.from = call.first - 1
    BY DEF ExactInv, AnswerInv, Inv, EngineInv, TypeOK, RunInv
  <2>4. \A j \in 1..Len(recs) : recs[j].time \in Time
    BY <2>1, SourceFacts DEF recs
  <2> QED BY <2>1, <2>2, <2>3, <2>4
<1>1. /\ \A s \in Slot : prevTick # NoTime => prevEvents[s] = Occurrences(hist, s, prevTick)
      /\ \A u \in Time : u >= call.from /\ Done(u) => u <= prevTick
      /\ OpenTime = t /\ prevTick < t
  <2>1. OpenTime = t /\ t # NoTime /\ Reading
    BY <1>0, ZeroTick DEF OpenTime, Reading
  <2> QED BY <2>1 DEF ExactInv, PrevInv, Behind
<1>2. ASSUME prevTick # t - 1, NEW i \in 1..Len(recs), recs[i].time = t - 1 PROVE FALSE
  <2>1. i < cursor /\ t - 1 # t /\ t - 1 >= call.from
    BY <1>0, <1>2, PlanFacts DEF Time
  <2>2. Done(t - 1)
    BY <1>1, <1>2, <2>1 DEF Done
  <2>3. t - 1 <= prevTick
    BY <1>0, <1>1, <2>1, <2>2
  <2> QED BY <1>0, <1>1, <1>2, <2>3, PlanFacts DEF Time, NoTime
<1> DEFINE n(s) == IF prevTick = t - 1 THEN prevEvents[s] ELSE 0
<1>3. ASSUME NEW s \in Selected PROVE n(s) = Occurrences(hist, s, t - 1)
  <2>1. s \in Slot
    BY PlanFacts
  <2>2. CASE prevTick = t - 1
    BY <1>0, <1>1, <2>1, <2>2, ZeroTick
  <2>3. CASE prevTick # t - 1
    BY <1>0, <1>2, <2>1, <2>3, NoOccurrence DEF recs
  <2> QED BY <2>2, <2>3
<1>4. ASSUME NEW s \in Selected
      PROVE  CountTold(Observation("sample", t - 1, s,
                [state |-> SampleOf(s, slots[s], NoTime).state, events |-> n(s)]))
  <2> DEFINE c == [state |-> SampleOf(s, slots[s], NoTime).state, events |-> n(s)]
  <2>1. c.events = Occurrences(hist, s, t - 1)
    BY <1>3
  <2> HIDE DEF c, t
  <2>2. CountTold(Observation("sample", t - 1, s, c))
    BY <2>1, SampleCounted
  <2> QED BY <2>2 DEF c, t
<1> QED BY <1>4 DEF SamplesBefore

LEMMA DeliveryCounted ==
    ASSUME ExactInv, phase = "complete", work = {}
    PROVE  \A o \in Delivery : CountTold(o)
<1>1. CASE call.op = "scan"
  <2>1. \A o \in Entering : o.what = "initial"
    BY DEF Entering, Initials, Observation
  <2>2. \A o \in Entering : CountTold(o)
    BY <2>1 DEF CountTold
  <2> QED BY <1>1, <2>2, ChangesCounted DEF Delivery
<1>2. CASE call.op = "samples_at"
  BY <1>2, BatchCounted DEF Delivery
<1>3. CASE call.op = "query"
  <2>1. IsCandidate /\ pendingTime > 0 => \A o \in SamplesBefore(pendingTime) : CountTold(o)
    BY <1>3, BeforeCounted DEF IsCandidate
  <2> QED BY <1>3, <2>1, TickSamplesCounted DEF Delivery
<1>4. CASE call.op \notin {"scan", "samples_at", "query"}
  BY <1>4 DEF Delivery
<1> QED BY <1>1, <1>2, <1>3, <1>4

\* What the visitors of scan and query deliver for a tick.
ChangeOf(s, t) == Observation("change", t, s, SampleOf(s, slots[s], t))

LEMMA DeliveryShape ==
    ASSUME ExactInv, phase = "complete", work = {}
    PROVE  /\ call.op = "scan" => \A o \in Delivery :
                \/ o.what = "initial" /\ o.time = call.first /\ ~emitted
                \/ /\ o.what = "change" /\ o.time = pendingTime
                   /\ o = ChangeOf(o.slot, pendingTime)
           /\ call.op = "query" => \A o \in Delivery :
                o.what = "sample" /\ o.time \in {pendingTime, pendingTime - 1}
<1>1. ASSUME NEW o \in Entering PROVE o.what = "initial" /\ o.time = call.first /\ ~emitted
  <2>1. ~emitted
    BY Zenon DEF Entering
  <2>2. o \in Initials(slots)
    BY <2>1 DEF Entering
  <2>3. o.what = "initial" /\ o.time = call.first
    BY <2>2 DEF Initials, Observation
  <2> QED BY <2>1, <2>3
<1>2. ASSUME NEW o \in Changes(pendingTime)
      PROVE  o.what = "change" /\ o.time = pendingTime /\ o = ChangeOf(o.slot, pendingTime)
  <2>1. PICK s \in Selected : o = Observation("change", pendingTime, s, SampleOf(s, slots[s], pendingTime))
    BY DEF Changes
  <2>2. o.what = "change" /\ o.time = pendingTime /\ o.slot = s
    BY <2>1 DEF Observation
  <2> QED BY <2>1, <2>2 DEF ChangeOf
<1>3. ASSUME call.op = "scan", NEW o \in Delivery
      PROVE  \/ o.what = "initial" /\ o.time = call.first /\ ~emitted
             \/ o.what = "change" /\ o.time = pendingTime /\ o = ChangeOf(o.slot, pendingTime)
  <2>1. o \in Entering \/ o \in Changes(pendingTime)
    BY <1>3 DEF Delivery
  <2> QED BY <1>1, <1>2, <2>1
<1>4. \A o \in SamplesOf(pendingTime, pendingTime) : o.what = "sample" /\ o.time = pendingTime
  BY DEF SamplesOf, Observation
<1>5. \A o \in SamplesBefore(pendingTime) : o.what = "sample" /\ o.time = pendingTime - 1
  BY DEF SamplesBefore, Observation
<1>6. ASSUME call.op = "query", NEW o \in Delivery
      PROVE  o.what = "sample" /\ o.time \in {pendingTime, pendingTime - 1}
  <2>1. o \in SamplesOf(pendingTime, pendingTime) \/ o \in SamplesBefore(pendingTime)
    BY <1>6 DEF Delivery
  <2> QED BY <1>4, <1>5, <2>1
<1> QED BY <1>3, <1>6

\* The rows that a batch hands over are requested ticks up to this one.
LEMMA BatchShape ==
    ASSUME call.op = "samples_at"
    PROVE  \A o \in Delivery : o.time \in todo /\ o.time <= pendingTime /\ o.what = "sample"
<1> SUFFICES ASSUME NEW o \in Delivery
             PROVE  o.time \in todo /\ o.time <= pendingTime /\ o.what = "sample"
  OBVIOUS
<1>1. PICK t \in todo : t <= pendingTime /\ o \in SamplesOf(t, IF t = pendingTime THEN t ELSE NoTime)
  BY DEF Delivery
<1>2. o.time = t /\ o.what = "sample"
  BY <1>1 DEF SamplesOf, Observation
<1> QED BY <1>1, <1>2

LEMMA Typed == ExactInv => received \in Seq(Parcel)
BY ReceivedTyped DEF ExactInv

\* What a completed tick adds for the caller.
LEMMA FinishOut ==
    ASSUME ExactInv, FinishTick
    PROVE  out' = IF Visited THEN out \cup Delivery ELSE out
<1>1. CASE Visited
  <2>1. Hand(Delivery)
    BY <1>1 DEF FinishTick
  <2> QED BY <1>1, <2>1, Typed, OutGrows
<1>2. CASE ~Visited
  BY <1>2, OutKept DEF FinishTick
<1> QED BY <1>1, <1>2

LEMMA ShapeGrows ==
    ASSUME ExactInv, phase = "complete", work = {}, Visited, call' = call, out' = out \cup Delivery
    PROVE  OutShape'
<1>0. /\ pendingTime \in Time /\ pendingTime <= call.last /\ call \in CallType
      /\ OpenTime = pendingTime /\ OpenTime # NoTime /\ Reading
  BY ClosingFacts, ZeroTick
     DEF OpenTime, Reading, ExactInv, AnswerInv, Inv, EngineInv, TypeOK, CallType
<1>1. ASSUME call.op = "scan", NEW o \in out'
      PROVE  \/ o.what = "initial" /\ o.time = call.first
             \/ o.what = "change" /\ o.time \in call.first..call.last
  <2>1. CASE o \in out
    BY <1>1, <2>1 DEF ExactInv, OutShape
  <2>2. CASE o \in Delivery
    <3>1. call.first \in Time /\ call.last \in Time /\ pendingTime >= call.first
      BY <1>0, <1>1, ZeroTick DEF Visited, ExactInv, AnswerInv, CallShape, CallType
    <3>2. pendingTime \in call.first..call.last
      BY <1>0, <3>1, PlanFacts DEF Time
    <3> QED BY <1>1, <2>2, <3>2, DeliveryShape
  <2> QED BY <2>1, <2>2
<1>2. ASSUME call.op = "scan", NEW o \in out', NEW p \in out',
             o.what = "change", p.what = "change", o.slot = p.slot, o.time = p.time
      PROVE  o = p
  <2>1. ASSUME NEW x \in out, x.what = "change" PROVE x.time # pendingTime
    <3>1. x.time \in Int /\ Behind(x.time)
      BY <1>0, <1>2, <2>1 DEF ExactInv, OutPlace
    <3>2. x.time < pendingTime
      BY <1>0, <3>1 DEF Behind
    <3> QED BY <1>0, <3>1, <3>2, PlanFacts DEF Time
  <2>2. ASSUME NEW x \in Delivery, x.what = "change"
        PROVE  x.time = pendingTime /\ x = ChangeOf(x.slot, pendingTime)
    BY <1>2, <2>2, DeliveryShape
  <2>3. CASE o \in out /\ p \in out
    BY <1>2, <2>3 DEF ExactInv, OutShape
  <2>4. CASE o \in Delivery /\ p \in Delivery
    <3>1. o = ChangeOf(o.slot, pendingTime) /\ p = ChangeOf(p.slot, pendingTime)
      BY <1>2, <2>2, <2>4
    <3> QED BY <1>2, <3>1
  <2> QED BY <1>2, <2>1, <2>2, <2>3, <2>4
<1>3. ASSUME call.op = "query", NEW o \in out' PROVE o.what = "sample"
  BY <1>3, DeliveryShape DEF ExactInv, OutShape
<1> QED BY <1>1, <1>2, <1>3 DEF OutShape

\* A tick that completes falls behind the traversal.
LEMMA FinishMoves ==
    ASSUME ExactInv, FinishTick
    PROVE  /\ OpenTime' = NoTime /\ Reading' /\ Reading
           /\ OpenTime = pendingTime /\ pendingTime \in Time /\ pendingTime # NoTime
           /\ \A t \in Time : Done(t)' => Done(t) \/ t = pendingTime
           /\ \A t \in Time : Done(t)' => t <= pendingTime
           /\ \A t \in Int : t <= pendingTime => Behind(t)'
<1>1. /\ phase = "complete" /\ work = {} /\ cursor' = cursor /\ hist' = hist
      /\ phase' \in {"deliver", "read", "store"}
      /\ phase' = "read" => pendingTime' = NoTime
  BY DEF FinishTick, OpenTick, source, ExactInv, AnswerInv, Inv, EngineInv, TypeOK, ReadInv
<1>2. OpenTime' = NoTime /\ Reading' /\ Reading /\ OpenTime = pendingTime
  BY <1>1 DEF OpenTime, Reading
<1>3. /\ pendingTime \in Time /\ hist \in Histories
      /\ \A i \in 1..Len(recs) : i < cursor <=> recs[i].time <= pendingTime
      /\ cursor \in Nat /\ Len(recs) \in Nat /\ \A j \in 1..Len(recs) : recs[j].time \in Time
  BY <1>1, ClosingFacts, SourceFacts DEF ExactInv, AnswerInv, Inv, EngineInv, TypeOK, recs
<1>4. ASSUME NEW t \in Time, Done(t)' PROVE (Done(t) \/ t = pendingTime) /\ t <= pendingTime
  <2>1. PICK i \in 1..Len(recs) : i < cursor /\ recs[i].time = t
    BY <1>1, <1>4 DEF Done, recs
  <2> QED BY <1>2, <1>3, <2>1 DEF Done
<1>5. ASSUME NEW t \in Int, t <= pendingTime PROVE Behind(t)'
  <2>1. ASSUME NEW i \in 1..Len(recs), i >= cursor PROVE t < recs[i].time
    BY <1>3, <1>5, <2>1, PlanFacts DEF Time
  <2> QED BY <1>1, <1>2, <2>1 DEF Behind, recs
<1> QED BY <1>2, <1>3, <1>4, <1>5, ZeroTick

LEMMA FinishPlace ==
    ASSUME ExactInv, FinishTick
    PROVE  OutPlace'
<1>0. /\ phase = "complete" /\ work = {} /\ call' = call
      /\ out' = IF Visited THEN out \cup Delivery ELSE out
  BY FinishOut DEF FinishTick
<1>1. /\ Reading /\ OpenTime = pendingTime /\ pendingTime \in Time /\ pendingTime # NoTime
      /\ \A t \in Int : t <= pendingTime => Behind(t)'
  BY FinishMoves
<1>2. ~emitted' => ~emitted /\ ~(Visited /\ pendingTime >= call.first)
  BY Zenon DEF FinishTick
<1>3. ASSUME call.op = "scan", ~emitted' PROVE out' = {}
  <2>1. call.from = call.first /\ out = {} /\ call.first \in Time
    BY <1>1, <1>2, <1>3 DEF ExactInv, OutPlace, AnswerInv, CallShape, Inv, EngineInv, TypeOK
  <2>2. ~Visited
    BY <1>2, <1>3, <2>1, ZeroTick DEF Visited
  <2> QED BY <1>0, <2>1, <2>2
<1>4. ASSUME call.op \in {"scan", "query"}, NEW o \in out'
      PROVE  o.time \in Int /\ Behind(o.time)'
  <2>1. CASE o \in out
    <3>1. o.time \in Int /\ Behind(o.time)
      BY <1>1, <1>4, <2>1 DEF ExactInv, OutPlace
    <3>2. o.time <= pendingTime
      BY <1>1, <3>1, PlanFacts DEF Behind, Time
    <3> QED BY <1>1, <3>1, <3>2
  <2>2. CASE o \in Delivery /\ Visited
    <3>1. o.time \in {pendingTime, pendingTime - 1} \/ (call.op = "scan" /\ o.time = call.first)
      BY <1>0, <1>4, <2>2, DeliveryShape
    <3>2. call.op = "scan" => call.first \in Time /\ call.first <= pendingTime
      BY <1>1, <2>2, ZeroTick
         DEF Visited, ExactInv, AnswerInv, CallShape, Inv, EngineInv, TypeOK
    <3>3. o.time \in Int /\ o.time <= pendingTime
      BY <1>1, <3>1, <3>2, PlanFacts DEF Time
    <3> QED BY <1>1, <3>3
  <2> QED BY <1>0, <1>4, <2>1, <2>2
<1>5. ASSUME call.op = "samples_at", NEW o \in out', NEW t \in todo'
      PROVE  o.time \in Int /\ o.time < t
  <2>1. t \in todo /\ t \in Time /\ t > pendingTime
    BY <1>5 DEF FinishTick, ExactInv, AnswerInv, Inv, EngineInv, TypeOK
  <2>2. CASE o \in out
    BY <1>1, <1>5, <2>1, <2>2 DEF ExactInv, OutPlace
  <2>3. CASE o \in Delivery
    <3>1. o.time \in todo /\ o.time <= pendingTime
      BY <1>5, <2>3, BatchShape
    <3>2. o.time \in Time
      BY <3>1 DEF ExactInv, AnswerInv, Inv, EngineInv, TypeOK
    <3> QED BY <1>1, <2>1, <3>1, <3>2, PlanFacts DEF Time
  <2> QED BY <1>0, <2>2, <2>3
<1>6. ASSUME call.op = "sample" PROVE out' = {}
  <2>1. Delivery = {}
    BY <1>6 DEF Delivery
  <2> QED BY <1>0, <1>1, <1>6, <2>1 DEF ExactInv, OutPlace
<1> QED BY <1>0, <1>3, <1>4, <1>5, <1>6 DEF OutPlace

LEMMA FinishPrev ==
    ASSUME ExactInv, FinishTick
    PROVE  PrevInv'
<1> SUFFICES ASSUME call.op = "query" PROVE PrevInv'
  BY DEF PrevInv, FinishTick
<1>0. /\ phase = "complete" /\ work = {} /\ UNCHANGED <<hist, call>>
      /\ call \in CallType /\ hist \in Histories /\ prevTick \in Time \cup {NoTime}
  BY DEF FinishTick, source, ExactInv, AnswerInv, Inv, EngineInv, TypeOK, CallType
<1>1. /\ Reading /\ Reading' /\ pendingTime \in Time /\ OpenTime = pendingTime /\ OpenTime # NoTime
      /\ \A t \in Time : Done(t)' => t <= pendingTime
      /\ \A t \in Int : t <= pendingTime => Behind(t)'
  BY FinishMoves
<1>2. CASE Visited
  <2>1. prevTick' = pendingTime /\ prevEvents' = [s \in Slot |-> slots[s].events]
    BY <1>2 DEF FinishTick
  <2>2. \A s \in Slot : prevEvents'[s] = Occurrences(hist', s, prevTick')
    BY <1>0, <2>1, ClosingCount
  <2>3. Behind(prevTick)'
    <3>1. PICK p \in Int : p = pendingTime
      BY <1>1, PlanFacts DEF Time
    <3>2. p <= pendingTime
      BY <3>1
    <3>3. Behind(p)'
      BY <1>1, <3>2
    <3> QED BY <2>1, <3>1, <3>3 DEF Behind
  <2> QED BY <1>0, <1>1, <2>1, <2>2, <2>3 DEF PrevInv
<1>3. CASE ~Visited
  <2>1. prevTick' = prevTick /\ prevEvents' = prevEvents
    BY <1>3 DEF FinishTick
  <2>2. call.from \in Time /\ pendingTime < call.from
    BY <1>0, <1>1, <1>3, PlanFacts DEF Visited, CallType, Time
  <2>3. \A t \in Time : t >= call.from /\ Done(t)' => FALSE
    BY <1>1, <2>2, PlanFacts DEF Time
  <2>4. Behind(prevTick)'
    <3>1. Behind(prevTick)
      BY <1>1 DEF ExactInv, PrevInv
    <3>2. PICK p \in Int : p = prevTick
      BY <1>0, PlanFacts DEF Time, NoTime
    <3>3. p <= pendingTime
      BY <1>1, <3>1, <3>2, PlanFacts DEF Behind, Time
    <3>4. Behind(p)'
      BY <1>1, <3>3
    <3> QED BY <2>1, <3>2, <3>4 DEF Behind
  <2>5. \A s \in Slot : prevTick # NoTime => prevEvents[s] = Occurrences(hist, s, prevTick)
    BY <1>1 DEF ExactInv, PrevInv
  <2> QED BY <1>0, <1>1, <2>1, <2>3, <2>4, <2>5 DEF PrevInv
<1> QED BY <1>2, <1>3

LEMMA HasGrows ==
    ASSUME out \subseteq out', NEW w, NEW t, NEW s, Has(w, t, s)
    PROVE  Has(w, t, s)'
BY DEF Has

LEMMA HasObservation ==
    ASSUME NEW w, NEW t, NEW s, NEW c, Observation(w, t, s, c) \in out'
    PROVE  Has(w, t, s)'
BY DEF Has, Observation

LEMMA EnteringComplete ==
    ASSUME NEW h \in Histories, NEW s \in Selected, call.first \in Time, call.first > 0,
           ~emitted, EnteringOK(h, s, call.first, slots[s].state),
           h.obs[s][call.first - 1] # Missing
    PROVE  Observation("initial", call.first, s, [state |-> slots[s].state, events |-> 0]) \in Entering
<1>1. slots[s].state.value # Missing
  BY EnteringValue, PlanFacts DEF Time
<1> QED BY <1>1 DEF Entering, Initials

LEMMA FinishScan ==
    ASSUME ExactInv, FinishTick, call.op = "scan"
    PROVE  ScanDone'
<1>0. /\ phase = "complete" /\ work = {} /\ UNCHANGED <<hist, call>> /\ out \subseteq out'
      /\ Visited => Delivery \subseteq out'
      /\ call \in CallType /\ hist \in Histories /\ call.from = call.first
  BY FinishOut DEF FinishTick, source, ExactInv, AnswerInv, Inv, EngineInv, TypeOK, CallType,
                    CallShape
<1>1. /\ ScanDone /\ pendingTime \in Time
      /\ \A t \in Time : Done(t)' => Done(t) \/ t = pendingTime
  BY FinishMoves DEF ExactInv, DoneInv
<1>2. ASSUME NEW s \in Selected, emitted', call.first > 0, hist.obs[s][call.first - 1] # Missing
      PROVE  Has("initial", call.first, s)'
  <2> DEFINE f == call.first
  <2>0. f' = f
    BY <1>0
  <2>1. CASE emitted
    <3>1. Has("initial", f, s)
      BY <1>1, <1>2, <2>1 DEF ScanDone
    <3> QED BY <1>0, <3>1 DEF Has
  <2>2. CASE ~emitted
    <3>1. Visited /\ pendingTime >= call.first
      BY <1>2, <2>2, Zenon DEF FinishTick
    <3>2. EnteringOK(hist, s, call.first, slots[s].state)
      <4>1. Ahead(call.first) /\ s \in Slot
        BY <1>0, <2>2, PlanFacts DEF ExactInv, AnswerInv, DueInv
      <4>2. /\ call.first \in Time /\ call.first - 1 \in Time \cup {NoTime}
            /\ call.first - 1 <= call.first - 1 /\ call.first - 1 <= pendingTime - 1
        BY <1>0, <1>1, <3>1, PlanFacts DEF Time, NoTime, CallType
      <4> QED BY <1>0, <4>1, <4>2, TickMoves DEF EnteringOK, ExactInv
    <3> DEFINE c == [state |-> slots[s].state, events |-> 0]
    <3>3. Observation("initial", call.first, s, c) \in Entering
      BY <1>0, <1>2, <2>2, <3>2, EnteringComplete DEF CallType
    <3>4. Observation("initial", call.first, s, c) \in Delivery
      BY <3>3 DEF Delivery
    <3>5. Observation("initial", call.first, s, c) \in out'
      BY <1>0, <3>1, <3>4
    <3> HIDE DEF c
    <3> QED BY <1>0, <3>5 DEF Has, Observation
  <2> QED BY <2>1, <2>2
<1>3. ASSUME NEW s \in Selected, NEW t \in call.first..call.last, Done(t)', Active(s, t)
      PROVE  Has("change", t, s)'
  <2>0. t \in Time /\ t >= call.first
    BY <1>0, PlanFacts DEF CallType, Time
  <2>1. CASE Done(t)
    BY <1>0, <1>1, <1>3, <2>1, HasGrows DEF ScanDone
  <2>2. CASE t = pendingTime
    <3>1. Visited /\ Delivery \subseteq out'
      BY <1>0, <2>0, <2>2 DEF Visited
    <3>2. Changed(slots[s]) \/ slots[s].events > 0
      BY <1>0, <1>3, <2>2, ActiveIsTouched, PlanFacts
    <3>3. Observation("change", t, s, SampleOf(s, slots[s], t)) \in Changes(t)
      BY <3>2 DEF Changes
    <3>4. Observation("change", t, s, SampleOf(s, slots[s], t)) \in out'
      BY <2>2, <3>1, <3>3 DEF Delivery
    <3> QED BY <3>4, HasObservation
  <2> QED BY <1>1, <1>3, <2>0, <2>1, <2>2
<1>4. \A s \in Selected, t \in call.first..call.last : Active(s, t)' <=> Active(s, t)
  BY <1>0 DEF Active
<1> QED BY <1>0, <1>2, <1>3, <1>4 DEF ScanDone

LEMMA FinishQuery ==
    ASSUME ExactInv, FinishTick, call.op = "query"
    PROVE  QueryDone'
<1>0. /\ phase = "complete" /\ work = {} /\ UNCHANGED <<hist, call>> /\ out \subseteq out'
      /\ Visited => Delivery \subseteq out'
      /\ call \in CallType /\ hist \in Histories
  BY FinishOut DEF FinishTick, source, ExactInv, AnswerInv, Inv, EngineInv, TypeOK, CallType
<1>1. /\ QueryDone /\ pendingTime \in Time
      /\ \A t \in Time : Done(t)' => Done(t) \/ t = pendingTime
  BY FinishMoves DEF ExactInv, DoneInv
<1>2. ASSUME NEW t \in call.first..call.last, Done(t)', NEW d \in call.drivers, Active(d, t),
             NEW s \in Selected
      PROVE  Has("sample", t, s)' /\ (t > 0 => Has("sample", t - 1, s)')
  <2>0. t \in Time /\ t >= call.first
    BY <1>0, PlanFacts DEF CallType, Time
  <2>1. CASE Done(t)
    <3>1. Has("sample", t, s) /\ (t > 0 => Has("sample", t - 1, s))
      BY <1>1, <1>2, <2>1 DEF QueryDone
    <3> QED BY <1>0, <3>1, HasGrows
  <2>2. CASE t = pendingTime
    <3>1. Visited
      <4>1. call.from = call.first - 1 /\ call.first \in Time
        BY <1>0 DEF ExactInv, RunInv, CallType
      <4> QED BY <2>0, <2>2, <4>1, PlanFacts DEF Visited, Time
    <3>2. d \in Slot
      BY <1>0, <1>2, PlanFacts DEF CallType
    <3>3. slots[d].pending # Missing \/ slots[d].events > 0
      BY <1>0, <1>2, <2>2, <3>2, ActiveIsTouched
    <3>4. IsCandidate
      BY <1>2, <2>0, <2>2, <3>3 DEF IsCandidate
    <3>5. SamplesOf(t, t) \subseteq out' /\ (t > 0 => SamplesBefore(t) \subseteq out')
      BY <1>0, <2>2, <3>1, <3>4 DEF Delivery
    <3>6. Has("sample", t, s)'
      <4>1. Observation("sample", t, s, SampleOf(s, slots[s], t)) \in out'
        BY <3>5 DEF SamplesOf
      <4> QED BY <4>1, HasObservation
    <3>7. ASSUME t > 0 PROVE Has("sample", t - 1, s)'
      <4> DEFINE c == [state |-> SampleOf(s, slots[s], NoTime).state,
                       events |-> IF prevTick = t - 1 THEN prevEvents[s] ELSE 0]
      <4>1. Observation("sample", t - 1, s, c) \in SamplesBefore(t)
        BY DEF SamplesBefore
      <4>2. Observation("sample", t - 1, s, c) \in out'
        BY <3>5, <3>7, <4>1
      <4> HIDE DEF c
      <4> QED BY <4>2, HasObservation
    <3> QED BY <3>6, <3>7
  <2> QED BY <1>1, <1>2, <2>0, <2>1, <2>2
<1>3. \A d \in call.drivers, t \in call.first..call.last : Active(d, t)' <=> Active(d, t)
  BY <1>0 DEF Active
<1> QED BY <1>0, <1>2, <1>3 DEF QueryDone

LEMMA FinishBatch ==
    ASSUME ExactInv, FinishTick, call.op = "samples_at"
    PROVE  BatchDone'
<1>0. /\ phase = "complete" /\ work = {} /\ UNCHANGED <<hist, call>> /\ out \subseteq out'
      /\ Delivery \subseteq out' /\ todo' = {t \in todo : t > pendingTime}
      /\ BatchDone /\ todo \subseteq Time
  <2>1. phase = "complete" /\ Visited
    BY DEF FinishTick, Visited, ExactInv, AnswerInv, CallShape
  <2>2. BatchDone /\ todo \subseteq Time
    BY <2>1 DEF ExactInv, DoneInv, Reading, AnswerInv, Inv, EngineInv, TypeOK
  <2> QED BY <2>1, <2>2, FinishOut DEF FinishTick, source
<1>1. ASSUME NEW t \in call.times, t \notin todo', NEW s \in Selected
      PROVE  Has("sample", t, s)'
  <2>1. CASE t \notin todo
    BY <1>0, <2>1, HasGrows DEF BatchDone
  <2>2. CASE t \in todo
    <3> DEFINE tick == IF t = pendingTime THEN t ELSE NoTime
    <3>0. pendingTime \in Time /\ t \in Time
      BY <1>0, <2>2, FinishMoves
    <3>1. t <= pendingTime
      BY <1>0, <1>1, <2>2, <3>0, PlanFacts DEF Time
    <3>2. SamplesOf(t, tick) \subseteq Delivery
      BY <2>2, <3>1 DEF Delivery
    <3>3. Observation("sample", t, s, SampleOf(s, slots[s], tick)) \in SamplesOf(t, tick)
      BY DEF SamplesOf
    <3>4. Observation("sample", t, s, SampleOf(s, slots[s], tick)) \in out'
      BY <1>0, <3>2, <3>3
    <3> HIDE DEF tick
    <3> QED BY <3>4, HasObservation
  <2> QED BY <2>1, <2>2
<1> QED BY <1>0, <1>1 DEF BatchDone

LEMMA FinishTickExact ==
    ASSUME ExactInv, FinishTick
    PROVE  Exact'
<1>0. /\ phase = "complete" /\ work = {} /\ phase' \in {"deliver", "read", "store"}
      /\ UNCHANGED <<hist, kind, call, replay, checkpoint, kept, saved, result>>
      /\ out' = IF Visited THEN out \cup Delivery ELSE out
  BY FinishOut DEF FinishTick, source, caches, ExactInv, AnswerInv, Inv, EngineInv, TypeOK, ReadInv
<1>1. OpenTime' = NoTime /\ Reading' /\ Reading /\ pendingTime \in Time
  BY FinishMoves
<1>2. RunInv'
  BY <1>0, <1>1 DEF ExactInv, RunInv
<1>3. CountInv'
  BY <1>0, <1>1, SnapshotsKept DEF ExactInv
<1>4. AccCounts'
  <2> SUFFICES ASSUME call.op = "sample", emitted', NEW s \in Slot
               PROVE  acc'[s].events = Occurrences(hist, s, call.first)
    BY <1>0, Zenon DEF AccCounts
  <2>1. CASE Visited
    <3>1. pendingTime = call.first
      BY <1>0, <2>1, ClosingFacts, PlanFacts, ZeroTick
         DEF Visited, ExactInv, AnswerInv, CallShape, Inv, EngineInv, TypeOK, Time
    <3>2. acc' = Collected
      BY <2>1 DEF FinishTick
    <3>3. acc'[s].events = slots[s].events
      BY <3>2 DEF Collected
    <3> QED BY <1>0, <3>1, <3>3, ClosingCount
  <2>2. CASE ~Visited
    <3>1. acc' = acc
      BY <2>2 DEF FinishTick
    <3>2. emitted
      BY <2>2, Zenon DEF FinishTick
    <3> QED BY <3>1, <3>2 DEF ExactInv, AccCounts
  <2> QED BY <2>1, <2>2
<1>5. OutShape'
  <2>1. CASE Visited
    BY <1>0, <2>1, ShapeGrows
  <2>2. CASE ~Visited
    BY <1>0, <2>2 DEF ExactInv, OutShape
  <2> QED BY <2>1, <2>2
<1>6. DoneInv'
  BY <1>0, FinishScan, FinishQuery, FinishBatch DEF DoneInv
<1>7. EventsSound'
  <2>1. CASE Visited
    BY <1>0, <2>1, DeliveryCounted, CountsGrow DEF ExactInv
  <2>2. CASE ~Visited
    BY <1>0, <2>2, CountsKept DEF ExactInv
  <2> QED BY <2>1, <2>2
<1>8. result' # "ok"
  BY <1>0 DEF ExactInv, RunInv
<1> QED BY <1>2, <1>3, <1>4, <1>5, <1>6, <1>7, <1>8, FinishPrev, FinishPlace, NotSuccessful DEF Exact

LEMMA StopExact ==
    ASSUME ExactInv, StopTick \/ ReadFails
    PROVE  Exact'
<1>1. CASE StopTick
  <2>1. /\ phase = "complete" /\ work = {} /\ Visited /\ out' = out \cup Delivery
        /\ Return("stopped") /\ replay' = None /\ checkpoint' = None /\ hist' = hist /\ call' = call
        /\ result' = "stopped"
    BY <1>1, Typed, OutGrows DEF StopTick, Abandon, Return, source
  <2>2. EventsSound'
    BY <2>1, DeliveryCounted, CountsGrow DEF ExactInv
  <2>3. OutShape'
    BY <2>1, ShapeGrows
  <2> QED BY <2>1, <2>2, <2>3, NotSuccessful, ReturnExact
<1>2. CASE ReadFails
  <2>1. /\ out' \in {out, {}} /\ Return("error") /\ replay' = None /\ checkpoint' = None
        /\ hist' = hist /\ call' = call /\ result' = "error"
    BY <1>2, OutKept, OutNothing DEF ReadFails, Abandon, Return, source
  <2>2. EventsSound'
    BY <2>1, CountsKept DEF ExactInv
  <2>3. OutShape'
    BY <2>1 DEF ExactInv, OutShape
  <2> QED BY <2>1, <2>2, <2>3, NotSuccessful, ReturnExact
<1> QED BY <1>1, <1>2

-----------------------------------------------------------------------------
(* Storing the caches and replying. *)

\* After the last record no tick of the range that is still due has one.
LEMMA DueIsQuiet ==
    ASSUME ExactInv, phase = "store" \/ (phase = "reply" /\ call.op # "sample"),
           NEW t \in Time, Ahead(t), t <= call.last
    PROVE  \A i \in 1..Len(recs) : recs[i].time # t
<1> SUFFICES ASSUME NEW i \in 1..Len(recs), recs[i].time = t PROVE FALSE
  OBVIOUS
<1>0. cursor \in Nat /\ Len(recs) \in Nat /\ call.last \in Time
  BY SourceFacts DEF ExactInv, AnswerInv, Inv, EngineInv, TypeOK, recs
<1>1. i >= cursor => recs[i].time > call.last
  BY DEF ExactInv, AnswerInv, EndInv
<1>2. i < cursor
  BY <1>0, <1>1, PlanFacts DEF Time
<1>3. recs[i].time >= t
  BY PlanFacts DEF Time
<1>4. recs[i].time = NoTime
  BY <1>2, <1>3 DEF Ahead, OpenTime
<1> QED BY <1>4, ZeroTick

LEMMA StoreExact ==
    ASSUME ExactInv, Store
    PROVE  Exact'
<1>1. /\ phase = "store" /\ phase' = "reply" /\ replay' = saved /\ checkpoint' = kept
      /\ UNCHANGED <<hist, kind, call, cursor, kept, saved, emitted, todo, prevTick, prevEvents,
                     out, result>>
  BY OutKept DEF Store, source, reading, ticking, reply
<1>2. OpenTime' = OpenTime /\ OpenTime' = NoTime /\ Reading /\ Reading'
  BY <1>1 DEF OpenTime, Reading
<1>3. CountInv'
  <2>1. \A r \in {replay', checkpoint', kept', saved'} \ {None} :
           r.time # NoTime => Counted(hist', r.slots, r.time, r.pos)
    BY <1>1 DEF ExactInv, CountInv
  <2> QED BY <1>1, <1>2, <2>1 DEF ExactInv, CountInv
<1>4. AccCounts'
  <2> SUFFICES ASSUME call.op = "sample", NEW s \in Slot
               PROVE  acc'[s].events = Occurrences(hist, s, call.first)
    BY <1>1 DEF AccCounts
  <2>1. CASE emitted
    <3>1. acc' = acc
      BY <2>1 DEF Store
    <3> QED BY <2>1, <3>1 DEF ExactInv, AccCounts
  <2>2. CASE ~emitted
    <3>1. acc'[s].events = 0
      BY <2>2 DEF Store
    <3>2. /\ Ahead(call.first) /\ call.first \in Time /\ call.first = call.last
          /\ hist \in Histories
      BY <1>1, <2>2 DEF ExactInv, AnswerInv, DueInv, CallShape, Inv, EngineInv, TypeOK
    <3>3. call.first <= call.last
      BY <3>2, PlanFacts DEF Time
    <3>4. \A i \in 1..Len(recs) : recs[i].time # call.first
      BY <1>1, <3>2, <3>3, DueIsQuiet
    <3> QED BY <3>1, <3>2, <3>4, NoOccurrence DEF recs
  <2> QED BY <2>1, <2>2
<1> QED BY <1>1, <1>2, <1>3, <1>4, StillExact DEF Exact

LEMMA RestCounted ==
    ASSUME ExactInv, phase = "reply"
    PROVE  \A o \in Rest : CountTold(o)
<1>1. CASE call.op = "scan"
  <2>1. \A o \in Entering : o.what = "initial"
    BY DEF Entering, Initials, Observation
  <2> QED BY <1>1, <2>1 DEF Rest, CountTold
<1>2. CASE call.op = "samples_at"
  <2>1. ASSUME NEW t \in todo PROVE \A o \in SamplesOf(t, NoTime) : CountTold(o)
    <3>1. t \in Time /\ Ahead(t) /\ t <= call.last /\ hist \in Histories
      BY <1>2 DEF ExactInv, AnswerInv, DueInv, CallShape, Inv, EngineInv, TypeOK
    <3>2. \A i \in 1..Len(recs) : recs[i].time # t
      BY <1>2, <3>1, DueIsQuiet
    <3> QED BY <3>1, <3>2, QuietSamplesCounted
  <2> QED BY <1>2, <2>1 DEF Rest
<1>3. CASE call.op = "sample"
  <2>1. ASSUME NEW s \in Selected
        PROVE  CountTold(Observation("sample", call.first, s, acc[s]))
    <3>1. acc[s].events = Occurrences(hist, s, call.first)
      BY <1>3, PlanFacts DEF ExactInv, AccCounts
    <3> QED BY <3>1, SampleCounted
  <2> QED BY <1>3, <2>1 DEF Rest
<1>4. CASE call.op \notin {"scan", "samples_at", "sample"}
  BY <1>4 DEF Rest
<1> QED BY <1>1, <1>2, <1>3, <1>4

LEMMA RestShape ==
    ASSUME ExactInv, phase = "reply", call' = call, out' = out \cup Rest
    PROVE  OutShape'
<1>1. ASSUME NEW o \in Entering PROVE o.what = "initial" /\ o.time = call.first
  <2>1. o \in Initials(slots)
    BY DEF Entering
  <2> QED BY <2>1 DEF Initials, Observation
<1>2. call.op = "scan" => Rest = Entering
  BY DEF Rest
<1>3. call.op = "query" => Rest = {}
  BY DEF Rest
<1> QED BY <1>1, <1>2, <1>3 DEF ExactInv, OutShape

\* A slot is only active at a tick with a record.
LEMMA ActiveHasRecord ==
    ASSUME NEW h \in Histories, NEW s \in Slot, NEW t \in Time,
           NetChange(h, s, t) \/ Occurrences(h, s, t) > 0
    PROVE  \E i \in 1..Len(h.records) : h.records[i].time = t
<1> SUFFICES ASSUME \A i \in 1..Len(h.records) : h.records[i].time # t PROVE FALSE
  OBVIOUS
<1>0. Len(h.records) \in Nat /\ \A i \in 1..Len(h.records) : h.records[i].time \in Time
  BY SourceFacts
<1>1. Occurrences(h, s, t) = 0
  BY NoOccurrence
<1>2. h.obs[s][t] # Missing /\ (t > 0 => h.obs[s][t - 1] # h.obs[s][t])
  BY <1>1 DEF NetChange
<1>3. CASE t = 0
  <2>1. \A i \in 1..Len(h.records) : h.records[i].time > t
    BY <1>0, <1>3, PlanFacts DEF Time
  <2> QED BY <1>2, <2>1, EarlyMissing
<1>4. CASE t # 0
  <2>1. t - 1 \in Time /\ t > 0 /\ t - 1 <= t
    BY <1>4, PlanFacts DEF Time
  <2>2. \A i \in 1..Len(h.records) : h.records[i].time <= t - 1 \/ h.records[i].time > t
    BY <1>0, PlanFacts DEF Time
  <2>3. h.obs[s][t] = h.obs[s][t - 1]
    BY <2>1, <2>2, QuietObs
  <2> QED BY <1>2, <2>1, <2>3
<1> QED BY <1>3, <1>4

\* After the last record every active tick of the range is done.
LEMMA ActiveIsDone ==
    ASSUME ExactInv, phase = "reply", call.op # "sample", NEW s \in Slot,
           NEW t \in call.first..call.last, Active(s, t)
    PROVE  Done(t)
<1>0. /\ hist \in Histories /\ call \in CallType /\ cursor \in Nat /\ Len(recs) \in Nat
      /\ \A j \in 1..Len(recs) : recs[j].time \in Time
  BY SourceFacts DEF ExactInv, AnswerInv, Inv, EngineInv, TypeOK, CallType, recs
<1>1. t \in Time /\ t <= call.last
  BY <1>0, PlanFacts DEF CallType, Time
<1>2. PICK i \in 1..Len(recs) : recs[i].time = t
  BY <1>0, <1>1, ActiveHasRecord DEF Active, recs
<1>3. i >= cursor => recs[i].time > call.last
  BY DEF ExactInv, AnswerInv, EndInv
<1>4. i < cursor
  BY <1>0, <1>1, <1>2, <1>3, PlanFacts DEF CallType, Time
<1>5. OpenTime = NoTime
  BY DEF OpenTime
<1> QED BY <1>1, <1>2, <1>4, <1>5, ZeroTick DEF Done

LEMMA ReplySuccess ==
    ASSUME ExactInv, Reply
    PROVE  SuccessComplete'
<1>0. /\ phase = "reply" /\ UNCHANGED <<hist, call>> /\ out' = out \cup Rest /\ out \subseteq out'
      /\ call \in CallType /\ hist \in Histories /\ Reading
  BY Typed, OutGrows DEF Reply, Return, source, ExactInv, AnswerInv, Inv, EngineInv, TypeOK, CallType, Reading
<1>1. \A s, t : Active(s, t)' <=> Active(s, t)
  BY <1>0 DEF Active
<1>2. CASE call.op = "scan"
  <2>1. ScanDone
    BY <1>0, <1>2 DEF ExactInv, DoneInv
  <2>2. ASSUME NEW s \in Selected, call.first > 0, hist.obs[s][call.first - 1] # Missing
        PROVE  Has("initial", call.first, s)'
    <3>1. CASE emitted
      <4>1. Has("initial", call.first, s)
        BY <2>1, <2>2, <3>1 DEF ScanDone
      <4> QED BY <1>0, <4>1 DEF Has
    <3>2. CASE ~emitted
      <4>1. EnteringOK(hist, s, call.first, slots[s].state)
        <5>1. /\ call.first \in Time /\ call.first - 1 \in Time \cup {NoTime}
              /\ call.first - 1 <= call.first - 1 /\ call.first - 1 <= call.last
          BY <1>0, <1>2, PlanFacts, ZeroTick
             DEF ExactInv, AnswerInv, CallShape, CallType, Time, NoTime
        <5>2. Ahead(call.first) /\ s \in Slot
          BY <1>0, <1>2, <3>2, PlanFacts DEF ExactInv, AnswerInv, DueInv
        <5> QED BY <1>0, <1>2, <5>1, <5>2, RestMoves DEF EnteringOK, ExactInv
      <4> DEFINE c == [state |-> slots[s].state, events |-> 0]
      <4>2. Observation("initial", call.first, s, c) \in Entering
        BY <1>0, <2>2, <3>2, <4>1, EnteringComplete DEF CallType
      <4>3. Observation("initial", call.first, s, c) \in out'
        BY <1>0, <1>2, <4>2 DEF Rest
      <4> HIDE DEF c
      <4> QED BY <1>0, <4>3 DEF Has, Observation
    <3> QED BY <3>1, <3>2
  <2>3. ASSUME NEW s \in Selected, NEW t \in call.first..call.last, Active(s, t)
        PROVE  Has("change", t, s)'
    <3>1. Done(t)
      BY <1>0, <1>2, <2>3, ActiveIsDone, PlanFacts
    <3> QED BY <1>0, <2>1, <2>3, <3>1, HasGrows DEF ScanDone
  <2> QED BY <1>0, <1>1, <1>2, <2>2, <2>3 DEF SuccessComplete
<1>3. CASE call.op = "query"
  <2>1. QueryDone
    BY <1>0, <1>3 DEF ExactInv, DoneInv
  <2>2. ASSUME NEW t \in call.first..call.last, NEW d \in call.drivers, Active(d, t), NEW s \in Selected
        PROVE  Has("sample", t, s)' /\ (t > 0 => Has("sample", t - 1, s)')
    <3>1. d \in Slot
      BY <1>0, PlanFacts DEF CallType
    <3>2. Done(t)
      BY <1>0, <1>3, <2>2, <3>1, ActiveIsDone
    <3>3. Has("sample", t, s) /\ (t > 0 => Has("sample", t - 1, s))
      BY <2>1, <2>2, <3>2 DEF QueryDone
    <3> QED BY <1>0, <3>3, HasGrows
  <2> QED BY <1>0, <1>1, <1>3, <2>2 DEF SuccessComplete
<1>4. CASE call.op = "samples_at"
  <2>1. BatchDone
    BY <1>0, <1>4 DEF ExactInv, DoneInv
  <2>2. ASSUME NEW t \in call.times, NEW s \in Selected PROVE Has("sample", t, s)'
    <3>1. CASE t \notin todo
      BY <1>0, <2>1, <3>1, HasGrows DEF BatchDone
    <3>2. CASE t \in todo
      <4>1. Observation("sample", t, s, SampleOf(s, slots[s], NoTime)) \in SamplesOf(t, NoTime)
        BY DEF SamplesOf
      <4>2. Observation("sample", t, s, SampleOf(s, slots[s], NoTime)) \in out'
        BY <1>0, <1>4, <3>2, <4>1 DEF Rest
      <4> QED BY <4>2, HasObservation
    <3> QED BY <3>1, <3>2
  <2> QED BY <1>0, <1>4, <2>2 DEF SuccessComplete
<1>5. CASE call.op = "sample"
  <2>1. ASSUME NEW s \in Selected PROVE Has("sample", call.first, s)'
    <3>1. Observation("sample", call.first, s, acc[s]) \in out'
      BY <1>0, <1>5 DEF Rest
    <3> QED BY <1>0, <3>1 DEF Has, Observation
  <2> QED BY <1>0, <1>5, <2>1 DEF SuccessComplete
<1>6. CASE call.op \notin {"scan", "query", "samples_at", "sample"}
  BY <1>0, <1>6 DEF SuccessComplete
<1> QED BY <1>2, <1>3, <1>4, <1>5, <1>6

LEMMA ReplyExact ==
    ASSUME ExactInv, Reply \/ StopReply
    PROVE  Exact'
<1>1. /\ phase = "reply" /\ out' = out \cup Rest
      /\ hist' = hist /\ call' = call
      /\ replay' \in {replay, None} /\ checkpoint' \in {checkpoint, None}
  BY Typed, OutGrows DEF Reply, StopReply, Abandon, Return, source, caches
<1>2. EventsSound'
  BY <1>1, RestCounted, CountsGrow DEF ExactInv
<1>3. OutShape'
  BY <1>1, RestShape
<1>4. CASE Reply
  BY <1>1, <1>2, <1>3, <1>4, ReplySuccess, ReturnExact DEF Reply
<1>5. CASE StopReply
  <2>1. Return("stopped") /\ result' # "ok"
    BY <1>5 DEF StopReply, Abandon, Return
  <2> QED BY <1>1, <1>2, <1>3, <2>1, NotSuccessful, ReturnExact
<1> QED BY <1>4, <1>5

-----------------------------------------------------------------------------
(* The invariant holds. *)

LEMMA InitExact == Init => ExactInv
<1> SUFFICES ASSUME Init PROVE ExactInv
  OBVIOUS
<1>1. ~emitted
  BY Zenon DEF Init
<1>2. /\ phase = "idle" /\ call.op = "none" /\ out = {} /\ result = "none" /\ prevTick = NoTime
      /\ replay = None /\ checkpoint = None /\ kept = None /\ saved = None
  BY DEF Init, NoCall, out
<1>3. ~Reading /\ OpenTime = NoTime
  BY <1>2 DEF Reading, OpenTime
<1>4. RunInv /\ CountInv /\ AccCounts /\ PrevInv /\ DoneInv /\ OutShape /\ OutPlace
  BY <1>1, <1>2, <1>3
     DEF RunInv, CountInv, AccCounts, PrevInv, DoneInv, OutShape, OutPlace
<1>5. EventsSound /\ SuccessComplete
  BY <1>2 DEF EventsSound, SuccessComplete
<1> QED BY <1>4, <1>5, InitAnswers DEF ExactInv

LEMMA StutterExact ==
    ASSUME ExactInv, UNCHANGED vars
    PROVE  Exact'
<1>1. UNCHANGED <<hist, kind, replay, checkpoint, call, phase, slots, cursor, pendingTime, kept, saved,
                  emitted, todo, prevTick, prevEvents, acc, out, result>>
  BY OutKept DEF vars, source, caches, reading, ticking, visiting, reply
<1>2. OpenTime' = OpenTime /\ (Reading' <=> Reading)
  BY <1>1 DEF OpenTime, Reading
<1>3. RunInv' /\ CountInv' /\ AccCounts'
  BY <1>1, <1>2 DEF ExactInv, RunInv, CountInv, AccCounts, Reading
<1>4. /\ \A t : Done(t)' <=> Done(t)
      /\ \A t : Behind(t)' <=> Behind(t)
      /\ \A w, t, s : Has(w, t, s)' <=> Has(w, t, s)
      /\ \A s, t : Active(s, t)' <=> Active(s, t)
  BY <1>1, <1>2 DEF Done, Behind, Has, Active, recs
<1>5. PrevInv'
  BY <1>1, <1>2, <1>4 DEF ExactInv, PrevInv, Behind, recs
<1>6. DoneInv'
  <2>1. (ScanDone' <=> ScanDone) /\ (QueryDone' <=> QueryDone) /\ (BatchDone' <=> BatchDone)
    BY <1>1, <1>4 DEF ScanDone, QueryDone, BatchDone, Has
  <2> QED BY <1>1, <1>2, <2>1 DEF ExactInv, DoneInv
<1>7. OutShape' /\ OutPlace'
  BY <1>1, <1>2, <1>4 DEF ExactInv, OutShape, OutPlace
<1>8. EventsSound'
  BY <1>1, CountsKept DEF ExactInv
<1>9. SuccessComplete'
  BY <1>1, <1>4 DEF ExactInv, SuccessComplete, Has
<1> QED BY <1>3, <1>5, <1>6, <1>7, <1>8, <1>9 DEF Exact

LEMMA StepExact == ExactInv /\ [Next]_vars => ExactInv'
<1> SUFFICES ASSUME ExactInv, [Next]_vars PROVE ExactInv'
  OBVIOUS
<1>1. AnswerInv'
  BY StepAnswers DEF ExactInv
<1>2. Exact'
  BY StutterExact, OperationExact, PointExact, ParallelPrefixExact, LoadExact,
     TickEndExact, DeliverExact, EndOfRecordsExact, ComputeExact,
     FinishTickExact, StopExact, StoreExact, ReplyExact DEF Next, Step
<1> QED BY <1>1, <1>2 DEF ExactInv, Exact

-----------------------------------------------------------------------------
(* An owned trace answers as the source would. *)

\* A value stays as long as no tick changes it.
LEMMA NoChange ==
    ASSUME NEW h \in Histories, NEW s \in Slot, NEW a \in Time, NEW b \in Time,
           \A v \in (a + 1)..b : ~NetChange(h, s, v)
    PROVE  \A v \in a..b : h.obs[s][v] = h.obs[s][a]
<1> SUFFICES ASSUME NEW v \in a..b PROVE h.obs[s][v] = h.obs[s][a]
  OBVIOUS
<1>0. a \in Nat /\ b \in Nat /\ v \in Nat /\ a <= v /\ v <= b /\ v \in Time
  BY PlanFacts DEF Time
<1> DEFINE f == h.obs[s]
<1>1. ASSUME NEW i \in (a + 1)..v PROVE f[i] = f[i - 1]
  <2>1. i \in (a + 1)..b /\ i > 0 /\ i \in Time /\ i - 1 \in Time /\ i - 1 <= i
    BY <1>0, PlanFacts DEF Time
  <2>2. ~NetChange(h, s, i)
    BY <2>1
  <2>3. CASE f[i] = Missing
    <3>1. f[i - 1] # Missing => f[i] # Missing
      BY <2>1, KnownStays
    <3> QED BY <2>3, <3>1
  <2>4. CASE f[i] # Missing
    BY <2>1, <2>2, <2>4 DEF NetChange
  <2> QED BY <2>3, <2>4
<1> HIDE DEF f
<1>2. f[a] = f[v]
  BY <1>0, <1>1, TotalKept
<1> QED BY <1>2 DEF f

\* Nothing is known at tick t or earlier.
Unknown(h, s, t) == \A v \in Time : v <= t => h.obs[s][v] = Missing

\* A slot without a value stays without one as long as no tick changes it.
LEMMA UnknownStays ==
    ASSUME NEW h \in Histories, NEW s \in Slot, NEW a \in Time, NEW b \in Time, a <= b + 1,
           a > 0 => h.obs[s][a - 1] = Missing,
           \A v \in a..b : ~NetChange(h, s, v)
    PROVE  Unknown(h, s, b)
<1>0. a \in Nat /\ b \in Nat /\ (a > 0 => a - 1 \in Time)
  BY PlanFacts DEF Time
<1> SUFFICES ASSUME NEW v \in Time, v <= b PROVE h.obs[s][v] = Missing
  BY DEF Unknown
<1>1. CASE v < a
  <2>1. a > 0 /\ a - 1 \in Time /\ v <= a - 1
    BY <1>0, <1>1, PlanFacts DEF Time
  <2> QED BY <2>1, KnownStays
<1>2. CASE a <= v
  <2>1. a \in a..b /\ v \in a..b
    BY <1>0, <1>2, PlanFacts DEF Time
  <2>2. h.obs[s][a] = Missing
    BY <1>0, <2>1, PlanFacts DEF NetChange
  <2>3. \A w \in (a + 1)..b : ~NetChange(h, s, w)
    BY <1>0
  <2>4. h.obs[s][v] = h.obs[s][a]
    BY <2>1, <2>3, NoChange
  <2> QED BY <2>2, <2>4
<1>3. v \in Int /\ a \in Int
  BY <1>0, PlanFacts DEF Time
<1> QED BY <1>1, <1>2, <1>3

\* The state in force stays right as long as the value stays.
LEMMA StateHeld ==
    ASSUME NEW h \in Histories, NEW s \in Slot, NEW st, NEW t \in Time, NEW u \in Time, t <= u,
           \A v \in t..u : h.obs[s][v] = h.obs[s][t],
           StateOK(h, s, t, st)
    PROVE  StateOK(h, s, u, st)
<1>0. t \in Nat /\ u \in Nat /\ u \in t..u
  BY PlanFacts DEF Time
<1>1. h.obs[s][u] = h.obs[s][t] /\ st.value = h.obs[s][u]
  BY <1>0 DEF StateOK
<1>2. ASSUME st.value # Missing PROVE ChangedOK(h, s, u, st.changedAt)
  <2>1. ChangedOK(h, s, t, st.changedAt)
    BY <1>2 DEF StateOK
  <2>2. CASE st.changedAt = NoTime
    <3>1. ASSUME NEW v \in 0..u PROVE h.obs[s][v] \in {Missing, h.obs[s][u]}
      <4>1. v \in 0..t \/ v \in t..u
        BY <1>0
      <4> QED BY <1>1, <2>1, <2>2, <4>1 DEF ChangedOK
    <3> QED BY <2>2, <3>1 DEF ChangedOK
  <2>3. CASE st.changedAt # NoTime
    <3> DEFINE c == st.changedAt
    <3>1. /\ c \in 1..t /\ h.obs[s][c - 1] \notin {Missing, h.obs[s][c]}
          /\ \A v \in c..t : h.obs[s][v] = h.obs[s][t]
      BY <2>1, <2>3 DEF ChangedOK
    <3> HIDE DEF c
    <3>2. c \in 1..u
      BY <1>0, <3>1
    <3>3. ASSUME NEW v \in c..u PROVE h.obs[s][v] = h.obs[s][u]
      <4>1. v \in c..t \/ v \in t..u
        BY <1>0, <3>1
      <4> QED BY <1>1, <3>1, <4>1
    <3> QED BY <2>3, <3>1, <3>2, <3>3 DEF ChangedOK, c
  <2> QED BY <2>2, <2>3
<1> QED BY <1>0, <1>1, <1>2 DEF StateOK

\* A set whose members have different ticks is finite, and has a second member
\* exactly when it has more than one.
LEMMA SecondMember ==
    ASSUME NEW B, NEW n \in Nat, \A o \in B : o.time \in 0..n,
           \A o, p \in B : o.time = p.time => o = p, NEW x \in B
    PROVE  Cardinality(B) > 1 <=> \E y \in B : y # x
<1> DEFINE f == [o \in B |-> o.time]
<1>1. f \in Injection(B, 0..n)
  BY DEF Injection, IsInjective
<1> HIDE DEF f
<1>2. IsFiniteSet(0..n)
  BY FS_Interval
<1>3. IsFiniteSet(B)
  BY <1>1, <1>2, FS_Injection, Zenon
<1>4. Cardinality(B) \in Nat
  BY <1>3, FS_CardinalityType
<1>5. Cardinality(B) # 0
  BY <1>3, FS_EmptySet
<1>6. Cardinality(B) = 1 <=> \E y : B = {y}
  BY <1>3, FS_Singleton
<1>7. (\E y : B = {y}) <=> ~\E y \in B : y # x
  OBVIOUS
<1>8. Cardinality(B) > 1 <=> Cardinality(B) # 1
  BY <1>4, <1>5
<1> QED BY <1>6, <1>7, <1>8

\* The changes of slot s that a trace holds up to tick t, and its entering state.
Before(s, t) == {o \in out : o.what = "change" /\ o.slot = s /\ o.time <= t}
Entered(s) == {o \in out : o.what = "initial" /\ o.slot = s}

LEMMA TraceHolds ==
    ASSUME ExactInv, result = "ok", call.op = "scan",
           NEW s \in Selected, NEW t \in call.first..call.last
    PROVE  /\ hist \in Histories /\ s \in Slot /\ t \in Time /\ call.first \in Time
           /\ call.first <= t
           /\ \A o \in Before(s, t) :
                /\ o.time \in call.first..t
                /\ o.events = Occurrences(hist, s, o.time)
                /\ s \notin EventSlots =>
                      NetChange(hist, s, o.time) /\ o.state.value = hist.obs[s][o.time]
           /\ \A o, p \in Before(s, t) : o.time = p.time => o = p
           /\ \A v \in call.first..t : Active(s, v) => \E o \in Before(s, t) : o.time = v
           /\ \A o \in Entered(s) : EnteringOK(hist, s, call.first, o.state)
           /\ Entered(s) # {} <=> call.first > 0 /\ hist.obs[s][call.first - 1] # Missing
<1>0. call \in CallType /\ hist \in Histories /\ s \in Slot
  BY PlanFacts DEF ExactInv, AnswerInv, Inv, EngineInv, TypeOK, CallType
<1>1. /\ t \in Time /\ call.first \in Time /\ call.first \in Nat /\ call.last \in Nat
      /\ call.first <= t /\ t <= call.last /\ call.first <= call.last /\ t \in Nat
  BY <1>0, PlanFacts DEF CallType, Time
<1>2. ASSUME NEW o \in Before(s, t)
      PROVE  /\ o.time \in call.first..t /\ o.events = Occurrences(hist, s, o.time)
             /\ s \notin EventSlots =>
                   NetChange(hist, s, o.time) /\ o.state.value = hist.obs[s][o.time]
  <2>1. o \in out /\ o.what = "change" /\ o.slot = s /\ o.time <= t
    BY DEF Before
  <2>2. o.time \in call.first..call.last
    BY <2>1 DEF ExactInv, OutShape
  <2>3. o.time \in call.first..t
    BY <1>1, <2>1, <2>2
  <2>4. o.events = Occurrences(hist, s, o.time)
    BY <2>1 DEF ExactInv, EventsSound
  <2>5. s \notin EventSlots =>
           NetChange(hist, s, o.time) /\ o.state.value = hist.obs[s][o.time]
    <3>1. Told(o)
      BY <2>1, SoundIsTold DEF ExactInv, AnswerInv
    <3> QED BY <2>1, <3>1 DEF Told
  <2> QED BY <2>3, <2>4, <2>5
<1>3. \A o, p \in Before(s, t) : o.time = p.time => o = p
  BY DEF Before, ExactInv, OutShape
<1>4. ASSUME NEW v \in call.first..t, Active(s, v) PROVE \E o \in Before(s, t) : o.time = v
  <2>1. v \in call.first..call.last /\ v <= t
    BY <1>1
  <2>2. Has("change", v, s)
    BY <1>4, <2>1 DEF ExactInv, SuccessComplete
  <2> QED BY <2>1, <2>2 DEF Has, Before
<1>5. ASSUME NEW o \in Entered(s)
      PROVE  /\ EnteringOK(hist, s, call.first, o.state)
             /\ call.first > 0 /\ hist.obs[s][call.first - 1] # Missing
  <2>1. o \in out /\ o.what = "initial" /\ o.slot = s
    BY DEF Entered
  <2>2. EnteringOK(hist, s, call.first, o.state) /\ o.state.value # Missing
    BY <2>1, SoundIsTold DEF ExactInv, AnswerInv, Told
  <2>3. call.first - 1 # NoTime
    BY <2>2 DEF EnteringOK, AfterOK, NoState
  <2>4. hist.obs[s][call.first - 1] # Missing
    BY <2>2, <2>3 DEF EnteringOK, AfterOK, StateOK
  <2> QED BY <1>1, <2>2, <2>3, <2>4 DEF NoTime
<1>6. ASSUME call.first > 0, hist.obs[s][call.first - 1] # Missing PROVE Entered(s) # {}
  <2>1. Has("initial", call.first, s)
    BY <1>1, <1>6 DEF ExactInv, SuccessComplete
  <2> QED BY <2>1 DEF Has, Entered
<1> QED BY <1>0, <1>1, <1>2, <1>3, <1>4, <1>5, <1>6

\* The change time that a trace reports for the last change it holds.
LEMMA SavedChangeOK ==
    ASSUME ExactInv, result = "ok", call.op = "scan",
           NEW s \in Selected \ EventSlots, NEW t \in call.first..call.last,
           NEW last \in Before(s, t), \A p \in Before(s, t) : p.time <= last.time
    PROVE  StateOK(hist, s, t,
                   [value |-> last.state.value,
                    changedAt |-> SavedChangeTime(Before(s, t), Entered(s), last.time)])
<1> DEFINE B == Before(s, t)
           E == Entered(s)
           u == last.time
           a == call.first
           obs == hist.obs[s]
<1>0. /\ hist \in Histories /\ s \in Slot /\ t \in Time /\ a \in Time /\ a <= t
      /\ \A o \in B : /\ o.time \in a..t /\ NetChange(hist, s, o.time)
                      /\ o.state.value = obs[o.time]
      /\ \A o, p \in B : o.time = p.time => o = p
      /\ \A v \in a..t : NetChange(hist, s, v) => \E o \in B : o.time = v
      /\ E # {} <=> a > 0 /\ obs[a - 1] # Missing
  BY TraceHolds DEF Active
<1>1. last \in B /\ \A p \in B : p.time <= u
  OBVIOUS
<1> HIDE DEF B, E, a, u, obs
<1>2. /\ u \in a..t /\ u \in Nat /\ a \in Nat /\ t \in Nat /\ u <= t /\ a <= u /\ u \in Time
      /\ NetChange(hist, s, u) /\ last.state.value = obs[u]
  <2>1. u \in a..t /\ NetChange(hist, s, u) /\ last.state.value = obs[u]
    BY <1>0, <1>1 DEF u
  <2> QED BY <1>0, <2>1, PlanFacts DEF Time
<1>3. obs[u] # Missing /\ (u > 0 => obs[u - 1] # obs[u])
  BY <1>2 DEF NetChange, obs
<1>4. \A v \in u..t : obs[v] = obs[u]
  <2>1. ASSUME NEW v \in (u + 1)..t, NetChange(hist, s, v) PROVE FALSE
    <3>1. v \in a..t /\ v > u
      BY <1>2
    <3>2. PICK o \in B : o.time = v
      BY <1>0, <2>1, <3>1
    <3> QED BY <1>1, <1>2, <3>1, <3>2
  <2> QED BY <1>0, <1>2, <2>1, NoChange DEF obs
<1>5. t \in u..t /\ obs[t] = obs[u]
  BY <1>2, <1>4
<1>6. Cardinality(B) > 1 <=> \E y \in B : y # last
  <2>1. \A o \in B : o.time \in 0..t
    BY <1>0, <1>2
  <2> QED BY <1>0, <1>1, <1>2, <2>1, SecondMember
<1> DEFINE c == SavedChangeTime(B, E, u)
<1>7. CASE Cardinality(B) > 1 \/ E # {}
  <2>1. PICK w \in Time : w < u /\ obs[w] # Missing
    <3>1. CASE E # {}
      <4>1. a > 0 /\ obs[a - 1] # Missing
        BY <1>0, <3>1
      <4>2. a - 1 \in Time /\ a - 1 < u
        BY <1>0, <1>2, <4>1, PlanFacts DEF Time
      <4> QED BY <4>1, <4>2
    <3>2. CASE Cardinality(B) > 1
      <4>1. PICK y \in B : y # last
        BY <1>6, <3>2
      <4>2. y.time \in a..t /\ y.time <= u /\ NetChange(hist, s, y.time)
        BY <1>0, <1>1
      <4>3. y.time # u
        BY <1>0, <1>1, <4>1 DEF u
      <4>4. y.time \in Time /\ y.time < u
        BY <1>0, <1>2, <4>2, <4>3, PlanFacts DEF Time
      <4> QED BY <4>2, <4>4 DEF NetChange, obs
    <3> QED BY <1>7, <3>1, <3>2
  <2>2. u > 0 /\ u - 1 \in Time /\ w <= u - 1
    BY <1>2, <2>1, PlanFacts DEF Time
  <2>3. obs[u - 1] # Missing
    BY <1>0, <2>1, <2>2, KnownStays DEF obs
  <2>4. c = u
    BY <1>7 DEF SavedChangeTime
  <2>5. u \in 1..t /\ u # NoTime
    BY <1>2, <2>2 DEF NoTime
  <2>6. \A v \in u..t : obs[v] = obs[t]
    BY <1>4, <1>5
  <2>7. ChangedOK(hist, s, t, u)
    BY <1>3, <2>2, <2>3, <2>5, <2>6 DEF ChangedOK, obs
  <2> QED BY <1>2, <1>3, <1>5, <2>4, <2>7 DEF StateOK, B, E, u, obs
<1>8. CASE ~(Cardinality(B) > 1 \/ E # {})
  <2>1. c = NoTime
    BY <1>8 DEF SavedChangeTime
  <2>2. \A v \in a..t : NetChange(hist, s, v) => v = u
    BY <1>0, <1>6, <1>8 DEF u
  <2>3. ASSUME NEW v \in 0..t PROVE obs[v] \in {Missing, obs[t]}
    <3>1. CASE v >= u
      <4>1. v \in u..t
        BY <1>2, <3>1
      <4> QED BY <1>4, <1>5, <4>1
    <3>2. CASE v < u
      <4>1. v \in Time /\ u - 1 \in Time /\ v <= u - 1 /\ a <= (u - 1) + 1
        BY <1>2, <3>2, PlanFacts DEF Time
      <4>2. \A w \in a..(u - 1) : ~NetChange(hist, s, w)
        BY <1>2, <2>2
      <4>3. a > 0 => hist.obs[s][a - 1] = Missing
        BY <1>0, <1>8 DEF obs
      <4>4. Unknown(hist, s, u - 1)
        BY <1>0, <4>1, <4>2, <4>3, UnknownStays
      <4> QED BY <4>1, <4>4 DEF Unknown, obs
    <3> QED BY <1>2, <3>1, <3>2
  <2>4. ChangedOK(hist, s, t, NoTime)
    BY <2>3 DEF ChangedOK, obs
  <2> QED BY <1>2, <1>3, <1>5, <2>1, <2>4 DEF StateOK, B, E, u, obs
<1> QED BY <1>7, <1>8

\* Some change of a nonempty trace is the last.
LEMMA LastChange ==
    ASSUME NEW B, B # {}, NEW n \in Nat, \A o \in B : o.time \in 0..n
    PROVE  \E o \in B : \A p \in B : p.time <= o.time
<1> DEFINE T == {o.time + 1 : o \in B}
<1>1. T \subseteq 1..(n + 1) /\ T # {}
  OBVIOUS
<1>2. PICK x \in T : \A y \in T : y <= x
  <2> HIDE DEF T
  <2>1. n + 1 \in Nat
    OBVIOUS
  <2> QED BY <1>1, <2>1, GreatestPosition
<1>3. PICK o \in B : x = o.time + 1
  BY <1>2
<1>4. \A p \in B : p.time + 1 <= o.time + 1
  BY <1>2, <1>3
<1> QED BY <1>4

\* Without a change the entering state is still in force.
LEMMA SavedInitialOK ==
    ASSUME ExactInv, result = "ok", call.op = "scan",
           NEW s \in Selected \ EventSlots, NEW t \in call.first..call.last,
           Before(s, t) = {}
    PROVE  StateOK(hist, s, t,
                   IF Entered(s) = {} THEN NoState ELSE (CHOOSE o \in Entered(s) : TRUE).state)
<1>0. /\ hist \in Histories /\ s \in Slot /\ t \in Time /\ call.first \in Time /\ call.first <= t
      /\ \A v \in call.first..t : ~NetChange(hist, s, v)
      /\ \A o \in Entered(s) : EnteringOK(hist, s, call.first, o.state)
      /\ Entered(s) # {} <=> call.first > 0 /\ hist.obs[s][call.first - 1] # Missing
  BY TraceHolds DEF Active
<1>1. CASE Entered(s) = {}
  <2>1. (call.first > 0 => hist.obs[s][call.first - 1] = Missing) /\ call.first <= t + 1
    BY <1>0, <1>1, PlanFacts DEF Time
  <2>2. Unknown(hist, s, t)
    BY <1>0, <2>1, UnknownStays
  <2>3. hist.obs[s][t] = Missing
    BY <1>0, <2>2, PlanFacts DEF Unknown, Time
  <2> QED BY <1>1, <2>3 DEF StateOK, NoState
<1>2. CASE Entered(s) # {}
  <2>1. PICK o : o = (CHOOSE x \in Entered(s) : TRUE) /\ o \in Entered(s)
    BY <1>2
  <2>2. EnteringOK(hist, s, call.first, o.state) /\ call.first > 0
    BY <1>0, <1>2, <2>1
  <2> DEFINE b == call.first - 1
  <2>3. b \in Time /\ b # NoTime /\ b <= t /\ b + 1 = call.first
    BY <1>0, <2>2, PlanFacts DEF Time, NoTime
  <2>4. StateOK(hist, s, b, o.state)
    BY <2>2, <2>3 DEF EnteringOK, AfterOK
  <2> HIDE DEF b
  <2>5. \A v \in b..t : hist.obs[s][v] = hist.obs[s][b]
    BY <1>0, <2>3, NoChange
  <2>6. StateOK(hist, s, t, o.state)
    BY <1>0, <2>3, <2>4, <2>5, StateHeld
  <2> QED BY <1>2, <2>1, <2>6
<1> QED BY <1>1, <1>2

LEMMA TraceFaithful == ExactInv => SavedTraceFaithful
<1> SUFFICES ASSUME ExactInv, result = "ok", call.op = "scan",
                    NEW s \in Selected, NEW t \in call.first..call.last
             PROVE  /\ StateOK(hist, s, t, SavedSample(s, t).state)
                    /\ SavedSample(s, t).events = Occurrences(hist, s, t)
  BY DEF SavedTraceFaithful
<1>0. /\ hist \in Histories /\ s \in Slot /\ t \in Time /\ t \in Nat /\ t \in call.first..t
      /\ \A o \in Before(s, t) : /\ o.time \in 0..t
                                 /\ o.events = Occurrences(hist, s, o.time)
      /\ Active(s, t) => \E o \in Before(s, t) : o.time = t
  BY TraceHolds, PlanFacts DEF Time
<1>1. Occurrences(hist, s, t) \in Nat /\ (s \notin EventSlots => Occurrences(hist, s, t) = 0)
  BY <1>0, OccurrencesType
<1> DEFINE B == Before(s, t)
           E == Entered(s)
<1>2. CASE s \in EventSlots
  <2>1. SavedSample(s, t) =
          [state |-> NoState,
           events |-> IF \E o \in B : o.time = t THEN (CHOOSE o \in B : o.time = t).events ELSE 0]
    BY <1>2 DEF SavedSample, Before
  <2>2. CASE \E o \in B : o.time = t
    <3>1. PICK o : o = (CHOOSE x \in B : x.time = t) /\ o \in B /\ o.time = t
      BY <2>2
    <3> QED BY <1>0, <1>2, <2>1, <2>2, <3>1, NoStateOK
  <2>3. CASE ~\E o \in B : o.time = t
    <3>1. ~(Occurrences(hist, s, t) > 0)
      BY <1>0, <2>3 DEF Active
    <3> QED BY <1>0, <1>1, <1>2, <2>1, <2>3, <3>1, NoStateOK
  <2> QED BY <2>2, <2>3
<1>3. CASE s \notin EventSlots /\ B # {}
  <2>1. PICK o : /\ o = (CHOOSE x \in B : \A p \in B : p.time <= x.time)
                 /\ o \in B /\ \A p \in B : p.time <= o.time
    <3>1. \E x \in B : \A p \in B : p.time <= x.time
      BY <1>0, <1>3, LastChange
    <3> QED BY <3>1
  <2>2. SavedSample(s, t) =
          [state |-> [value |-> o.state.value, changedAt |-> SavedChangeTime(B, E, o.time)],
           events |-> 0]
    BY <1>3, <2>1 DEF SavedSample, Before, Entered
  <2>3. StateOK(hist, s, t,
                [value |-> o.state.value, changedAt |-> SavedChangeTime(B, E, o.time)])
    BY <1>3, <2>1, SavedChangeOK
  <2> QED BY <1>1, <1>3, <2>2, <2>3
<1>4. CASE s \notin EventSlots /\ B = {}
  <2>1. SavedSample(s, t) =
          [state |-> IF E = {} THEN NoState ELSE (CHOOSE o \in E : TRUE).state, events |-> 0]
    BY <1>4 DEF SavedSample, Before, Entered
  <2>2. StateOK(hist, s, t, IF E = {} THEN NoState ELSE (CHOOSE o \in E : TRUE).state)
    BY <1>4, SavedInitialOK
  <2> QED BY <1>1, <1>4, <2>1, <2>2
<1> QED BY <1>2, <1>3, <1>4

-----------------------------------------------------------------------------
(* Answers are exact. *)

LEMMA AlwaysExact == Spec => []ExactInv
BY InitExact, StepExact, PTL DEF Spec

\* Whatever a caller of scan_each, samples_at, query or sample_visit receives is
\* what the source defines: values, change times and event counts of exactly the
\* delivered tick; a call that succeeds has left out no entering state, no active
\* tick and no requested tick; and the Trace that a scan saves answers every tick of
\* its range as the source would.  This holds for every plan, source and reader,
\* after every sequence of calls, stops and errors.
THEOREM AnswersStayExact == Spec => []AnswersExact
<1>1. ExactInv => AnswersExact
  BY TraceFaithful DEF ExactInv, AnswerInv, AnswersExact
<1> QED BY <1>1, AlwaysExact, PTL

-----------------------------------------------------------------------------
(* Deliveries come in order. *)

\* A parcel that may be handed over now.
Follows(new) ==
    out # {} =>
        /\ \A o \in new : o.what # "initial" /\ \A p \in out : p.time <= o.time
        /\ \E o \in new : \A p \in out : p.time < o.time

LEMMA FollowsAfter ==
    ASSUME received \in Seq(Parcel), InOrder, NEW new, new # {} => Follows(new), Hand(new)
    PROVE  InOrder'
<1>1. CASE new = {}
  <2>1. received' = received
    BY <1>1 DEF Hand
  <2> QED BY <2>1 DEF InOrder
<1>2. CASE new # {}
  <2>1. received' = Append(received, new)
    BY <1>2 DEF Hand
  <2>2. /\ DOMAIN received = 1..Len(received) /\ Len(received) \in Nat
        /\ DOMAIN received' = 1..(Len(received) + 1)
        /\ received'[Len(received) + 1] = new
        /\ \A i \in DOMAIN received : received'[i] = received[i] /\ received[i] \in Parcel
    BY <2>1
  <2>3. ASSUME NEW i \in DOMAIN received PROVE Precedes(received[i], new)
    <3>1. received[i] \subseteq out /\ received[i] # {}
      BY <2>2, <2>3 DEF out, Parcel
    <3>2. Follows(new) /\ out # {}
      BY <1>2, <3>1
    <3> QED BY <3>1, <3>2 DEF Follows, Precedes
  <2>4. ASSUME NEW i \in DOMAIN received', NEW j \in DOMAIN received', i < j
        PROVE  Precedes(received'[i], received'[j])
    <3>1. i \in DOMAIN received
      BY <2>2, <2>4
    <3>2. CASE j \in DOMAIN received
      BY <2>2, <2>4, <3>1, <3>2 DEF InOrder
    <3>3. CASE j = Len(received) + 1
      BY <2>2, <2>3, <3>1, <3>3
    <3> QED BY <2>2, <3>2, <3>3
  <2>5. \A i, j \in DOMAIN received' : i < j => Precedes(received'[i], received'[j])
    BY <2>4
  <2> QED BY <2>5 DEF InOrder, Precedes
<1> QED BY <1>1, <1>2

LEMMA DeliveryFollows ==
    ASSUME ExactInv, phase = "complete", work = {}, Visited, Delivery # {}
    PROVE  Follows(Delivery)
<1>0. /\ pendingTime \in Time /\ pendingTime \in Int
      /\ OpenTime = pendingTime /\ OpenTime # NoTime /\ Reading
  BY ClosingFacts, ZeroTick, PlanFacts
     DEF OpenTime, Reading, ExactInv, AnswerInv, Inv, EngineInv, TypeOK, Time
<1>1. ASSUME call.op \in {"scan", "query"}, NEW p \in out
      PROVE  p.time \in Int /\ p.time < pendingTime
  BY <1>0, <1>1 DEF ExactInv, OutPlace, Behind
<1>2. CASE call.op = "scan"
  <2> SUFFICES ASSUME out # {} PROVE Follows(Delivery)
    BY DEF Follows
  <2>1. emitted
    BY <1>0, <1>2 DEF ExactInv, OutPlace
  <2>2. \A o \in Delivery : o.what = "change" /\ o.time = pendingTime
    BY <1>2, <2>1, DeliveryShape
  <2>3. \A p \in out : p.time \in Int /\ p.time < pendingTime
    BY <1>1, <1>2
  <2> QED BY <1>0, <2>2, <2>3 DEF Follows
<1>3. CASE call.op = "query"
  <2>1. \A o \in Delivery : o.what = "sample" /\ o.time \in {pendingTime, pendingTime - 1}
    BY <1>3, DeliveryShape
  <2>2. \A p \in out : p.time \in Int /\ p.time < pendingTime
    BY <1>1, <1>3
  <2>3. \A o \in Delivery, p \in out : p.time <= o.time
    BY <1>0, <2>1, <2>2
  <2>4. SamplesOf(pendingTime, pendingTime) \subseteq Delivery
    BY <1>3 DEF Delivery
  <2>5. PICK s \in Selected : TRUE
    BY PlanAssumption
  <2> DEFINE o == Observation("sample", pendingTime, s, SampleOf(s, slots[s], pendingTime))
  <2>6. o \in Delivery
    BY <2>4 DEF SamplesOf
  <2>7. o.time = pendingTime
    BY DEF Observation
  <2> HIDE DEF o
  <2>8. \E x \in Delivery : \A p \in out : p.time < x.time
    BY <2>2, <2>6, <2>7
  <2> QED BY <2>1, <2>3, <2>8 DEF Follows
<1>4. CASE call.op = "samples_at"
  <2>1. \A o \in Delivery : o.time \in todo /\ o.what = "sample"
    BY <1>4, BatchShape
  <2>2. \A p \in out, t \in todo : p.time \in Int /\ p.time < t
    BY <1>0, <1>4 DEF ExactInv, OutPlace
  <2>3. todo \subseteq Int
    BY PlanFacts DEF ExactInv, AnswerInv, Inv, EngineInv, TypeOK, Time
  <2>4. \A o \in Delivery, p \in out : p.time < o.time /\ p.time <= o.time
    <3> SUFFICES ASSUME NEW o \in Delivery, NEW p \in out PROVE p.time < o.time /\ p.time <= o.time
      OBVIOUS
    <3>1. o.time \in Int /\ p.time \in Int /\ p.time < o.time
      BY <2>1, <2>2, <2>3
    <3> QED BY <3>1
  <2>5. PICK o \in Delivery : TRUE
    OBVIOUS
  <2> QED BY <2>1, <2>4, <2>5 DEF Follows
<1>5. CASE call.op \notin {"scan", "query", "samples_at"}
  BY <1>5 DEF Delivery
<1> QED BY <1>2, <1>3, <1>4, <1>5

LEMMA RestFollows ==
    ASSUME ExactInv, phase = "reply", Rest # {}
    PROVE  Follows(Rest)
<1> SUFFICES ASSUME out # {} PROVE Follows(Rest)
  BY DEF Follows
<1>0. Reading
  BY DEF Reading
<1>1. CASE call.op = "scan"
  <2>1. emitted
    BY <1>0, <1>1 DEF ExactInv, OutPlace
  <2>2. Entering = {}
    BY <2>1, Zenon DEF Entering
  <2> QED BY <1>1, <2>2 DEF Rest
<1>2. CASE call.op = "samples_at"
  <2>1. \A o \in Rest : o.time \in todo /\ o.what = "sample"
    <3> SUFFICES ASSUME NEW o \in Rest PROVE o.time \in todo /\ o.what = "sample"
      OBVIOUS
    <3>1. PICK t \in todo : o \in SamplesOf(t, NoTime)
      BY <1>2 DEF Rest
    <3> QED BY <3>1 DEF SamplesOf, Observation
  <2>2. \A p \in out, t \in todo : p.time \in Int /\ p.time < t
    BY <1>0, <1>2 DEF ExactInv, OutPlace
  <2>3. todo \subseteq Int
    BY PlanFacts DEF ExactInv, AnswerInv, Inv, EngineInv, TypeOK, Time
  <2>4. \A o \in Rest, p \in out : p.time < o.time /\ p.time <= o.time
    <3> SUFFICES ASSUME NEW o \in Rest, NEW p \in out PROVE p.time < o.time /\ p.time <= o.time
      OBVIOUS
    <3>1. o.time \in Int /\ p.time \in Int /\ p.time < o.time
      BY <2>1, <2>2, <2>3
    <3> QED BY <3>1
  <2>5. PICK o \in Rest : TRUE
    OBVIOUS
  <2> QED BY <2>1, <2>4, <2>5 DEF Follows
<1>3. CASE call.op = "sample"
  BY <1>0, <1>3 DEF ExactInv, OutPlace
<1>4. CASE call.op \notin {"scan", "samples_at", "sample"}
  BY <1>4 DEF Rest
<1> QED BY <1>1, <1>2, <1>3, <1>4

LEMMA StepInOrder == ExactInv /\ InOrder /\ [Next]_vars => InOrder'
<1> SUFFICES ASSUME ExactInv, InOrder, [Next]_vars PROVE InOrder'
  OBVIOUS
<1>1. ASSUME received' = received PROVE InOrder'
  BY <1>1 DEF InOrder
<1>2. ASSUME received' = <<>> PROVE InOrder'
  BY <1>2 DEF InOrder
<1>3. ASSUME NEW new, received' = <<new>> PROVE InOrder'
  <2>1. DOMAIN received' = {1}
    BY <1>3
  <2>2. \A i, j \in DOMAIN received' : ~(i < j)
    BY <2>1
  <2> QED BY <2>2 DEF InOrder
<1>4. CASE UNCHANGED vars
  BY <1>1, <1>4 DEF vars, reply
<1>5. CASE Operation
  BY <1>2, <1>3, <1>5 DEF Operation, Scan, SamplesAt, Query, Sample, ShmReplaySample, Begin
<1>6. CASE PointSkip \/ PointReuse \/ PointSeek \/ PointUncertified \/ PointFail
           \/ ParallelPrefix \/ Load
  BY <1>1, <1>2, <1>6 DEF PointSkip, PointReuse, PointSeek, PointUncertified, PointFail,
                          PointMiss, PointDeclined, PointStates, ParallelPrefix, Load, reply
<1>7. CASE TickPassed \/ TickBoundary \/ Deliver \/ ReadFails \/ EndOfRecords \/ Compute \/ Store
  BY <1>1, <1>2, <1>7 DEF TickPassed, TickBoundary, CompleteTick, Deliver, ReadFails,
                          EndOfRecords, Compute, Store, reply
<1>8. CASE FinishTick \/ StopTick
  <2>1. phase = "complete" /\ work = {}
    BY <1>8 DEF FinishTick, StopTick
  <2>2. (Visited /\ Hand(Delivery)) \/ received' = received
    BY <1>8 DEF FinishTick, StopTick
  <2> QED BY <1>1, <2>1, <2>2, Typed, DeliveryFollows, FollowsAfter
<1>9. CASE Reply \/ StopReply
  <2>1. phase = "reply" /\ Hand(Rest)
    BY <1>9 DEF Reply, StopReply
  <2> QED BY <2>1, Typed, RestFollows, FollowsAfter
<1> QED BY <1>4, <1>5, <1>6, <1>7, <1>8, <1>9 DEF Next, Step

\* One call, whatever the operation, hands over entering states once, with the first
\* it tells, nothing about an earlier tick than before, and about every tick in one
\* step of the traversal: the order in which scan_tick, the rows of samples_at and
\* QueryContext call back, also when cached snapshots shorten the traversal or the
\* caller stops it.  `received` is a sequence, so telling a tick again would violate it.
THEOREM DeliveriesInOrder == Spec => []InOrder
<1>1. Init => InOrder
  BY DEF Init, InOrder
<1> QED BY <1>1, StepInOrder, AlwaysExact, PTL DEF Spec
=============================================================================
