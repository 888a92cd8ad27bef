------------------------- MODULE VcdParallelProofs -------------------------
(***************************************************************************)
(* Proofs about VcdParallel, for every body, cut, selection, capacity and  *)
(* schedule of the workers: the memory that parallel_full budgets.         *)
(***************************************************************************)
EXTENDS VcdParallel, FiniteSetTheorems, SequenceTheorems, TLAPS

-----------------------------------------------------------------------------
(* The types of walks, workers and channels. *)

Encodings == {"bits", "real", "event", "string"}
Values == UNION {{b[i].value : i \in 1..Len(b)} : b \in Bodies}
Positions == [offset : Nat, time : Nat, block : BOOLEAN]
Records == [signal : Signals, time : Nat, value : Values, position : Positions]

WalkType ==
    [time : Nat, span : [first : Nat, last : Nat] \cup {None}, mode : {"body", "block", "text"},
     status : {"go", "bad", "stop", "end"}, position : Positions \cup {None},
     records : Seq(Records), encodings : [Signals -> Encodings], seen : SUBSET Signals]

WorkerStates == {"run", "send", "last", "error", "done", "panicked"}

WorkerType ==
    [state : WorkerStates, walk : WalkType, at : Nat, batch : Seq(Records),
     firstTime : Nat \cup {None}, crossed : BOOLEAN, error : BOOLEAN]

Message == [ok : {FALSE}] \cup [ok : {TRUE}, records : Seq(Records)]

Streaming == {"spawn", "drain", "join", "fallback"}

ReaderOK ==
    /\ body \in Bodies
    /\ Len(cuts) \in Nat /\ \A k \in 1..Len(cuts) : cuts[k] \in 1..Eof
    /\ phase \in {"closed", "failed", "idle", "serial"} \cup Streaming
    /\ phase \in Streaming => parallel
    /\ phase = "closed" => ~parallel
    /\ parallel => encodings \in [Signals -> Encodings] /\ Len(cuts) >= 3

ThreadsOK ==
    /\ worker \in Seq(WorkerType) /\ queue \in Seq(Seq(Message)) /\ Len(queue) = Len(worker)
    /\ phase \notin Streaming => worker = <<>>
    /\ Len(worker) < Len(cuts) \/ worker = <<>>
    /\ active \in Nat /\ (phase \notin {"drain", "join"} => active = 1)
    /\ phase = "drain" => Len(worker) = Len(cuts) - 1 /\ active \in 1..Len(worker)
    /\ held # None => held \in Seq(Records)
    /\ \A k \in 1..Len(worker) : worker[k].at >= 1

-----------------------------------------------------------------------------
(* Batches. *)

\* The short batches in a channel.
ShortIn(q) == {i \in 1..Len(q) : q[i].ok /\ Len(q[i].records) < BatchLen}

\* A short batch is about to be sent.
ShortNext(w) == w.state = "send" /\ Len(w.batch) < BatchLen

\* How many batches a chunk has cut short, by what it has seen: none before its
\* first record, one in its first tick, a second one at the next tick.
Startup(w, q) ==
    /\ w.firstTime = None =>
          ~w.crossed /\ w.state \notin {"send", "last"} /\ w.batch = <<>> /\ ShortIn(q) = {}
    /\ w.state \in {"run", "send"} /\ ~w.crossed =>
          /\ \E a \in Nat : ShortIn(q) \subseteq {a}
          /\ ShortNext(w) => ShortIn(q) = {}
    /\ w.state \in {"run", "send", "last"} => \E a, b \in Nat : ShortIn(q) \subseteq {a, b}
    /\ w.state \in {"run", "send"} /\ ShortNext(w) => \E a \in Nat : ShortIn(q) \subseteq {a}
    /\ \E a, b, c \in Nat : ShortIn(q) \subseteq {a, b, c}

BatchesOK ==
    /\ Budget
    /\ \A k \in 1..Len(worker) :
          /\ worker[k].state = "run" => Len(worker[k].batch) < BatchLen
          /\ k > active => Startup(worker[k], queue[k])

MemoryInv == ReaderOK /\ ThreadsOK /\ BatchesOK

-----------------------------------------------------------------------------
(* One turn of a walk. *)

LEMMA Constants ==
    /\ MaxTick \in Nat /\ None \notin Nat
    /\ Declared \in [Signals -> Encodings]
    /\ QueuedBatches \in Nat \ {0} /\ BatchLen \in Nat \ {0}
BY WalkAssumption, ParallelAssumption DEF Encodings

LEMMA FailTyped ==
    ASSUME NEW w \in WalkType
    PROVE  Fail(w) \in WalkType
BY DEF Fail, WalkType

LEMMA PositionTyped ==
    ASSUME NEW w \in WalkType, NEW offset \in Nat
    PROVE  Position(offset, w) \in Positions
BY DEF Position, Positions, WalkType

LEMMA TimestampTyped ==
    ASSUME NEW w \in WalkType, NEW offset \in Nat, NEW n \in Nat, NEW end
    PROVE  Timestamp(w, offset, n, end) \in WalkType
<1>1. Position(offset, w) \in Positions
  BY PositionTyped
<1>2. [w EXCEPT !.status = "stop", !.position = Position(offset, w)] \in WalkType
  BY <1>1 DEF WalkType
<1>3. [first |-> IF w.span = None THEN n ELSE w.span.first, last |-> n] \in [first : Nat, last : Nat]
  BY DEF WalkType
<1>4. [w EXCEPT !.time = n,
                !.span = [first |-> IF @ = None THEN n ELSE @.first, last |-> n]] \in WalkType
  BY <1>3 DEF WalkType
<1> QED BY <1>2, <1>4, FailTyped DEF Timestamp

LEMMA CommandTyped ==
    ASSUME NEW w \in WalkType, NEW m
    PROVE  Command(w, m) \in WalkType
<1>1. /\ [w EXCEPT !.mode = "block"] \in WalkType /\ [w EXCEPT !.mode = "body"] \in WalkType
      /\ [w EXCEPT !.mode = "text"] \in WalkType
  BY DEF WalkType
<1> QED BY <1>1, FailTyped DEF Command

\* The walk after a value change, before the visitor sees it.
Changed(w, s, encoding, sel) ==
    [w EXCEPT !.span = IF @ = None THEN [first |-> 0, last |-> 0] ELSE @,
              !.encodings[s] = encoding,
              !.seen = IF sel = None THEN @ \cup {s} ELSE @]

LEMMA ChangedTyped ==
    ASSUME NEW w \in WalkType, NEW s \in Signals, NEW e \in Encodings, NEW sel
    PROVE  Changed(w, s, e, sel) \in WalkType /\ Changed(w, s, e, sel).records = w.records
<1>1. (IF w.span = None THEN [first |-> 0, last |-> 0] ELSE w.span)
         \in [first : Nat, last : Nat] \cup {None}
  BY DEF WalkType
<1>2. [w.encodings EXCEPT ![s] = e] \in [Signals -> Encodings]
  BY DEF WalkType
<1>3. (IF sel = None THEN w.seen \cup {s} ELSE w.seen) \in SUBSET Signals
  BY DEF WalkType
<1> QED BY <1>1, <1>2, <1>3 DEF Changed, WalkType

LEMMA TurnTyped ==
    ASSUME NEW w \in WalkType, NEW b \in Bodies, NEW i \in 1..Len(b), NEW sel, NEW end
    PROVE  Turn(w, i, b[i], sel, end) \in WalkType
<1> DEFINE t == b[i]
<1>0. IsToken(t) /\ i \in Nat
  BY ParallelAssumption
<1>1. [w EXCEPT !.mode = "body"] \in WalkType
  BY DEF WalkType
<1>2. ASSUME t.tok = "time" PROVE Timestamp(w, i, t.time, end) \in WalkType
  BY <1>0, <1>2, TimestampTyped, Constants DEF IsToken
<1>3. ASSUME t.tok = "value" PROVE ValueChange(w, i, t, sel) \in WalkType
  <2>1. t.signal \in Signals /\ t.value \in Values
    BY <1>0, <1>3 DEF IsToken, Values
  <2> DEFINE e == EncodingAt(w, sel, t.signal, t.as)
             r == [signal |-> t.signal, time |-> w.time, value |-> t.value,
                   position |-> Position(i, w)]
             next == Changed(w, t.signal, e, sel)
  <2>2. e \in Encodings
    BY <2>1 DEF EncodingAt, WalkType, Encodings
  <2>3. next \in WalkType
    BY <2>1, <2>2, ChangedTyped
  <2>4. r \in Records
    BY <1>0, <2>1, PositionTyped DEF Records, WalkType
  <2>5. ValueChange(w, i, t, sel) \in
           {Fail(w), next, [next EXCEPT !.records = Append(@, r)]}
    BY DEF ValueChange, Changed
  <2> HIDE DEF next, r
  <2>6. [next EXCEPT !.records = Append(@, r)] \in WalkType
    <3>1. Append(next.records, r) \in Seq(Records)
      BY <2>3, <2>4 DEF WalkType
    <3> QED BY <2>3, <3>1 DEF WalkType
  <2> QED BY <2>3, <2>5, <2>6, FailTyped
<1>4. Command(w, t.tok) \in WalkType
  BY CommandTyped
<1> HIDE DEF t
<1>5. Turn(w, i, t, sel, end) \in WalkType
  BY <1>1, <1>2, <1>3, <1>4 DEF Turn
<1> QED BY <1>5 DEF t

-----------------------------------------------------------------------------
(* One turn of a worker. *)

LEMMA FinishTyped ==
    ASSUME NEW w \in WorkerType, NEW failed \in BOOLEAN
    PROVE  /\ Finish(w, failed) \in WorkerType /\ Finish(w, failed).batch = w.batch
           /\ Finish(w, failed).at = w.at /\ Finish(w, failed).firstTime = w.firstTime
           /\ Finish(w, failed).crossed = w.crossed
           /\ Finish(w, failed).state \in {"last", "error", "done"}
           /\ Finish(w, failed).state = "last" => w.batch # <<>>
BY DEF Finish, WorkerType, WorkerStates

\* A turn that shows the visitor nothing.
LEMMA StepTyped ==
    ASSUME NEW w \in WorkerType, NEW walk \in WalkType
    PROVE  LET v == [w EXCEPT !.walk = walk, !.at = @ + 1]
           IN /\ v \in WorkerType /\ v.at = w.at + 1 /\ v.batch = w.batch /\ v.state = w.state
              /\ v.firstTime = w.firstTime /\ v.crossed = w.crossed
<1>1. PICK n \in Nat : n = w.at + 1
  BY DEF WorkerType
<1>2. [w EXCEPT !.walk = walk, !.at = n] \in WorkerType
  BY DEF WorkerType
<1> QED BY <1>1, <1>2 DEF WorkerType

LEMMA CollectTyped ==
    ASSUME NEW w \in WorkerType, NEW walk \in WalkType, walk.records # <<>>
    PROVE  LET r == walk.records[1]
               batch == Append(w.batch, r)
               due == Full(batch) \/ w.firstTime = None \/ NextTick(w, r)
           IN /\ Collect(w, walk) \in WorkerType
              /\ Collect(w, walk).batch = batch /\ Len(batch) = Len(w.batch) + 1
              /\ Collect(w, walk).at = w.at + 1
              /\ Collect(w, walk).firstTime = (IF w.firstTime = None THEN r.time ELSE w.firstTime)
              /\ Collect(w, walk).firstTime # None
              /\ Collect(w, walk).crossed <=> w.crossed \/ NextTick(w, r)
              /\ Collect(w, walk).state = IF due THEN "send" ELSE "run"
<1> DEFINE r == walk.records[1]
           batch == Append(w.batch, r)
           due == Full(batch) \/ w.firstTime = None \/ NextTick(w, r)
           shown == [walk EXCEPT !.records = <<>>]
           first == IF w.firstTime = None THEN r.time ELSE w.firstTime
<1>1. r \in Records
  BY DEF WalkType
<1>2. batch \in Seq(Records) /\ Len(batch) = Len(w.batch) + 1
  BY <1>1 DEF WorkerType
<1>3. shown \in WalkType
  <2>1. <<>> \in Seq(Records)
    OBVIOUS
  <2> QED BY <2>1 DEF WalkType
<1>4. r.time \in Nat /\ first \in Nat \cup {None} /\ first # None
  BY <1>1, Constants DEF Records, WorkerType
<1>5. Collect(w, walk) = [w EXCEPT !.walk = shown, !.at = @ + 1, !.batch = batch,
                                   !.firstTime = first,
                                   !.crossed = @ \/ NextTick(w, r),
                                   !.state = IF due THEN "send" ELSE "run"]
  BY DEF Collect
<1> DEFINE crossed == w.crossed \/ NextTick(w, r)
           state == IF due THEN "send" ELSE "run"
<1>6. crossed \in BOOLEAN
  BY DEF NextTick
<1>7. state \in WorkerStates
  BY DEF WorkerStates
<1>8. Collect(w, walk) = [w EXCEPT !.walk = shown, !.at = @ + 1, !.batch = batch,
                                   !.firstTime = first, !.crossed = crossed, !.state = state]
  BY <1>5 DEF WorkerType
<1> HIDE DEF batch, shown, first, crossed, state
<1>9. PICK c \in BOOLEAN : c = crossed
  BY <1>6
<1>10. /\ Collect(w, walk) \in WorkerType
       /\ Collect(w, walk).batch = batch /\ Collect(w, walk).at = w.at + 1
       /\ Collect(w, walk).firstTime = first /\ Collect(w, walk).crossed = c
       /\ Collect(w, walk).state = state
  <2>1. Collect(w, walk) = [w EXCEPT !.walk = shown, !.at = @ + 1, !.batch = batch,
                                     !.firstTime = first, !.crossed = c, !.state = state]
    BY <1>8, <1>9, Zenon
  <2>2. w.at + 1 \in Nat /\ w.error \in BOOLEAN
    BY DEF WorkerType
  <2>3. w = [state |-> w.state, walk |-> w.walk, at |-> w.at, batch |-> w.batch,
             firstTime |-> w.firstTime, crossed |-> w.crossed, error |-> w.error]
    BY DEF WorkerType
  <2>4. Collect(w, walk) = [state |-> state, walk |-> shown, at |-> w.at + 1, batch |-> batch,
                            firstTime |-> first, crossed |-> c, error |-> w.error]
    BY <2>1, <2>3
  <2>5. [state |-> state, walk |-> shown, at |-> w.at + 1, batch |-> batch,
         firstTime |-> first, crossed |-> c, error |-> w.error] \in WorkerType
    BY <1>2, <1>3, <1>4, <1>7, <2>2 DEF WorkerType
  <2> QED BY <2>4, <2>5
<1> QED BY <1>2, <1>4, <1>9, <1>10 DEF batch, first, crossed, state

-----------------------------------------------------------------------------
(* Short batches. *)

LEMMA AtMostOne ==
    ASSUME NEW S, NEW a, S \subseteq {a}
    PROVE  IsFiniteSet(S) /\ Cardinality(S) \in Nat /\ Cardinality(S) <= 1
<1>1. IsFiniteSet({a}) /\ Cardinality({a}) = 1
  BY FS_Singleton
<1> QED BY <1>1, FS_Subset, FS_CardinalityType

LEMMA AtMostTwo ==
    ASSUME NEW S, NEW a, NEW b, S \subseteq {a, b}
    PROVE  IsFiniteSet(S) /\ Cardinality(S) \in Nat /\ Cardinality(S) <= 2
<1>1. IsFiniteSet({a}) /\ Cardinality({a}) = 1
  BY FS_Singleton
<1>2. /\ IsFiniteSet({a} \cup {b})
      /\ Cardinality({a} \cup {b}) = IF b \in {a} THEN Cardinality({a}) ELSE Cardinality({a}) + 1
  BY <1>1, FS_AddElement
<1>3. S \subseteq {a} \cup {b} /\ Cardinality({a} \cup {b}) <= 2
  BY <1>1, <1>2
<1> QED BY <1>2, <1>3, FS_Subset, FS_CardinalityType

LEMMA AtMostThree ==
    ASSUME NEW S, NEW a, NEW b, NEW c, S \subseteq {a, b, c}
    PROVE  Cardinality(S) \in Nat /\ Cardinality(S) <= 3
<1>1. /\ IsFiniteSet({a, b}) /\ Cardinality({a, b}) \in Nat /\ Cardinality({a, b}) <= 2
  BY AtMostTwo
<1>2. /\ IsFiniteSet({a, b} \cup {c})
      /\ Cardinality({a, b} \cup {c}) = IF c \in {a, b} THEN Cardinality({a, b})
                                        ELSE Cardinality({a, b}) + 1
  BY <1>1, FS_AddElement
<1>3. /\ S \subseteq {a, b} \cup {c}
      /\ Cardinality({a, b} \cup {c}) <= 3
  <2>1. S \subseteq {a, b} \cup {c}
    OBVIOUS
  <2> DEFINE two == Cardinality({a, b})
             three == Cardinality({a, b} \cup {c})
  <2>2. three = two \/ three = two + 1
    BY <1>2
  <2>3. two \in Nat /\ two <= 2
    BY <1>1
  <2> HIDE DEF two, three
  <2>4. three <= 3
    BY <2>2, <2>3
  <2> QED BY <2>1, <2>4 DEF three
<1>4. IsFiniteSet(S) /\ Cardinality(S) <= Cardinality({a, b} \cup {c})
  BY <1>2, <1>3, FS_Subset
<1>5. Cardinality(S) \in Nat /\ Cardinality({a, b} \cup {c}) \in Nat
  BY <1>2, <1>4, FS_CardinalityType
<1> QED BY <1>3, <1>4, <1>5

\* What FutureBatchesFull asks of one chunk.
FewShort(w, q) ==
    Cardinality(ShortIn(q)) + (IF w.state = "send" /\ Len(w.batch) < BatchLen THEN 1 ELSE 0)
        <= 2 + (IF w.state \in {"run", "send"} THEN 0 ELSE 1)

LEMMA StartupFew ==
    ASSUME NEW w \in WorkerType, NEW q, Startup(w, q)
    PROVE  FewShort(w, q)
<1>1. CASE ShortNext(w)
  <2>1. Cardinality(ShortIn(q)) \in Nat /\ Cardinality(ShortIn(q)) <= 1
    BY <1>1, AtMostOne DEF Startup, ShortNext
  <2> QED BY <1>1, <2>1 DEF FewShort, ShortNext
<1>2. CASE ~ShortNext(w) /\ w.state \in {"run", "send"}
  <2>1. Cardinality(ShortIn(q)) \in Nat /\ Cardinality(ShortIn(q)) <= 2
    BY <1>2, AtMostTwo DEF Startup
  <2> QED BY <1>2, <2>1 DEF FewShort, ShortNext
<1>3. CASE w.state \notin {"run", "send"}
  <2>1. Cardinality(ShortIn(q)) \in Nat /\ Cardinality(ShortIn(q)) <= 3
    BY AtMostThree DEF Startup
  <2> QED BY <1>3, <2>1 DEF FewShort
<1> QED BY <1>1, <1>2, <1>3

\* A worker that leaves its loop, or goes on without a record.
LEMMA StartupAfter ==
    ASSUME NEW w, NEW q, Startup(w, q), w.state = "run",
           NEW v, v.state \in WorkerStates \ {"send"},
           v.firstTime = w.firstTime, v.crossed = w.crossed, v.batch \in {w.batch, <<>>},
           v.state = "last" => v.batch # <<>>
    PROVE  Startup(v, q)
<1>1. ~ShortNext(v)
  BY DEF ShortNext
<1>2. v.firstTime = None =>
        ~v.crossed /\ v.state \notin {"send", "last"} /\ v.batch = <<>> /\ ShortIn(q) = {}
  BY DEF Startup, WorkerStates
<1>3. ~v.crossed => \E a \in Nat : ShortIn(q) \subseteq {a}
  BY DEF Startup
<1>4. \E a, b \in Nat : ShortIn(q) \subseteq {a, b}
  BY DEF Startup
<1>5. \E a, b, c \in Nat : ShortIn(q) \subseteq {a, b, c}
  BY DEF Startup
<1> QED BY <1>1, <1>2, <1>3, <1>4, <1>5 DEF Startup

\* A record collected: only the first one, and the first of the next tick, cut a
\* batch short.
LEMMA StartupCollect ==
    ASSUME NEW w \in WorkerType, NEW walk \in WalkType, walk.records # <<>>,
           NEW q, Startup(w, q), w.state = "run"
    PROVE  Startup(Collect(w, walk), q)
<1> DEFINE v == Collect(w, walk)
           r == walk.records[1]
<1>1. /\ v.firstTime # None /\ v.state \in {"run", "send"}
      /\ v.crossed <=> w.crossed \/ NextTick(w, r)
      /\ v.state = "send" => \/ Len(v.batch) = BatchLen \/ w.firstTime = None \/ NextTick(w, r)
  BY CollectTyped DEF Full
<1> HIDE DEF v, r
<1>2. \E a, b \in Nat : ShortIn(q) \subseteq {a, b}
  BY DEF Startup
<1>3. \E a, b, c \in Nat : ShortIn(q) \subseteq {a, b, c}
  BY DEF Startup
<1>4. ~w.crossed => \E a \in Nat : ShortIn(q) \subseteq {a}
  BY DEF Startup
<1>5. w.firstTime = None => ShortIn(q) = {}
  BY DEF Startup
<1>6. ~v.crossed => \E a \in Nat : ShortIn(q) \subseteq {a}
  BY <1>1, <1>4
<1>7. ASSUME ShortNext(v)
      PROVE  /\ \E a \in Nat : ShortIn(q) \subseteq {a}
             /\ ~v.crossed => ShortIn(q) = {}
  <2>1. w.firstTime = None \/ NextTick(w, r)
    BY <1>1, <1>7, Constants DEF ShortNext
  <2>2. CASE w.firstTime = None
    BY <1>5, <2>2
  <2>3. CASE NextTick(w, r)
    BY <1>1, <1>4, <2>3 DEF NextTick
  <2> QED BY <2>1, <2>2, <2>3
<1>8. Startup(v, q)
  BY <1>1, <1>2, <1>3, <1>6, <1>7 DEF Startup
<1> QED BY <1>8 DEF v

LEMMA ShortAppend ==
    ASSUME NEW q \in Seq(Message), NEW m \in Message
    PROVE  /\ ShortIn(Append(q, m)) \subseteq ShortIn(q) \cup {Len(q) + 1}
           /\ ~(m.ok /\ Len(m.records) < BatchLen) => ShortIn(Append(q, m)) \subseteq ShortIn(q)
<1>1. /\ Len(Append(q, m)) = Len(q) + 1 /\ Len(q) \in Nat
      /\ \A i \in 1..Len(q) : Append(q, m)[i] = q[i]
      /\ Append(q, m)[Len(q) + 1] = m
  OBVIOUS
<1>2. \A i \in 1..(Len(q) + 1) : i \in 1..Len(q) \/ i = Len(q) + 1
  BY <1>1
<1> QED BY <1>1, <1>2 DEF ShortIn

LEMMA StartupSent ==
    ASSUME NEW w \in WorkerType, NEW q \in Seq(Message), Startup(w, q),
           w.state \in {"send", "last", "error"},
           NEW m \in Message, m.ok => w.state # "error" /\ m.records = w.batch,
           NEW v, v.firstTime = w.firstTime, v.crossed = w.crossed, v.batch = <<>>,
           w.state = "send" => v.state = "run",
           w.state = "last" => v.state \in {"error", "done"},
           w.state = "error" => v.state = "done"
    PROVE  Startup(v, Append(q, m))
<1> DEFINE S == ShortIn(q)
           T == ShortIn(Append(q, m))
           n == Len(q) + 1
<1>0. n \in Nat
  OBVIOUS
<1>1. /\ T \subseteq S \cup {n}
      /\ ~(m.ok /\ Len(m.records) < BatchLen) => T \subseteq S
  BY ShortAppend
<1>2. \E a, b, c \in Nat : S \subseteq {a, b, c}
  BY DEF Startup
<1>3. CASE w.state = "send"
  <2>1. v.state = "run" /\ w.firstTime # None /\ ~ShortNext(v)
    BY <1>3 DEF Startup, ShortNext
  <2>2. ASSUME ~w.crossed PROVE \E a \in Nat : T \subseteq {a}
    <3>1. CASE ShortNext(w)
      <4>1. S = {}
        BY <1>3, <2>2, <3>1 DEF Startup
      <4> HIDE DEF S, T, n
      <4> QED BY <1>0, <1>1, <4>1
    <3>2. CASE ~ShortNext(w)
      <4>1. T \subseteq S
        BY <1>1, <1>3, <3>2 DEF ShortNext
      <4>2. PICK a \in Nat : S \subseteq {a}
        BY <1>3, <2>2 DEF Startup
      <4> HIDE DEF S, T
      <4> QED BY <4>1, <4>2
    <3> QED BY <3>1, <3>2
  <2>3. \E a, b \in Nat : T \subseteq {a, b}
    <3>1. CASE ShortNext(w)
      <4>1. PICK a \in Nat : S \subseteq {a}
        BY <1>3, <3>1 DEF Startup
      <4> HIDE DEF S, T, n
      <4>2. T \subseteq {a, n}
        BY <1>1, <4>1
      <4> QED BY <1>0, <4>2
    <3>2. CASE ~ShortNext(w)
      <4>1. T \subseteq S
        BY <1>1, <1>3, <3>2 DEF ShortNext
      <4>2. PICK a, b \in Nat : S \subseteq {a, b}
        BY <1>3 DEF Startup
      <4> HIDE DEF S, T
      <4>3. T \subseteq {a, b}
        BY <4>1, <4>2
      <4> QED BY <4>3
    <3> QED BY <3>1, <3>2
  <2>4. \E a, b, c \in Nat : T \subseteq {a, b, c}
    <3>1. PICK a, b \in Nat : T \subseteq {a, b}
      BY <2>3
    <3>2. T \subseteq {a, b, b}
      BY <3>1
    <3> QED BY <3>2
  <2> QED BY <2>1, <2>2, <2>3, <2>4 DEF Startup
<1>4. CASE w.state = "last"
  <2>1. v.state \in {"error", "done"} /\ w.firstTime # None
    BY <1>4 DEF Startup
  <2>2. PICK a, b \in Nat : S \subseteq {a, b}
    BY <1>4 DEF Startup
  <2>3. T \subseteq {a, b, n}
    <3> HIDE DEF S, T, n
    <3> QED BY <1>1, <2>2
  <2>4. \E a1, b1, c1 \in Nat : T \subseteq {a1, b1, c1}
    BY <1>0, <2>3
  <2> QED BY <2>1, <2>4 DEF Startup, ShortNext
<1>5. CASE w.state = "error"
  <2>1. v.state = "done" /\ T \subseteq S
    BY <1>1, <1>5
  <2>2. PICK a, b, c \in Nat : S \subseteq {a, b, c}
    BY <1>2
  <2>3. T \subseteq {a, b, c} /\ (S = {} => T = {})
    <3> HIDE DEF S, T
    <3> QED BY <2>1, <2>2
  <2>4. \E a1, b1, c1 \in Nat : T \subseteq {a1, b1, c1}
    BY <2>3
  <2>5. w.firstTime = None => ~w.crossed /\ S = {}
    BY DEF Startup
  <2> QED BY <2>1, <2>3, <2>4, <2>5 DEF Startup, ShortNext
<1> QED BY <1>3, <1>4, <1>5

\* Nothing is short in an empty channel.
LEMMA StartupEmpty ==
    ASSUME NEW w, NEW q, Startup(w, q)
    PROVE  Startup(w, <<>>)
<1>1. ShortIn(<<>>) = {}
  BY DEF ShortIn
<1>2. /\ \E a \in Nat : ShortIn(<<>>) \subseteq {a}
      /\ \E a, b \in Nat : ShortIn(<<>>) \subseteq {a, b}
      /\ \E a, b, c \in Nat : ShortIn(<<>>) \subseteq {a, b, c}
  BY <1>1
<1> QED BY <1>1, <1>2 DEF Startup

-----------------------------------------------------------------------------
(* One worker moves. *)

\* What MemoryInv asks of the batches of one chunk.
ChunkOK(w, q) ==
    /\ Len(w.batch) <= BatchLen
    /\ w.state = "run" => Len(w.batch) < BatchLen
    /\ Len(q) <= QueuedBatches
    /\ \A i \in 1..Len(q) : q[i].ok => Len(q[i].records) <= BatchLen

LEMMA ChunkFacts ==
    ASSUME MemoryInv, NEW k \in DOMAIN worker
    PROVE  /\ k \in 1..Len(worker) /\ k \in Nat /\ Len(worker) \in Nat
           /\ worker[k] \in WorkerType /\ queue[k] \in Seq(Message)
           /\ ChunkOK(worker[k], queue[k])
           /\ k > active => Startup(worker[k], queue[k])
           /\ worker[k].at >= 1
<1>1. worker \in Seq(WorkerType) /\ queue \in Seq(Seq(Message)) /\ Len(queue) = Len(worker)
  BY DEF MemoryInv, ThreadsOK
<1>2. k \in 1..Len(worker) /\ Len(worker) \in Nat
  BY <1>1
<1>3. worker[k] \in WorkerType /\ queue[k] \in Seq(Message)
  BY <1>1, <1>2
<1>4. ChunkOK(worker[k], queue[k]) /\ (k > active => Startup(worker[k], queue[k]))
  BY <1>2 DEF MemoryInv, BatchesOK, Budget, ChunkOK
<1>5. worker[k].at >= 1
  BY <1>2 DEF MemoryInv, ThreadsOK
<1> QED BY <1>2, <1>3, <1>4, <1>5

LEMMA WorkerMoves ==
    ASSUME MemoryInv, NEW k \in DOMAIN worker,
           NEW v \in WorkerType, NEW q \in Seq(Message),
           worker' = [worker EXCEPT ![k] = v], queue' = [queue EXCEPT ![k] = q],
           v.at >= 1, ChunkOK(v, q), k > active => Startup(v, q),
           UNCHANGED <<file, phase, active, held>>
    PROVE  MemoryInv'
<1>1. worker \in Seq(WorkerType) /\ queue \in Seq(Seq(Message)) /\ Len(queue) = Len(worker)
  BY DEF MemoryInv, ThreadsOK
<1>2. k \in 1..Len(worker) /\ Len(worker) \in Nat
  BY <1>1
<1>3. /\ worker' \in Seq(WorkerType) /\ Len(worker') = Len(worker)
      /\ queue' \in Seq(Seq(Message)) /\ Len(queue') = Len(worker)
  BY <1>1, <1>2
<1>4. \A j \in 1..Len(worker) : /\ worker'[j] = IF j = k THEN v ELSE worker[j]
                                /\ queue'[j] = IF j = k THEN q ELSE queue[j]
  BY <1>1, <1>2
<1>5. ReaderOK'
  BY DEF MemoryInv, ReaderOK, file, Eof
<1>6. ThreadsOK'
  <2>1. (worker = <<>> <=> worker' = <<>>)
    BY <1>1, <1>3
  <2>2. \A j \in 1..Len(worker') : worker'[j].at >= 1
    BY <1>3, <1>4 DEF MemoryInv, ThreadsOK
  <2>3. phase' = phase /\ cuts' = cuts /\ active' = active /\ held' = held
    BY DEF file
  <2> QED BY <1>3, <2>1, <2>2, <2>3 DEF MemoryInv, ThreadsOK
<1>7. BatchesOK'
  <2>1. \A j \in 1..Len(worker) :
           /\ ChunkOK(worker'[j], queue'[j])
           /\ j > active => Startup(worker'[j], queue'[j])
    <3>1. TAKE j \in 1..Len(worker)
    <3>2. j \in DOMAIN worker
      BY <1>1
    <3>3. CASE j = k
      BY <1>4, <3>3
    <3>4. CASE j # k
      BY <1>4, <3>2, <3>4, ChunkFacts
    <3> QED BY <3>3, <3>4
  <2>2. DOMAIN worker' = 1..Len(worker) /\ Len(worker') = Len(worker)
    BY <1>3
  <2>3. held' # None => Len(held') <= BatchLen
    BY DEF MemoryInv, BatchesOK, Budget
  <2>4. Budget'
    BY <2>1, <2>2, <2>3 DEF Budget, ChunkOK
  <2>5. \A j \in 1..Len(worker') :
          /\ worker'[j].state = "run" => Len(worker'[j].batch) < BatchLen
          /\ j > active' => Startup(worker'[j], queue'[j])
    BY <2>1, <2>2 DEF ChunkOK
  <2> QED BY <2>4, <2>5 DEF BatchesOK, Startup, ShortIn, ShortNext
<1> QED BY <1>5, <1>6, <1>7 DEF MemoryInv

\* A worker moves and sends nothing.
LEMMA WorkerAlone ==
    ASSUME MemoryInv, NEW k \in DOMAIN worker, NEW v \in WorkerType,
           worker' = [worker EXCEPT ![k] = v],
           v.at >= 1, Len(v.batch) <= BatchLen, v.state = "run" => Len(v.batch) < BatchLen,
           k > active => Startup(v, queue[k]),
           UNCHANGED <<file, phase, queue, active, held>>
    PROVE  MemoryInv'
<1>1. queue \in Seq(Seq(Message)) /\ k \in 1..Len(queue)
  BY DEF MemoryInv, ThreadsOK
<1>2. queue' = [queue EXCEPT ![k] = queue[k]]
  BY <1>1
<1>3. ChunkOK(v, queue[k])
  BY ChunkFacts DEF ChunkOK
<1> QED BY <1>2, <1>3, ChunkFacts, WorkerMoves

\* A worker leaves its loop: the walk failed, ended or was told to stop.
LEMMA WorkerFinishes ==
    ASSUME MemoryInv, NEW k \in DOMAIN worker, worker[k].state = "run", NEW failed \in BOOLEAN,
           worker' = [worker EXCEPT ![k] = Finish(worker[k], failed)],
           UNCHANGED <<file, phase, queue, active, held>>
    PROVE  MemoryInv'
<1> DEFINE w == worker[k]
           v == Finish(w, failed)
<1>1. /\ w \in WorkerType /\ w.at >= 1 /\ Len(w.batch) <= BatchLen
      /\ k > active => Startup(w, queue[k])
  BY ChunkFacts DEF ChunkOK
<1>2. /\ v \in WorkerType /\ v.batch = w.batch /\ v.at = w.at /\ v.firstTime = w.firstTime
      /\ v.crossed = w.crossed /\ v.state \in {"last", "error", "done"}
      /\ v.state = "last" => w.batch # <<>>
  BY <1>1, FinishTyped
<1>3. w.state = "run" /\ worker' = [worker EXCEPT ![k] = v]
  OBVIOUS
<1> HIDE DEF w, v
<1>4. k > active => Startup(v, queue[k])
  BY <1>1, <1>2, <1>3, StartupAfter DEF WorkerStates
<1> QED BY <1>1, <1>2, <1>3, <1>4, WorkerAlone

LEMMA TurnKeeps ==
    ASSUME MemoryInv, NEW k \in DOMAIN worker, WorkerTurn(k)
    PROVE  MemoryInv'
<1> DEFINE w == worker[k]
           walk == Turn(w.walk, w.at, body[w.at], selected, MaxTick)
<1>1. /\ w \in WorkerType /\ w.at >= 1 /\ Len(w.batch) <= BatchLen
      /\ w.state = "run" /\ Len(w.batch) < BatchLen
      /\ k > active => Startup(w, queue[k])
  BY ChunkFacts DEF ChunkOK, WorkerTurn
<1>2. k \in 1..Len(worker) /\ Len(worker) < Len(cuts)
  BY ChunkFacts DEF MemoryInv, ThreadsOK
<1>3. w.at \in 1..Len(body)
  <2>1. Len(cuts) \in Nat /\ k + 1 \in 1..Len(cuts)
    BY <1>2, ChunkFacts DEF MemoryInv, ReaderOK
  <2>2. cuts[k + 1] \in 1..Eof /\ body \in Bodies
    BY <2>1 DEF MemoryInv, ReaderOK
  <2>3. Len(body) \in Nat
    BY <2>2, ParallelAssumption
  <2>4. w.at \in Nat /\ w.at < cuts[k + 1]
    BY <1>1 DEF WorkerTurn, WorkerType
  <2> QED BY <1>1, <2>2, <2>3, <2>4 DEF Eof
<1>4. walk \in WalkType
  <2>1. w.walk \in WalkType /\ body \in Bodies
    BY <1>1 DEF WorkerType, MemoryInv, ReaderOK
  <2> HIDE DEF w
  <2> QED BY <1>3, <2>1, TurnTyped
<1>5. UNCHANGED <<file, phase, queue, active, held>>
  BY DEF WorkerTurn
<1>6. worker' = [worker EXCEPT ![k] = IF walk.status = "bad" THEN Finish(w, TRUE)
                                      ELSE IF walk.records # <<>> THEN Collect(w, walk)
                                      ELSE [w EXCEPT !.walk = walk, !.at = @ + 1]]
  BY DEF WorkerTurn
<1> HIDE DEF walk
<1>7. CASE walk.status = "bad"
  BY <1>1, <1>5, <1>6, <1>7, WorkerFinishes
<1>8. CASE walk.status # "bad" /\ walk.records # <<>>
  <2> DEFINE v == Collect(w, walk)
  <2>1. worker' = [worker EXCEPT ![k] = v]
    BY <1>6, <1>8
  <2> HIDE DEF w
  <2>2. /\ v \in WorkerType /\ v.at = w.at + 1 /\ Len(v.batch) = Len(w.batch) + 1
        /\ v.state = "run" => Len(v.batch) # BatchLen
    BY <1>1, <1>4, <1>8, CollectTyped DEF Full
  <2>3. k > active => Startup(v, queue[k])
    BY <1>1, <1>4, <1>8, StartupCollect
  <2> HIDE DEF v
  <2>4. v.at >= 1
    BY <1>3, <2>2
  <2>5. Len(v.batch) <= BatchLen /\ (v.state = "run" => Len(v.batch) < BatchLen)
    <3>1. Len(w.batch) \in Nat
      BY <1>1 DEF WorkerType
    <3> QED BY <1>1, <2>2, <3>1, Constants
  <2> QED BY <1>5, <2>1, <2>2, <2>3, <2>4, <2>5, WorkerAlone
<1>9. CASE walk.status # "bad" /\ walk.records = <<>>
  <2> DEFINE v == [w EXCEPT !.walk = walk, !.at = @ + 1]
  <2>1. worker' = [worker EXCEPT ![k] = v]
    BY <1>6, <1>9
  <2> HIDE DEF w
  <2>2. /\ v \in WorkerType /\ v.at = w.at + 1 /\ v.batch = w.batch /\ v.state = w.state
        /\ v.firstTime = w.firstTime /\ v.crossed = w.crossed
    BY <1>1, <1>4, StepTyped
  <2> HIDE DEF v
  <2>3. k > active => Startup(v, queue[k])
    BY <1>1, <2>2, StartupAfter DEF WorkerStates
  <2>4. v.at >= 1
    BY <1>3, <2>2
  <2> QED BY <1>1, <1>5, <2>1, <2>2, <2>3, <2>4, WorkerAlone
<1> QED BY <1>7, <1>8, <1>9

LEMMA SendKeeps ==
    ASSUME MemoryInv, NEW k \in DOMAIN worker, WorkerSends(k)
    PROVE  MemoryInv'
<1> DEFINE w == worker[k]
           m == IF w.state = "error" THEN [ok |-> FALSE] ELSE [ok |-> TRUE, records |-> w.batch]
           q == Append(queue[k], m)
           next == CASE w.state = "send" -> "run"
                     [] w.state = "last" /\ w.error -> "error"
                     [] OTHER -> "done"
           v == [w EXCEPT !.batch = <<>>, !.state = next]
<1>1. /\ w \in WorkerType /\ w.at >= 1 /\ w.state \in {"send", "last", "error"}
      /\ queue[k] \in Seq(Message) /\ ChunkOK(w, queue[k])
      /\ k > active => Startup(w, queue[k])
      /\ Len(queue[k]) < QueuedBatches
  BY ChunkFacts DEF WorkerSends, Sending
<1>2. UNCHANGED <<file, phase, active, held>> /\ queue' = [queue EXCEPT ![k] = q]
  BY DEF WorkerSends
<1>3. worker' = [worker EXCEPT ![k] = v]
  BY DEF WorkerSends
<1> HIDE DEF w
<1>4. m \in Message /\ (m.ok => w.state # "error" /\ m.records = w.batch)
  BY <1>1 DEF Message, WorkerType
<1>5. next \in {"run", "error", "done"}
  OBVIOUS
<1>6. /\ w.state = "send" => next = "run"
      /\ w.state = "last" => next \in {"error", "done"}
      /\ w.state = "error" => next = "done"
  OBVIOUS
<1> HIDE DEF next, m
<1>7. /\ v \in WorkerType /\ v.batch = <<>> /\ v.at = w.at /\ v.firstTime = w.firstTime
      /\ v.crossed = w.crossed /\ v.state = next
  <2>1. <<>> \in Seq(Records)
    OBVIOUS
  <2> QED BY <1>1, <1>5, <2>1 DEF WorkerType, WorkerStates
<1>8. q \in Seq(Message) /\ Len(q) = Len(queue[k]) + 1 /\ Len(queue[k]) \in Nat
  BY <1>1, <1>4
<1>9. ChunkOK(v, q)
  <2>1. Len(v.batch) = 0
    BY <1>7
  <2>2. Len(q) <= QueuedBatches
    BY <1>1, <1>8, Constants
  <2>3. \A i \in 1..Len(q) : q[i].ok => Len(q[i].records) <= BatchLen
    <3>1. \A i \in 1..Len(q) : IF i \in 1..Len(queue[k]) THEN q[i] = queue[k][i] ELSE q[i] = m
      BY <1>1, <1>4, <1>8
    <3>2. m.ok => Len(m.records) <= BatchLen
      BY <1>1, <1>4 DEF ChunkOK
    <3>3. \A i \in 1..Len(queue[k]) : queue[k][i].ok => Len(queue[k][i].records) <= BatchLen
      BY <1>1 DEF ChunkOK
    <3> HIDE DEF q
    <3> QED BY <3>1, <3>2, <3>3
  <2> QED BY <2>1, <2>2, <2>3, Constants DEF ChunkOK
<1> HIDE DEF v
<1>10. k > active => Startup(v, q)
  BY <1>1, <1>4, <1>6, <1>7, StartupSent
<1> HIDE DEF q
<1>11. v.at >= 1
  BY <1>1, <1>7
<1> QED BY <1>2, <1>3, <1>7, <1>8, <1>9, <1>10, <1>11, WorkerMoves

\* Every step of a worker.
LEMMA WorkKeeps ==
    ASSUME MemoryInv, NEW k \in DOMAIN worker, Work(k)
    PROVE  MemoryInv'
<1>0. /\ worker[k] \in WorkerType /\ worker[k].at >= 1 /\ ChunkOK(worker[k], queue[k])
      /\ k > active => Startup(worker[k], queue[k])
      /\ k \in Nat /\ active \in Nat
  BY ChunkFacts DEF MemoryInv, ThreadsOK
<1> DEFINE w == worker[k]
<1>1. CASE WorkerTurn(k)
  BY <1>1, TurnKeeps
<1>2. CASE WorkerEof(k)
  <2>1. PICK failed \in BOOLEAN : failed = (~Succeeded(EndWalk(w.walk, w.at)) \/ ~Reached(k))
    OBVIOUS
  <2>2. worker' = [worker EXCEPT ![k] = Finish(w, failed)]
    BY <1>2, <2>1, Zenon DEF WorkerEof
  <2>3. w.state = "run" /\ UNCHANGED <<file, phase, queue, active, held>>
    BY <1>2 DEF WorkerEof
  <2> QED BY <2>2, <2>3, WorkerFinishes
<1>3. CASE WorkerProgress(k)
  <2> DEFINE v == [w EXCEPT !.state = "send"]
  <2>1. /\ worker' = [worker EXCEPT ![k] = v] /\ ~(k > active)
        /\ UNCHANGED <<file, phase, queue, active, held>>
    BY <1>0, <1>3 DEF WorkerProgress, Reports
  <2> HIDE DEF w
  <2>2. v \in WorkerType /\ v.batch = w.batch /\ v.at = w.at /\ v.state = "send"
    BY <1>0 DEF WorkerType, WorkerStates, w
  <2> HIDE DEF v
  <2>3. Len(v.batch) <= BatchLen /\ v.at >= 1
    BY <1>0, <2>2 DEF ChunkOK, w
  <2> QED BY <2>1, <2>2, <2>3, WorkerAlone
<1>4. CASE WorkerReadFails(k)
  BY <1>4, WorkerFinishes DEF WorkerReadFails
<1>5. CASE WorkerPanics(k) \/ WorkerUnheard(k)
  <2> DEFINE state == IF WorkerPanics(k) THEN "panicked" ELSE "done"
             v == [w EXCEPT !.state = state, !.batch = <<>>]
  <2>1. /\ worker' = [worker EXCEPT ![k] = v]
        /\ UNCHANGED <<file, phase, queue, active, held>>
        /\ w.state \in {"run", "send", "last", "error"}
    BY <1>0, <1>5 DEF WorkerPanics, WorkerUnheard, Sending, WorkerType
  <2> HIDE DEF w
  <2>2. /\ v \in WorkerType /\ v.batch = <<>> /\ v.at = w.at
        /\ v.firstTime = w.firstTime /\ v.crossed = w.crossed
        /\ v.state \in {"panicked", "done"}
    <3>1. <<>> \in Seq(Records) /\ state \in {"panicked", "done"}
      OBVIOUS
    <3> HIDE DEF state
    <3> QED BY <1>0, <3>1 DEF WorkerType, WorkerStates, w
  <2> HIDE DEF v
  <2>3. Len(v.batch) <= BatchLen /\ v.at >= 1
    BY <1>0, <2>2, Constants DEF w
  <2>4. ASSUME k > active PROVE Startup(v, queue[k])
    <3>1. Startup(w, queue[k])
      BY <1>0, <2>4 DEF w
    <3>2. \E a, b, c \in Nat : ShortIn(queue[k]) \subseteq {a, b, c}
      BY <3>1 DEF Startup
    <3>3. w.firstTime = None => ~w.crossed /\ ShortIn(queue[k]) = {}
      BY <3>1 DEF Startup
    <3> QED BY <2>2, <3>2, <3>3 DEF Startup, ShortNext
  <2> QED BY <2>1, <2>2, <2>3, <2>4, WorkerAlone
<1>6. CASE WorkerSends(k)
  BY <1>6, SendKeeps
<1> QED BY <1>1, <1>2, <1>3, <1>4, <1>5, <1>6 DEF Work

-----------------------------------------------------------------------------
(* The calling thread moves. *)

\* Steps outside parallel_full, in which no thread exists.
LEMMA NoThreads ==
    ASSUME MemoryInv, worker = <<>>, UNCHANGED <<worker, queue, active, held>>,
           ReaderOK', phase \notin {"drain", "join"}, phase' # "drain"
    PROVE  MemoryInv'
<1>1. Len(worker) = 0 /\ worker' = worker
  OBVIOUS
<1>2. ThreadsOK'
  BY <1>1 DEF MemoryInv, ThreadsOK
<1>3. BatchesOK'
  BY <1>1 DEF MemoryInv, BatchesOK, Budget
<1> QED BY <1>2, <1>3 DEF MemoryInv

LEMMA OpenKeeps ==
    ASSUME MemoryInv, ParallelOpen
    PROVE  MemoryInv'
<1>1. worker = <<>> /\ UNCHANGED <<worker, queue, active, held>>
  BY DEF ParallelOpen, MemoryInv, ThreadsOK, threads, Streaming
<1>2. PICK c \in CutsOf(body) :
        /\ cuts' = c
        /\ encodings' = MergedEncodings([k \in 1..(Len(c) - 1) |-> OpeningChunk(body, c, k)])
  BY DEF ParallelOpen
<1>3. encodings' \in [Signals -> Encodings]
  <2>1. \A parts : MergedEncodings(parts) \in [Signals -> Encodings]
    BY Constants DEF MergedEncodings, Encodings
  <2> QED BY <1>2, <2>1
<1>4. PICK n \in 3..(MaxChunks + 1) : c \in [1..n -> 1..(Len(body) + 1)]
  BY DEF CutsOf
<1>5. Len(c) = n /\ n \in Nat /\ \A k \in 1..n : c[k] \in 1..(Len(body) + 1)
  <2>1. n \in Nat
    BY ParallelAssumption
  <2> QED BY <1>4, <2>1
<1>6. body' = body /\ phase = "closed" /\ phase' = "idle" /\ body \in Bodies
  BY DEF ParallelOpen, MemoryInv, ReaderOK
<1>7. ReaderOK'
  BY <1>2, <1>3, <1>4, <1>5, <1>6 DEF ReaderOK, Eof, Streaming
<1> QED BY <1>1, <1>6, <1>7, NoThreads

LEMMA OperationKeeps ==
    ASSUME MemoryInv, Operation
    PROVE  MemoryInv'
<1>1. CASE ParallelOpen
  BY <1>1, OpenKeeps
<1>2. CASE OpenSerially
  <2>1. /\ worker = <<>> /\ UNCHANGED <<worker, queue, active, held>>
        /\ phase = "closed" /\ phase' \in {"idle", "failed"}
        /\ UNCHANGED <<body, cuts, parallel>>
    BY <1>2 DEF OpenSerially, MemoryInv, ThreadsOK, threads, Streaming
  <2>2. ~parallel
    BY <2>1 DEF MemoryInv, ReaderOK
  <2>3. ReaderOK'
    BY <2>1, <2>2 DEF MemoryInv, ReaderOK, Eof, Streaming
  <2> QED BY <2>1, <2>3, NoThreads
<1>3. CASE \E t \in Ends : ParallelPrefix(t) \/ ReadFrom(t) \/ ReadResumed(t)
  <2>1. /\ phase = "idle" /\ UNCHANGED file
        /\ phase' \in {"idle", "serial"} \/ (phase' = "spawn" /\ parallel)
        /\ UNCHANGED <<worker, queue, active, held>>
    BY <1>3 DEF ParallelPrefix, ReadFrom, ReadResumed, threads, Streams
  <2>2. worker = <<>>
    BY <2>1 DEF MemoryInv, ThreadsOK, Streaming
  <2>3. ReaderOK' /\ phase' # "drain"
    BY <2>1 DEF MemoryInv, ReaderOK, Eof, Streaming, file
  <2> QED BY <2>1, <2>2, <2>3, NoThreads
<1> QED BY <1>1, <1>2, <1>3 DEF Operation

\* The receivers are dropped.
LEMMA DropKeeps ==
    ASSUME MemoryInv, DropReceivers, phase \in Streaming, phase' \in {"join", "fallback"},
           phase' = "fallback" => phase = "spawn",
           UNCHANGED <<file, worker, active>>, held' \in {None, held}
    PROVE  MemoryInv'
<1>1. /\ worker \in Seq(WorkerType) /\ DOMAIN worker = 1..Len(worker) /\ Len(worker) \in Nat
      /\ worker' = worker
  BY DEF MemoryInv, ThreadsOK
<1>2. queue' = [k \in 1..Len(worker) |-> <<>>]
  BY <1>1 DEF DropReceivers, Spawned
<1>3. queue' \in Seq(Seq(Message)) /\ Len(queue') = Len(worker)
  <2>1. \A k \in 1..Len(worker) : <<>> \in Seq(Message)
    OBVIOUS
  <2>2. queue' \in [1..Len(worker) -> Seq(Message)]
    BY <1>2, <2>1
  <2>3. queue' \in Seq(Seq(Message))
    BY <1>1, <2>2, SeqDef
  <2>4. Len(queue') = Len(worker)
    BY <1>1, <1>2
  <2> QED BY <2>3, <2>4
<1>4. ReaderOK'
  BY DEF MemoryInv, ReaderOK, Eof, Streaming, file
<1>5. ThreadsOK'
  BY <1>1, <1>3 DEF MemoryInv, ThreadsOK, Streaming, file
<1>6. BatchesOK'
  <2>1. \A k \in 1..Len(worker) :
           /\ ChunkOK(worker[k], <<>>)
           /\ k > active => Startup(worker[k], <<>>)
    <3>1. TAKE k \in 1..Len(worker)
    <3>2. ChunkOK(worker[k], queue[k]) /\ (k > active => Startup(worker[k], queue[k]))
      BY <1>1, ChunkFacts
    <3>3. ChunkOK(worker[k], <<>>)
      BY <3>2, Constants DEF ChunkOK
    <3> QED BY <3>2, <3>3, StartupEmpty
  <2>2. \A k \in 1..Len(worker) : worker'[k] = worker[k] /\ queue'[k] = <<>>
    BY <1>1, <1>2
  <2>3. held' # None => Len(held') <= BatchLen
    BY DEF MemoryInv, BatchesOK, Budget
  <2>4. Budget'
    BY <1>1, <2>1, <2>2, <2>3 DEF Budget, ChunkOK
  <2>5. \A k \in 1..Len(worker') :
          /\ worker'[k].state = "run" => Len(worker'[k].batch) < BatchLen
          /\ k > active' => Startup(worker'[k], queue'[k])
    BY <1>1, <2>1, <2>2 DEF ChunkOK
  <2> QED BY <2>4, <2>5 DEF BatchesOK, Startup, ShortIn, ShortNext
<1> QED BY <1>4, <1>5, <1>6 DEF MemoryInv

LEMMA LeaveKeeps ==
    ASSUME MemoryInv, phase \in Streaming, NEW how, Leave(how)
    PROVE  MemoryInv'
BY DropKeeps DEF Leave

\* A worker starts with nothing to send.
LEMMA FreshFacts ==
    ASSUME NEW k, cuts[k] \in Nat, encodings \in [Signals -> Encodings]
    PROVE  LET v == FreshWorker(k)
           IN /\ v \in WorkerType /\ v.at = cuts[k] /\ ChunkOK(v, <<>>) /\ Startup(v, <<>>)
<1> DEFINE p == AtStart(cuts[k])
           walk == StartWalk(p, encodings)
           v == FreshWorker(k)
<1>1. walk = [time |-> 0, span |-> None, mode |-> "body", status |-> "go", position |-> None,
              records |-> <<>>, encodings |-> encodings, seen |-> {}]
  BY DEF StartWalk, AtStart
<1>2. walk \in WalkType
  <2>1. <<>> \in Seq(Records)
    OBVIOUS
  <2> QED BY <1>1, <2>1 DEF WalkType
<1>3. v = [state |-> "run", walk |-> walk, at |-> cuts[k], batch |-> <<>>,
           firstTime |-> None, crossed |-> FALSE, error |-> FALSE]
  BY DEF FreshWorker
<1> HIDE DEF walk, v
<1>4. v \in WorkerType
  <2>1. <<>> \in Seq(Records)
    OBVIOUS
  <2> QED BY <1>2, <1>3, <2>1 DEF WorkerType, WorkerStates
<1>5. /\ v.state = "run" /\ v.batch = <<>> /\ v.firstTime = None /\ v.at = cuts[k]
      /\ v.crossed = FALSE
  BY <1>3
<1>6. ChunkOK(v, <<>>)
  BY <1>5, Constants DEF ChunkOK
<1>7. ShortIn(<<>>) = {}
  BY DEF ShortIn
<1>8. /\ \E a \in Nat : ShortIn(<<>>) \subseteq {a}
      /\ \E a, b \in Nat : ShortIn(<<>>) \subseteq {a, b}
      /\ \E a, b, c \in Nat : ShortIn(<<>>) \subseteq {a, b, c}
  BY <1>7
<1>9. Startup(v, <<>>)
  BY <1>5, <1>7, <1>8 DEF Startup
<1> QED BY <1>4, <1>5, <1>6, <1>9 DEF v

LEMMA SpawnKeeps ==
    ASSUME MemoryInv, Spawn
    PROVE  MemoryInv'
<1>1. /\ worker \in Seq(WorkerType) /\ queue \in Seq(Seq(Message)) /\ Len(queue) = Len(worker)
      /\ Len(worker) \in Nat /\ Len(cuts) \in Nat /\ DOMAIN worker = 1..Len(worker)
  BY DEF MemoryInv, ThreadsOK, ReaderOK
<1>2. UNCHANGED <<file, active, held>> /\ phase = "spawn" /\ phase' \in {"spawn", "drain"}
  BY DEF Spawn
<1>3. ReaderOK'
  BY <1>2 DEF MemoryInv, ReaderOK, Eof, Streaming, file
<1>4. CASE Len(worker) < Len(cuts) - 1
  <2> DEFINE n == Len(worker) + 1
             v == FreshWorker(n)
  <2>1. worker' = Append(worker, v) /\ queue' = Append(queue, <<>>) /\ phase' = phase
    BY <1>4 DEF Spawn
  <2>2. cuts[n] \in 1..Eof /\ parallel /\ body \in Bodies
    BY <1>1, <1>2, <1>4 DEF MemoryInv, ReaderOK, Streaming
  <2>3. cuts[n] \in Nat /\ cuts[n] >= 1 /\ encodings \in [Signals -> Encodings]
    <3>1. Len(body) \in Nat
      BY <2>2, ParallelAssumption
    <3>2. encodings \in [Signals -> Encodings]
      BY <2>2 DEF MemoryInv, ReaderOK
    <3> QED BY <2>2, <3>1, <3>2 DEF Eof
  <2>4. v \in WorkerType /\ v.at = cuts[n] /\ ChunkOK(v, <<>>) /\ Startup(v, <<>>)
    BY <2>3, FreshFacts
  <2> HIDE DEF v
  <2>5. /\ worker' \in Seq(WorkerType) /\ Len(worker') = n
        /\ queue' \in Seq(Seq(Message)) /\ Len(queue') = n
    <3>1. <<>> \in Seq(Message)
      OBVIOUS
    <3> QED BY <1>1, <2>1, <2>4, <3>1
  <2>6. \A j \in 1..n : /\ worker'[j] = IF j = n THEN v ELSE worker[j]
                        /\ queue'[j] = IF j = n THEN <<>> ELSE queue[j]
    BY <1>1, <2>1, <2>4
  <2>7. ThreadsOK'
    <3>1. \A j \in 1..n : worker'[j].at >= 1
      BY <1>1, <2>3, <2>4, <2>6 DEF MemoryInv, ThreadsOK
    <3>2. n < Len(cuts)
      BY <1>1, <1>4
    <3> QED BY <1>2, <2>1, <2>5, <3>1, <3>2 DEF MemoryInv, ThreadsOK, Streaming, file
  <2>8. \A j \in 1..n : /\ ChunkOK(worker'[j], queue'[j])
                        /\ j > active => Startup(worker'[j], queue'[j])
    <3>1. TAKE j \in 1..n
    <3>2. CASE j = n
      BY <2>4, <2>6, <3>2
    <3>3. CASE j # n
      <4>1. j \in DOMAIN worker /\ worker'[j] = worker[j] /\ queue'[j] = queue[j]
        BY <1>1, <2>6, <3>3
      <4> QED BY <4>1, ChunkFacts
    <3> QED BY <3>2, <3>3
  <2>9. BatchesOK'
    <3>1. DOMAIN worker' = 1..n
      BY <2>5
    <3>2. held' # None => Len(held') <= BatchLen
      BY <1>2 DEF MemoryInv, BatchesOK, Budget
    <3>3. Budget'
      BY <2>8, <3>1, <3>2 DEF Budget, ChunkOK
    <3>4. \A k \in 1..Len(worker') :
            /\ worker'[k].state = "run" => Len(worker'[k].batch) < BatchLen
            /\ k > active' => Startup(worker'[k], queue'[k])
      BY <1>2, <2>5, <2>8 DEF ChunkOK
    <3> QED BY <3>3, <3>4 DEF BatchesOK, Startup, ShortIn, ShortNext
  <2> QED BY <1>3, <2>7, <2>9 DEF MemoryInv
<1>5. CASE ~(Len(worker) < Len(cuts) - 1)
  <2>1. phase' = "drain" /\ worker' = worker /\ queue' = queue
    BY <1>5 DEF Spawn
  <2>2. BatchesOK'
    BY <1>2, <2>1 DEF MemoryInv, BatchesOK, Budget, Startup, ShortIn, ShortNext
  <2>3. ThreadsOK'
    <3>1. /\ phase = "spawn" /\ parallel /\ Len(cuts) >= 3 /\ active = 1
          /\ cuts' = cuts /\ active' = active /\ held' = held
      BY <1>2 DEF MemoryInv, ThreadsOK, ReaderOK, Streaming, file
    <3>2. Len(worker) = Len(cuts) - 1 /\ active \in 1..Len(worker)
      <4>1. Len(worker) < Len(cuts)
        <5>1. CASE worker = <<>>
          BY <3>1, <5>1
        <5> QED BY <5>1 DEF MemoryInv, ThreadsOK
      <4> QED BY <1>1, <1>5, <3>1, <4>1
    <3> QED BY <2>1, <3>1, <3>2 DEF MemoryInv, ThreadsOK, Streaming
  <2> QED BY <1>3, <2>2, <2>3 DEF MemoryInv
<1> QED BY <1>4, <1>5

LEMMA ReceiveKeeps ==
    ASSUME MemoryInv, Receive
    PROVE  MemoryInv'
<1>1. phase = "drain" /\ queue[active] # <<>>
  BY DEF Receive
<1>2. /\ worker \in Seq(WorkerType) /\ queue \in Seq(Seq(Message)) /\ Len(queue) = Len(worker)
      /\ active \in 1..Len(worker) /\ active \in DOMAIN worker /\ active \in Nat
  BY <1>1 DEF MemoryInv, ThreadsOK
<1> DEFINE q == queue[active]
           m == Head(q)
<1>3. q \in Seq(Message) /\ q # <<>> /\ ChunkOK(worker[active], q)
  BY <1>1, <1>2, ChunkFacts
<1>4. CASE m.ok
  <2>1. /\ held' = m.records /\ queue' = [queue EXCEPT ![active] = Tail(q)]
        /\ UNCHANGED <<file, phase, worker, active>>
    BY <1>2, <1>4 DEF Receive
  <2> HIDE DEF q
  <2>2. /\ Tail(q) \in Seq(Message) /\ Len(Tail(q)) = Len(q) - 1 /\ Len(q) \in Nat
        /\ \A i \in 1..Len(Tail(q)) : i + 1 \in 1..Len(q) /\ Tail(q)[i] = q[i + 1]
        /\ m = q[1] /\ 1 \in 1..Len(q) /\ m \in Message
    BY <1>3
  <2>3. m.records \in Seq(Records) /\ Len(m.records) <= BatchLen
    <3>1. m.records \in Seq(Records)
      <4> HIDE DEF m
      <4> QED BY <1>4, <2>2 DEF Message
    <3>2. q[1].ok => Len(q[1].records) <= BatchLen
      BY <1>3, <2>2 DEF ChunkOK
    <3> QED BY <1>4, <2>2, <3>1, <3>2
  <2>4. ChunkOK(worker[active], Tail(q))
    <3>1. Len(Tail(q)) <= QueuedBatches
      BY <1>3, <2>2, Constants DEF ChunkOK
    <3>2. \A i \in 1..Len(Tail(q)) : Tail(q)[i].ok => Len(Tail(q)[i].records) <= BatchLen
      BY <1>3, <2>2 DEF ChunkOK
    <3> QED BY <1>3, <3>1, <3>2 DEF ChunkOK
  <2> HIDE DEF m
  <2>5. /\ queue' \in Seq(Seq(Message)) /\ Len(queue') = Len(worker)
        /\ \A k \in 1..Len(worker) : queue'[k] = IF k = active THEN Tail(q) ELSE queue[k]
    BY <1>2, <2>1, <2>2
  <2>6. ReaderOK'
    BY <2>1 DEF MemoryInv, ReaderOK, Eof, file
  <2>7. ThreadsOK'
    BY <1>1, <2>1, <2>3, <2>5 DEF MemoryInv, ThreadsOK, file
  <2>8. \A k \in 1..Len(worker) : /\ ChunkOK(worker[k], queue'[k])
                                  /\ k > active => Startup(worker[k], queue'[k])
    <3>1. TAKE k \in 1..Len(worker)
    <3>2. CASE k = active
      BY <1>2, <2>4, <2>5, <3>2
    <3>3. CASE k # active
      <4>1. k \in DOMAIN worker /\ queue'[k] = queue[k]
        BY <1>2, <2>5, <3>3
      <4> QED BY <4>1, ChunkFacts
    <3> QED BY <3>2, <3>3
  <2>9. BatchesOK'
    <3>1. DOMAIN worker' = 1..Len(worker) /\ worker' = worker
      BY <1>2, <2>1
    <3>2. Budget'
      BY <2>1, <2>3, <2>8, <3>1 DEF Budget, ChunkOK
    <3>3. \A k \in 1..Len(worker') :
            /\ worker'[k].state = "run" => Len(worker'[k].batch) < BatchLen
            /\ k > active' => Startup(worker'[k], queue'[k])
      BY <2>1, <2>8 DEF ChunkOK
    <3> QED BY <3>2, <3>3 DEF BatchesOK, Startup, ShortIn, ShortNext
  <2> QED BY <2>6, <2>7, <2>9 DEF MemoryInv
<1>5. CASE ~m.ok
  BY <1>1, <1>5, LeaveKeeps DEF Receive, Streaming
<1> QED BY <1>4, <1>5

\* The consumer moves on, with the threads and the channels as they are.
LEMMA ConsumerKeeps ==
    ASSUME MemoryInv, phase = "drain", UNCHANGED <<file, phase, worker, queue>>,
           active' \in Nat, active' >= active, active' <= Len(worker), held' \in {None, held}
    PROVE  MemoryInv'
<1>1. ReaderOK'
  BY DEF MemoryInv, ReaderOK, Eof, file
<1>2. active' \in 1..Len(worker) /\ active \in Nat
  BY DEF MemoryInv, ThreadsOK
<1>3. ThreadsOK'
  BY <1>2 DEF MemoryInv, ThreadsOK, file
<1>4. Budget'
  BY DEF MemoryInv, BatchesOK, Budget
<1>5. \A k \in 1..Len(worker) :
        /\ worker[k].state = "run" => Len(worker[k].batch) < BatchLen
        /\ k > active' => Startup(worker[k], queue[k])
  BY <1>2 DEF MemoryInv, BatchesOK
<1>6. BatchesOK'
  BY <1>4, <1>5 DEF BatchesOK, Startup, ShortIn, ShortNext
<1> QED BY <1>1, <1>3, <1>6 DEF MemoryInv

LEMMA CallerKeeps ==
    ASSUME MemoryInv, Caller
    PROVE  MemoryInv'
<1>1. CASE Spawn
  BY <1>1, SpawnKeeps
<1>2. CASE SpawnFails
  BY <1>2, DropKeeps DEF SpawnFails, Streaming
<1>3. CASE Receive
  BY <1>3, ReceiveKeeps
<1>4. CASE Visit
  <2>1. CASE \E n \in 1..Len(held), how \in {"break", "unwound"} : Leave(how)
    BY <1>4, <2>1, LeaveKeeps DEF Visit, Streaming
  <2>2. CASE held' = None /\ UNCHANGED <<file, phase, worker, queue, active>>
    <3>1. phase = "drain" /\ active \in Nat /\ active <= Len(worker)
      BY <1>4 DEF Visit, MemoryInv, ThreadsOK
    <3> QED BY <2>2, <3>1, ConsumerKeeps
  <2> QED BY <1>4, <2>1, <2>2 DEF Visit
<1>5. CASE NextChunk
  <2>1. /\ phase = "drain" /\ active \in Nat /\ Len(worker) = Len(cuts) - 1
        /\ Len(cuts) \in Nat
    BY <1>5 DEF NextChunk, MemoryInv, ThreadsOK, ReaderOK
  <2>2. CASE active < Len(cuts) - 1
    <3>1. active' = active + 1 /\ UNCHANGED <<file, phase, worker, queue, held>>
      BY <1>5, <2>2 DEF NextChunk
    <3>2. active' \in Nat /\ active' >= active /\ active' <= Len(worker)
      BY <2>1, <2>2, <3>1
    <3> QED BY <2>1, <3>1, <3>2, ConsumerKeeps
  <2>3. CASE ~(active < Len(cuts) - 1)
    BY <1>5, <2>1, <2>3, LeaveKeeps DEF NextChunk, Streaming
  <2> QED BY <2>2, <2>3
<1>6. CASE Join \/ Fallback
  <2>1. /\ worker' = <<>> /\ queue' = <<>> /\ active' = 1 /\ held' = None
        /\ UNCHANGED file /\ phase' \in {"idle", "serial"}
    BY <1>6 DEF Join, Fallback, EndScope, Return
  <2>2. ReaderOK'
    BY <2>1 DEF MemoryInv, ReaderOK, Eof, Streaming, file
  <2>3. ThreadsOK'
    <3>1. <<>> \in Seq(WorkerType) /\ <<>> \in Seq(Seq(Message)) /\ Len(<<>>) = 0
      OBVIOUS
    <3> QED BY <2>1, <3>1 DEF ThreadsOK
  <2>4. BatchesOK'
    BY <2>1 DEF BatchesOK, Budget
  <2> QED BY <2>2, <2>3, <2>4 DEF MemoryInv
<1> QED BY <1>1, <1>2, <1>3, <1>4, <1>5, <1>6 DEF Caller

LEMMA MemoryInit ==
    ASSUME Init
    PROVE  MemoryInv
<1>1. Len(body) \in Nat /\ body \in Bodies
  BY ParallelAssumption DEF Init
<1>2. ReaderOK
  <2>1. Len(cuts) = 2 /\ cuts[1] = 1 /\ cuts[2] = Len(body) + 1
    BY DEF Init
  <2>2. \A k \in 1..2 : k = 1 \/ k = 2
    OBVIOUS
  <2> QED BY <1>1, <2>1, <2>2 DEF Init, ReaderOK, Eof, Streaming
<1>3. ThreadsOK
  <2>1. <<>> \in Seq(WorkerType) /\ <<>> \in Seq(Seq(Message)) /\ Len(<<>>) = 0
    OBVIOUS
  <2> QED BY <2>1 DEF Init, ThreadsOK
<1>4. BatchesOK
  BY DEF Init, BatchesOK, Budget
<1> QED BY <1>2, <1>3, <1>4 DEF MemoryInv

LEMMA MemoryStep ==
    ASSUME MemoryInv, [Next]_vars
    PROVE  MemoryInv'
<1>1. CASE Operation
  BY <1>1, OperationKeeps
<1>2. CASE Caller
  BY <1>2, CallerKeeps
<1>3. CASE SerialRead
  <2>1. /\ phase = "serial" /\ phase' = "idle" /\ UNCHANGED <<file, worker, queue, active, held>>
    BY <1>3 DEF SerialRead, Return, threads
  <2>2. worker = <<>>
    BY <2>1 DEF MemoryInv, ThreadsOK, Streaming
  <2>3. ReaderOK'
    BY <2>1 DEF MemoryInv, ReaderOK, Eof, Streaming, file
  <2> QED BY <2>1, <2>2, <2>3, NoThreads
<1>4. CASE \E k \in DOMAIN worker : Work(k)
  BY <1>4, WorkKeeps
<1>5. CASE UNCHANGED vars
  <2>1. UNCHANGED <<body, cuts, encodings, parallel, phase, worker, queue, active, held>>
    BY <1>5 DEF vars, file, threads
  <2>2. ReaderOK'
    BY <2>1 DEF MemoryInv, ReaderOK, Eof
  <2>3. ThreadsOK'
    BY <2>1 DEF MemoryInv, ThreadsOK
  <2>4. BatchesOK'
    BY <2>1 DEF MemoryInv, BatchesOK, Budget, Startup, ShortIn, ShortNext
  <2> QED BY <2>2, <2>3, <2>4 DEF MemoryInv
<1> QED BY <1>1, <1>2, <1>3, <1>4, <1>5 DEF Next

LEMMA MemoryFollows ==
    ASSUME MemoryInv
    PROVE  MemoryBounded
<1>1. FutureBatchesFull
  <2>1. SUFFICES ASSUME NEW k \in DOMAIN worker, k > active
                 PROVE  FewShort(worker[k], queue[k])
    BY DEF FutureBatchesFull, FewShort, ShortIn
  <2> QED BY <2>1, ChunkFacts, StartupFew
<1> QED BY <1>1 DEF MemoryBounded, MemoryInv, BatchesOK

-----------------------------------------------------------------------------

\* The budget of parallel_full holds for every body, cut, channel capacity and batch
\* length and in every interleaving of the workers and the consumer: what is queued,
\* collected or visited never exceeds the batches the reader budgets, and a chunk the
\* consumer has not reached has at most the two start-up batches and its last one
\* shorter than batch_len.
THEOREM MemoryStaysBounded == Spec => []MemoryBounded
<1>1. Init => MemoryInv
  BY MemoryInit
<1>2. MemoryInv /\ [Next]_vars => MemoryInv'
  BY MemoryStep
<1>3. MemoryInv => MemoryBounded
  BY MemoryFollows
<1> QED BY <1>1, <1>2, <1>3, PTL DEF Spec
=============================================================================
