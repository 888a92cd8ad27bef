-------------------------- MODULE QueryEngineProofs --------------------------
(***************************************************************************)
(* Proofs about QueryEngine, for every plan, source, reader and sequence   *)
(* of calls: the inductive invariant EngineInv and what follows from it.   *)
(***************************************************************************)
EXTENDS QueryEngine, LeastElement, TLAPS

-----------------------------------------------------------------------------
(* What a source means. *)

LEMMA PlanFacts ==
    /\ MaxTick \in Nat /\ NumSlots \in Nat /\ MaxCount \in Nat \ {0}
    /\ Missing \notin Value
    /\ Selected \subseteq Slot
BY PlanAssumption

\* Records of a source, as the proofs use them.
LEMMA SourceFacts ==
    ASSUME NEW h \in Histories
    PROVE  /\ Len(h.records) \in Nat
           /\ \A i \in 1..Len(h.records) : h.records[i].time \in Time
           /\ \A i, j \in 1..Len(h.records) :
                 i <= j => h.records[i].time <= h.records[j].time
BY SourceAssumption DEF IsRecord

\* A base slot shows its base's last record, or is Missing when there is none.
LEMMA BaseCases ==
    ASSUME NEW h \in Histories, NEW s \in Slot \ (ComputedSlots \cup EventSlots),
           NEW t \in Time
    PROVE  \/ /\ \A i \in 1..Len(h.records) :
                    ~(h.records[i].base = SlotBase[s] /\ h.records[i].time <= t)
              /\ h.obs[s][t] = Missing
           \/ \E i \in 1..Len(h.records) :
                 /\ IsLast(h, SlotBase[s], t, i)
                 /\ h.obs[s][t] = Project(s, h.records[i].value)
                 /\ h.obs[s][t] # Missing
<1> DEFINE T == {i \in 1..Len(h.records) :
                    h.records[i].base = SlotBase[s] /\ h.records[i].time <= t}
<1>1. CASE T = {}
  BY <1>1, MeaningAssumption
<1>2. CASE T # {}
  <2>1. PICK i \in T : \A j \in T : j <= i
    <3>1. Len(h.records) \in Nat /\ T \subseteq 1..Len(h.records)
      BY SourceFacts
    <3> HIDE DEF T
    <3> QED BY <1>2, <3>1, GreatestPosition
  <2>2. IsLast(h, SlotBase[s], t, i)
    BY <2>1 DEF IsLast
  <2>3. h.obs[s][t] = Project(s, h.records[i].value)
    BY <2>2, MeaningAssumption
  <2>4. Project(s, h.records[i].value) \in Value
    BY SourceAssumption
  <2> QED BY <2>2, <2>3, <2>4, PlanFacts
<1> QED BY <1>1, <1>2
\* The operands of a computed slot are earlier slots.
LEMMA InputsEarlier ==
    ASSUME NEW s \in ComputedSlots
    PROVE  \A i \in Inputs(s) : i \in Slot /\ i < s /\ i \notin EventSlots
BY PlanAssumption DEF Inputs, ComputedSlots, Slot

LEMMA AssembleSame ==
    ASSUME NEW s \in ComputedSlots, NEW c, NEW d, \A i \in Inputs(s) : c[i] = d[i]
    PROVE  Assemble(s, c) = Assemble(s, d)
BY DEF Assemble, Inputs

LEMMA ObsComputed ==
    ASSUME NEW h \in Histories, NEW s \in ComputedSlots, NEW t \in Time, NEW c,
           \A i \in Inputs(s) : c[i] = h.obs[i][t]
    PROVE  h.obs[s][t] = Assemble(s, c)
<1> DEFINE o == [i \in Slot |-> h.obs[i][t]]
<1>1. h.obs[s][t] = Assemble(s, o)
  BY MeaningAssumption
<1>2. \A i \in Inputs(s) : o[i] = c[i]
  BY InputsEarlier
<1> HIDE DEF o
<1> QED BY <1>1, <1>2, AssembleSame

\* A computed slot is Missing exactly when all its operands are.
LEMMA ComputedMissing ==
    ASSUME NEW h \in Histories, NEW s \in ComputedSlots, NEW t \in Time
    PROVE  h.obs[s][t] = Missing <=> \A i \in Inputs(s) : h.obs[i][t] = Missing
<1> DEFINE o == [i \in Slot |-> h.obs[i][t]]
<1>1. h.obs[s][t] = Assemble(s, o)
  BY MeaningAssumption
<1>2. \A i \in Inputs(s) : o[i] = h.obs[i][t]
  BY InputsEarlier
<1>3. ASSUME \E i \in Inputs(s) : h.obs[i][t] # Missing
      PROVE  Assemble(s, o) \in Value
  <2> DEFINE f == [k \in 1..Width(s) |-> IF o[From[s][k].of] = Missing THEN "x"
                                        ELSE o[From[s][k].of][From[s][k].bit]]
  <2>1. Assemble(s, o) = f
    BY <1>2, <1>3 DEF Assemble
  <2>2. ASSUME NEW k \in 1..Width(s), o[From[s][k].of] # Missing
        PROVE  o[From[s][k].of][From[s][k].bit] \in Symbols
    <3> DEFINE i == From[s][k].of
    <3>1. i \in Slot /\ From[s][k].bit \in 1..Width(i)
      BY PlanAssumption DEF ComputedSlots, Slot
    <3>2. o[i] \in Value /\ DOMAIN o[i] = 1..Width(i)
      <4> HIDE DEF i
      <4> QED BY <2>2, <3>1, MeaningAssumption DEF i
    <3>3. PICK r \in Slot : o[i] \in [1..Width(r) -> Symbols]
      BY <3>2 DEF Value
    <3> QED BY <3>1, <3>2, <3>3
  <2>3. "x" \in Symbols
    BY PlanAssumption
  <2>4. f \in [1..Width(s) -> Symbols]
    BY <2>2, <2>3
  <2>5. s \in Slot
    BY DEF ComputedSlots
  <2> QED BY <2>1, <2>4, <2>5 DEF Value
<1>4. ASSUME \A i \in Inputs(s) : h.obs[i][t] = Missing
      PROVE  Assemble(s, o) = Missing
  BY <1>2, <1>4 DEF Assemble
<1> QED BY <1>1, <1>3, <1>4, PlanFacts

LEMMA SlotCases == Slot = (Slot \ (ComputedSlots \cup EventSlots)) \cup ComputedSlots \cup EventSlots
BY DEF ComputedSlots, EventSlots

\* Ticks without records change nothing.
LEMMA QuietObs ==
    ASSUME NEW h \in Histories, NEW t \in Time, NEW u \in Time, t <= u,
           \A i \in 1..Len(h.records) : h.records[i].time <= t \/ h.records[i].time > u
    PROVE  \A s \in Slot : h.obs[s][u] = h.obs[s][t]
<1> DEFINE Bad == {s \in Slot : h.obs[s][u] # h.obs[s][t]}
<1> SUFFICES ASSUME Bad # {} PROVE FALSE
  OBVIOUS
<1>1. PICK s \in Bad : \A r \in Bad : s <= r
  <2>1. Bad \subseteq Nat
    BY PlanFacts DEF Slot
  <2> HIDE DEF Bad
  <2> QED BY <2>1, LeastNat
<1>2. CASE s \in Slot \ (ComputedSlots \cup EventSlots)
  <2>1. \A i \in 1..Len(h.records) : h.records[i].time <= t <=> h.records[i].time <= u
    BY SourceFacts, PlanFacts DEF Time
  <2>2. \A i : IsLast(h, SlotBase[s], t, i) <=> IsLast(h, SlotBase[s], u, i)
    BY <2>1 DEF IsLast
  <2>3. h.obs[s][u] = h.obs[s][t]
    BY <1>2, <2>1, <2>2, BaseCases, MeaningAssumption
  <2> QED BY <2>3
<1>3. CASE s \in EventSlots
  BY <1>3, MeaningAssumption
<1>4. CASE s \in ComputedSlots
  <2> DEFINE o == [i \in Slot |-> h.obs[i][t]]
  <2>1. \A i \in Inputs(s) : i \in Slot /\ i < s /\ i \notin Bad
    BY <1>1, <1>4, InputsEarlier, PlanFacts DEF Slot
  <2>2. \A i \in Inputs(s) : o[i] = h.obs[i][t] /\ o[i] = h.obs[i][u]
    BY <2>1
  <2> HIDE DEF o
  <2>3. h.obs[s][t] = Assemble(s, o) /\ h.obs[s][u] = Assemble(s, o)
    BY <1>4, <2>2, ObsComputed
  <2> QED BY <2>3
<1> QED BY <1>2, <1>3, <1>4, SlotCases

\* Before the first record every slot is Missing.
LEMMA EarlyMissing ==
    ASSUME NEW h \in Histories, NEW t \in Time,
           \A i \in 1..Len(h.records) : h.records[i].time > t
    PROVE  \A s \in Slot : h.obs[s][t] = Missing
<1> DEFINE Bad == {s \in Slot : h.obs[s][t] # Missing}
<1> SUFFICES ASSUME Bad # {} PROVE FALSE
  OBVIOUS
<1>1. PICK s \in Bad : \A r \in Bad : s <= r
  <2>1. Bad \subseteq Nat
    BY PlanFacts DEF Slot
  <2> HIDE DEF Bad
  <2> QED BY <2>1, LeastNat
<1>2. CASE s \in Slot \ (ComputedSlots \cup EventSlots)
  BY <1>2, BaseCases, SourceFacts, PlanFacts DEF IsLast, Time
<1>3. CASE s \in EventSlots
  BY <1>3, MeaningAssumption
<1>4. CASE s \in ComputedSlots
  <2>1. \A i \in Inputs(s) : i \in Slot /\ i < s /\ i \notin Bad
    BY <1>1, <1>4, InputsEarlier, PlanFacts DEF Slot
  <2> QED BY <1>4, <2>1, ComputedMissing
<1> QED BY <1>2, <1>3, <1>4, SlotCases

\* An observed slot stays observed.
LEMMA KnownStays ==
    ASSUME NEW h \in Histories, NEW t \in Time, NEW u \in Time, t <= u
    PROVE  \A s \in Slot : h.obs[s][t] # Missing => h.obs[s][u] # Missing
<1> DEFINE Bad == {s \in Slot : h.obs[s][t] # Missing /\ h.obs[s][u] = Missing}
<1> SUFFICES ASSUME Bad # {} PROVE FALSE
  OBVIOUS
<1>1. PICK s \in Bad : \A r \in Bad : s <= r
  <2>1. Bad \subseteq Nat
    BY PlanFacts DEF Slot
  <2> HIDE DEF Bad
  <2> QED BY <2>1, LeastNat
<1>2. CASE s \in Slot \ (ComputedSlots \cup EventSlots)
  <2>1. PICK i \in 1..Len(h.records) : IsLast(h, SlotBase[s], t, i)
    BY <1>1, <1>2, BaseCases
  <2>2. h.records[i].base = SlotBase[s] /\ h.records[i].time <= u
    BY <2>1, SourceFacts, PlanFacts DEF IsLast, Time
  <2> QED BY <1>1, <1>2, <2>2, BaseCases
<1>3. CASE s \in EventSlots
  BY <1>3, MeaningAssumption
<1>4. CASE s \in ComputedSlots
  <2>1. PICK i \in Inputs(s) : h.obs[i][t] # Missing
    BY <1>1, <1>4, ComputedMissing
  <2>2. h.obs[i][u] = Missing
    BY <1>1, <1>4, ComputedMissing
  <2>3. i \in Bad /\ i < s
    BY <1>4, <2>1, <2>2, InputsEarlier
  <2> QED BY <1>1, <2>3, PlanFacts DEF Slot
<1> QED BY <1>2, <1>3, <1>4, SlotCases

-----------------------------------------------------------------------------
(* States. *)

NoRecordIn(h, t, u) ==
    \A i \in 1..Len(h.records) : h.records[i].time <= t \/ h.records[i].time > u

\* A state stays valid through ticks without records.
LEMMA StateKept ==
    ASSUME NEW h \in Histories, NEW s \in Slot, NEW st,
           NEW t \in Time \cup {NoTime}, NEW u \in Time, t <= u,
           NoRecordIn(h, t, u), AfterOK(h, s, t, st)
    PROVE  AfterOK(h, s, u, st)
<1>1. u # NoTime
  BY PlanFacts DEF Time, NoTime
<1>2. CASE t = NoTime
  <2>1. \A i \in 1..Len(h.records) : h.records[i].time > u
    BY <1>2, SourceFacts, PlanFacts DEF NoRecordIn, Time, NoTime
  <2>2. h.obs[s][u] = Missing
    BY <2>1, EarlyMissing
  <2> QED BY <1>1, <1>2, <2>2 DEF AfterOK, StateOK, NoState
<1>3. CASE t # NoTime
  <2>0. t \in Time
    BY <1>3
  <2>1. \A v \in Time : t <= v /\ v <= u => h.obs[s][v] = h.obs[s][t]
    <3> SUFFICES ASSUME NEW v \in Time, t <= v, v <= u PROVE h.obs[s][v] = h.obs[s][t]
      OBVIOUS
    <3>1. NoRecordIn(h, t, v)
      BY SourceFacts, PlanFacts, <2>0 DEF NoRecordIn, Time
    <3> QED BY <2>0, <3>1, QuietObs DEF NoRecordIn
  <2>2. StateOK(h, s, t, st)
    BY <1>3 DEF AfterOK
  <2>3. st.value = h.obs[s][u]
    BY <2>0, <2>1, <2>2 DEF StateOK, Time
  <2>4. ASSUME st.value # Missing PROVE ChangedOK(h, s, u, st.changedAt)
    <3>1. ChangedOK(h, s, t, st.changedAt)
      BY <2>2, <2>4 DEF StateOK
    <3>2. h.obs[s][u] = h.obs[s][t]
      BY <2>0, <2>1 DEF Time
    <3>3. CASE st.changedAt = NoTime
      BY <3>1, <3>2, <3>3, <2>0, <2>1, PlanFacts DEF ChangedOK, Time
    <3>4. CASE st.changedAt # NoTime
      BY <3>1, <3>2, <3>4, <2>0, <2>1, PlanFacts DEF ChangedOK, Time
    <3> QED BY <3>3, <3>4
  <2> QED BY <1>1, <2>2, <2>3, <2>4 DEF AfterOK, StateOK
<1> QED BY <1>2, <1>3

\* The same, backwards: an earlier quiet tick has the same state.
LEMMA StateBack ==
    ASSUME NEW h \in Histories, NEW s \in Slot, NEW st,
           NEW t \in Time, NEW u \in Time, t <= u,
           NoRecordIn(h, t, u), StateOK(h, s, u, st)
    PROVE  StateOK(h, s, t, st)
<1>1. \A v \in Time : t <= v /\ v <= u => h.obs[s][v] = h.obs[s][t]
  <2> SUFFICES ASSUME NEW v \in Time, t <= v, v <= u PROVE h.obs[s][v] = h.obs[s][t]
    OBVIOUS
  <2>1. NoRecordIn(h, t, v)
    BY SourceFacts, PlanFacts DEF NoRecordIn, Time
  <2> QED BY <2>1, QuietObs DEF NoRecordIn
<1>2. h.obs[s][u] = h.obs[s][t]
  BY <1>1 DEF Time
<1>3. ASSUME st.value # Missing PROVE ChangedOK(h, s, t, st.changedAt)
  <2>1. ChangedOK(h, s, u, st.changedAt)
    BY <1>3 DEF StateOK
  <2>2. CASE st.changedAt = NoTime
    BY <1>2, <2>1, <2>2, PlanFacts DEF ChangedOK, Time
  <2>3. CASE st.changedAt # NoTime
    <3>1. st.changedAt \in 1..u
      BY <2>1, <2>3 DEF ChangedOK
    <3>2. st.changedAt <= t
      <4> SUFFICES ASSUME st.changedAt > t PROVE FALSE
        BY <3>1 DEF Time
      <4>1. h.obs[s][st.changedAt - 1] = h.obs[s][st.changedAt]
        BY <1>1, <3>1, PlanFacts DEF Time
      <4> QED BY <2>1, <2>3, <4>1 DEF ChangedOK
    <3> QED BY <1>1, <1>2, <2>1, <2>3, <3>1, <3>2, PlanFacts DEF ChangedOK, Time
  <2> QED BY <2>2, <2>3
<1> QED BY <1>2, <1>3 DEF StateOK

\* complete_tick turns the state entering a tick into the state after it.
LEMMA CommitOK ==
    ASSUME NEW h \in Histories, NEW s \in Slot, NEW t \in Time, NEW d,
           EnteringOK(h, s, t, d.state), Current(d) = h.obs[s][t]
    PROVE  StateOK(h, s, t, Commit(d, t).state)
<1>1. t \in Nat /\ t <= MaxTick
  BY PlanFacts DEF Time
<1>2. CASE t = 0
  <2>1. d.state = NoState
    BY <1>2 DEF EnteringOK, AfterOK, NoTime
  <2>2. \A u \in 0..t : u = t
    BY <1>2
  <2> QED BY <2>1, <2>2 DEF StateOK, ChangedOK, Commit, Changed, Current, NoState, NoTime
<1>3. CASE t # 0
  <2>1. t - 1 \in Time /\ t - 1 # NoTime /\ t - 1 <= t
    BY <1>1, <1>3, PlanFacts DEF Time, NoTime
  <2>2. StateOK(h, s, t - 1, d.state)
    BY <2>1 DEF EnteringOK, AfterOK
  <2>3. CASE ~Changed(d)
    <3>1. h.obs[s][t] = h.obs[s][t - 1] /\ Commit(d, t).state = d.state
      BY <2>2, <2>3 DEF Changed, Current, Commit, StateOK
    <3>2. ASSUME d.state.value # Missing PROVE ChangedOK(h, s, t, d.state.changedAt)
      <4>1. ChangedOK(h, s, t - 1, d.state.changedAt)
        BY <2>2, <3>2 DEF StateOK
      <4>2. CASE d.state.changedAt = NoTime
        <5>1. \A u \in 0..t : u \in 0..(t - 1) \/ u = t
          BY <1>1, <1>3
        <5> QED BY <3>1, <4>1, <4>2, <5>1 DEF ChangedOK
      <4>3. CASE d.state.changedAt # NoTime
        <5>1. d.state.changedAt \in 1..(t - 1)
          BY <4>1, <4>3 DEF ChangedOK
        <5>2. d.state.changedAt \in 1..t
          BY <5>1, <1>1
        <5>3. \A u \in d.state.changedAt..t : u \in d.state.changedAt..(t - 1) \/ u = t
          BY <5>1, <1>1, <1>3
        <5> QED BY <3>1, <4>1, <4>3, <5>2, <5>3 DEF ChangedOK
      <4> QED BY <4>2, <4>3
    <3> QED BY <2>2, <3>1, <3>2 DEF StateOK
  <2>4. CASE Changed(d) /\ d.state.value = Missing
    <3>1. Commit(d, t).state = [value |-> h.obs[s][t], changedAt |-> NoTime]
      BY <2>4 DEF Changed, Current, Commit
    <3>2. \A u \in 0..t : h.obs[s][u] \in {Missing, h.obs[s][t]}
      <4> SUFFICES ASSUME NEW u \in 0..t, u # t PROVE h.obs[s][u] = Missing
        OBVIOUS
      <4>1. u \in Time /\ u <= t - 1
        BY <1>1, PlanFacts DEF Time
      <4>2. h.obs[s][t - 1] = Missing
        BY <2>2, <2>4 DEF StateOK
      <4> QED BY <2>1, <4>1, <4>2, KnownStays
    <3> QED BY <3>1, <3>2 DEF StateOK, ChangedOK
  <2>5. CASE Changed(d) /\ d.state.value # Missing
    <3>1. Commit(d, t).state = [value |-> h.obs[s][t], changedAt |-> t]
      BY <2>5 DEF Changed, Current, Commit
    <3>2. h.obs[s][t - 1] \notin {Missing, h.obs[s][t]}
      BY <2>2, <2>5 DEF StateOK, Changed, Current
    <3>3. t \in 1..t /\ t # NoTime /\ \A u \in t..t : u = t
      BY <1>1, <1>3 DEF NoTime
    <3>4. h.obs[s][t] # Missing
      BY <2>5 DEF Changed, Current
    <3> QED BY <3>1, <3>2, <3>3, <3>4 DEF StateOK, ChangedOK
  <2> QED BY <2>3, <2>4, <2>5
<1> QED BY <1>2, <1>3

-----------------------------------------------------------------------------
(* Repetitions of one source. *)

LEMMA Remainder ==
    ASSUME NEW w \in Nat, w > 0
    PROVE  /\ \A a \in Nat : a % w \in 0..(w - 1)
           /\ \A a \in 0..(w - 1) : a % w = a
           /\ \A n \in Nat : n > 0 /\ n % w = 0 => n >= w
OBVIOUS

LEMMA RepeatsFacts ==
    ASSUME RepeatsOneSource, NEW b \in BaseSlots
    PROVE  /\ BaseWidth[SlotBase[b]] \in Nat /\ BaseWidth[SlotBase[b]] > 0
           /\ SlotBase[b] \in BitBases
           /\ \A s \in BaseSlots : SlotBase[s] = SlotBase[b] /\ s \notin EventSlots
           /\ \A s \in Slot :
                /\ Copies(BaseWidth[SlotBase[b]], s)
                /\ Width(s) \in Nat /\ Width(s) >= BaseWidth[SlotBase[b]]
<1>1. PICK a \in BitBases : /\ \A s \in Slot : SlotBase[s] \in {a, Computed}
                           /\ BaseWidth[a] > 0
                           /\ \A s \in Slot : Copies(BaseWidth[a], s)
  BY DEF RepeatsOneSource
<1>2. \A s \in BaseSlots : s \in Slot /\ SlotBase[s] = a /\ s \notin EventSlots
  BY <1>1, PlanAssumption DEF BaseSlots, ComputedSlots, EventSlots
<1>3. BaseWidth[a] \in Nat
  BY PlanAssumption
<1>4. \A s \in Slot : Width(s) \in Nat
  BY PlanAssumption
<1>5. \A s \in Slot : Width(s) >= BaseWidth[a]
  BY <1>1, <1>3, <1>4, Remainder DEF Copies
<1> QED BY <1>1, <1>2, <1>3, <1>4, <1>5

\* A slot that consists of copies of b shows b's bits, bit for bit.
RepeatsObs(h, b, s, t) ==
    /\ h.obs[s][t] = Missing <=> h.obs[b][t] = Missing
    /\ h.obs[s][t] # Missing =>
          \A k \in 1..Width(s) :
             h.obs[s][t][k] = h.obs[b][t][((k - 1) % BaseWidth[SlotBase[b]]) + 1]

LEMMA RepeatMeaning ==
    ASSUME RepeatsOneSource, NEW h \in Histories, NEW b \in BaseSlots, NEW t \in Time
    PROVE  \A s \in Slot : RepeatsObs(h, b, s, t)
<1> DEFINE w == BaseWidth[SlotBase[b]]
           Bad == {s \in Slot : ~RepeatsObs(h, b, s, t)}
<1> SUFFICES ASSUME Bad # {} PROVE FALSE
  OBVIOUS
<1>w. w \in Nat /\ w > 0
  BY RepeatsFacts
<1>1. PICK s \in Bad : \A r \in Bad : s <= r
  <2>1. Bad \subseteq Nat
    BY PlanFacts DEF Slot
  <2> HIDE DEF Bad
  <2> QED BY <2>1, LeastNat
<1>2. \A r \in Slot : Width(r) \in Nat /\ Width(r) >= w /\ Copies(w, r)
  BY RepeatsFacts
<1>3. CASE s \in BaseSlots
  <2>1. /\ s \in Slot \ (ComputedSlots \cup EventSlots)
        /\ b \in Slot \ (ComputedSlots \cup EventSlots)
        /\ SlotBase[s] = SlotBase[b] /\ SlotBase[b] \in BitBases
    BY <1>3, RepeatsFacts DEF BaseSlots
  <2>2. \A r \in {s, b} : \A k \in 1..Width(r) : From[r][k].bit = ((k - 1) % w) + 1
    <3> SUFFICES ASSUME NEW r \in {s, b}, NEW k \in 1..Width(r)
                 PROVE  From[r][k].bit = ((k - 1) % w) + 1
      OBVIOUS
    <3>1. From[r][k].bit \in 1..w
      BY <2>1, PlanAssumption
    <3>2. (From[r][k].bit - 1) % w = (k - 1) % w
      BY <1>2, <2>1 DEF Copies
    <3>3. From[r][k].bit - 1 \in 0..(w - 1)
      BY <1>w, <3>1
    <3>4. (From[r][k].bit - 1) % w = From[r][k].bit - 1
      BY <1>w, <3>3, Remainder
    <3> QED BY <1>w, <3>1, <3>2, <3>4
  <2>3. CASE \A i \in 1..Len(h.records) :
               ~(h.records[i].base = SlotBase[b] /\ h.records[i].time <= t)
    <3>1. h.obs[s][t] = Missing /\ h.obs[b][t] = Missing
      BY <2>1, <2>3, MeaningAssumption
    <3> QED BY <1>1, <3>1 DEF RepeatsObs
  <2>4. ASSUME NEW i \in 1..Len(h.records), IsLast(h, SlotBase[b], t, i),
               h.obs[b][t] # Missing
        PROVE  FALSE
    <3>1. h.obs[s][t] = Project(s, h.records[i].value)
          /\ h.obs[b][t] = Project(b, h.records[i].value)
      BY <2>1, <2>4, MeaningAssumption
    <3>2. h.obs[s][t] # Missing
      BY <2>1, <2>4, BaseCases DEF IsLast
    <3>3. ASSUME NEW k \in 1..Width(s)
          PROVE  h.obs[s][t][k] = h.obs[b][t][((k - 1) % w) + 1]
      <4> DEFINE j == ((k - 1) % w) + 1
      <4>1. j \in 1..Width(b) /\ j - 1 \in 0..(w - 1)
        <5>1. k - 1 \in Nat /\ b \in Slot
          BY <1>2, <2>1
        <5>2. (k - 1) % w \in 0..(w - 1)
          BY <1>w, <5>1, Remainder
        <5> QED BY SMTT(20), <1>w, <1>2, <5>1, <5>2
      <4>2. From[s][k].bit = j
        BY <2>2
      <4>3. From[b][j].bit = j
        <5> HIDE DEF j
        <5>1. (j - 1) % w = j - 1
          BY <1>w, <4>1, Remainder
        <5>2. j \in Nat
          BY <1>2, <2>1, <4>1
        <5>3. ((j - 1) % w) + 1 = j
          BY <5>1, <5>2
        <5> QED BY <2>2, <4>1, <5>3
      <4> HIDE DEF j
      <4>4. h.obs[s][t][k] = h.records[i].value[j] /\ h.obs[b][t][j] = h.records[i].value[j]
        BY ZenonT(40), <3>1, <4>1, <4>2, <4>3 DEF Project
      <4> QED BY <4>4 DEF j
    <3> QED BY <1>1, <2>4, <3>2, <3>3 DEF RepeatsObs
  <2> QED BY <2>1, <2>3, <2>4, BaseCases
<1>4. CASE s \in ComputedSlots
  <2>1. \A i \in Inputs(s) : i \in Slot /\ RepeatsObs(h, b, i, t)
    BY <1>1, <1>4, InputsEarlier, PlanFacts DEF Slot
  <2>2. Inputs(s) # {}
    BY SMTT(20), <1>w, <1>2, <1>4 DEF Inputs, ComputedSlots
  <2>3. h.obs[s][t] = Missing <=> h.obs[b][t] = Missing
    BY <1>4, <2>1, <2>2, ComputedMissing DEF RepeatsObs
  <2>4. ASSUME h.obs[s][t] # Missing, NEW k \in 1..Width(s)
        PROVE  h.obs[s][t][k] = h.obs[b][t][((k - 1) % w) + 1]
    <3> DEFINE o == [i \in Slot |-> h.obs[i][t]]
               i == From[s][k].of
               n == From[s][k].bit
    <3>1. i \in Inputs(s) /\ i \in Slot /\ n \in 1..Width(i)
      BY <1>4, PlanAssumption DEF Inputs, ComputedSlots, Slot
    <3>2. h.obs[i][t] # Missing
      BY <2>1, <2>3, <2>4, <3>1 DEF RepeatsObs
    <3>3. h.obs[s][t] = Assemble(s, o)
      BY <1>4, MeaningAssumption
    <3>4. h.obs[s][t][k] = h.obs[i][t][n]
      BY <2>4, <3>1, <3>2, <3>3 DEF Assemble
    <3>5. h.obs[i][t][n] = h.obs[b][t][((n - 1) % w) + 1]
      <4> HIDE DEF i, n
      <4> QED BY <2>1, <3>1, <3>2 DEF RepeatsObs
    <3>6. (n - 1) % w = (k - 1) % w
      BY <1>2, <1>4 DEF Copies, ComputedSlots
    <3> QED BY <3>4, <3>5, <3>6
  <2> QED BY <1>1, <2>3, <2>4 DEF RepeatsObs
<1> QED BY <1>3, <1>4 DEF BaseSlots

\* So a repetition changes exactly when its source does.
LEMMA RepeatSame ==
    ASSUME RepeatsOneSource, NEW h \in Histories, NEW b \in BaseSlots, NEW s \in Slot,
           NEW t \in Time, NEW u \in Time
    PROVE  h.obs[s][t] = h.obs[s][u] <=> h.obs[b][t] = h.obs[b][u]
<1> DEFINE w == BaseWidth[SlotBase[b]]
<1>w. w \in Nat /\ w > 0 /\ b \in Slot
  BY RepeatsFacts DEF BaseSlots
<1>1. \A r \in Slot : Width(r) \in Nat /\ Width(r) >= w
  BY RepeatsFacts
<1>2. \A r \in Slot, v \in Time : RepeatsObs(h, b, r, v)
  BY RepeatMeaning
<1>3. CASE h.obs[b][t] = Missing \/ h.obs[b][u] = Missing
  BY <1>2, <1>3 DEF RepeatsObs
<1>4. CASE h.obs[b][t] # Missing /\ h.obs[b][u] # Missing
  <2>1. \A r \in Slot, v \in {t, u} :
           h.obs[r][v] = [k \in 1..Width(r) |-> h.obs[r][v][k]]
    <3> SUFFICES ASSUME NEW r \in Slot, NEW v \in {t, u}
                 PROVE  h.obs[r][v] = [k \in 1..Width(r) |-> h.obs[r][v][k]]
      OBVIOUS
    <3>1. h.obs[r][v] # Missing
      BY <1>2, <1>4 DEF RepeatsObs
    <3>2. h.obs[r][v] \in Value /\ DOMAIN h.obs[r][v] = 1..Width(r)
      BY <3>1, MeaningAssumption
    <3>3. PICK q \in Slot : h.obs[r][v] \in [1..Width(q) -> Symbols]
      BY <3>2 DEF Value
    <3> QED BY <3>2, <3>3
  <2>2. \A k \in 1..Width(s) : ((k - 1) % w) + 1 \in 1..Width(b)
    <3> SUFFICES ASSUME NEW k \in 1..Width(s) PROVE ((k - 1) % w) + 1 \in 1..Width(b)
      OBVIOUS
    <3>1. k - 1 \in Nat
      BY <1>1
    <3>2. (k - 1) % w \in 0..(w - 1)
      BY <1>w, <3>1, Remainder
    <3> QED BY <1>w, <1>1, <3>2
  <2>3. ASSUME NEW v \in {t, u}
        PROVE  \A k \in 1..Width(s) : h.obs[s][v][k] = h.obs[b][v][((k - 1) % w) + 1]
    BY <1>2, <1>4 DEF RepeatsObs
  <2>4. ASSUME NEW v \in {t, u}, NEW k \in 1..Width(b)
        PROVE  /\ ((k - 1) % w) + 1 \in 1..Width(s)
               /\ h.obs[b][v][k] = h.obs[s][v][((k - 1) % w) + 1]
    <3> DEFINE j == ((k - 1) % w) + 1
    <3>1. k - 1 \in Nat
      BY <1>w, <1>1
    <3>2. (k - 1) % w \in 0..(w - 1)
      BY <1>w, <3>1, Remainder
    <3>3. j \in 1..Width(s) /\ j - 1 \in 0..(w - 1)
      BY <1>w, <1>1, <3>2
    <3>4. h.obs[b][v][k] = h.obs[b][v][j]
      BY <1>w, <1>2, <1>4 DEF RepeatsObs
    <3>5. h.obs[s][v][j] = h.obs[b][v][j]
      <4> HIDE DEF j
      <4>1. (j - 1) % w = j - 1
        BY <1>w, <3>3, Remainder
      <4>2. ((j - 1) % w) + 1 = j
        BY <1>w, <3>3, <4>1
      <4> QED BY <2>3, <3>3, <4>2
    <3> QED BY <3>3, <3>4, <3>5
  <2>5. ASSUME h.obs[b][t] = h.obs[b][u] PROVE h.obs[s][t] = h.obs[s][u]
    <3>1. \A k \in 1..Width(s) : h.obs[s][t][k] = h.obs[s][u][k]
      BY <2>3, <2>5
    <3> QED BY <2>1, <3>1
  <2>6. ASSUME h.obs[s][t] = h.obs[s][u] PROVE h.obs[b][t] = h.obs[b][u]
    <3>1. \A k \in 1..Width(b) : h.obs[b][t][k] = h.obs[b][u][k]
      BY <2>4, <2>6
    <3> QED BY <1>w, <2>1, <3>1
  <2> QED BY <2>5, <2>6
<1> QED BY <1>3, <1>4

-----------------------------------------------------------------------------
(* Starting and ending a call. *)

Inv == hist \in Histories /\ EngineInv

\* A step outside the traversal that leaves the caches and the snapshots in
\* hand alone preserves the invariant.
LEMMA OutsideInv ==
    ASSUME Inv, TypeOK', hist' = hist,
           phase' \in {"idle", "point", "seed", "load", "reply"},
           UNCHANGED <<caches, kept, saved>>
    PROVE  Inv'
<1>1. ReadInv'
  BY DEF Inv, EngineInv, ReadInv, caches
<1>2. CachesFaithful'
  BY DEF Inv, EngineInv, CachesFaithful, caches
<1> QED BY <1>1, <1>2 DEF Inv, EngineInv

\* A call record of the right type begins with the invariant.
CallType ==
    [op : {"none", "scan", "sample", "samples_at", "query"},
     first : Time, last : Time, from : Time \cup {NoTime},
     seed : BOOLEAN, times : SUBSET Time, drivers : SUBSET Selected]

\* A call begins with nothing received, and what is received stays typed.
LEMMA NothingReceived == <<>> \in Seq(Parcel)
OBVIOUS

LEMMA ReceivedType ==
    ASSUME received \in Seq(Parcel), NEW new, new \subseteq Observations, Hand(new)
    PROVE  received' \in Seq(Parcel)
<1>1. CASE new = {}
  BY <1>1 DEF Hand
<1>2. CASE new # {}
  <2>1. new \in Parcel
    BY <1>2 DEF Parcel
  <2> QED BY <1>2, <2>1 DEF Hand
<1> QED BY <1>1, <1>2

\* All that was received follows its parts.
LEMMA OutKept == received' = received => out' = out
BY DEF out

LEMMA OutNothing == received' = <<>> => out' = {}
BY DEF out

LEMMA OutOnly == ASSUME NEW new, received' = <<new>> PROVE out' = new
BY DEF out

LEMMA OutGrows ==
    ASSUME received \in Seq(Parcel), NEW new, Hand(new)
    PROVE  out' = out \cup new
<1>1. CASE new = {}
  <2>1. received' = received
    BY <1>1 DEF Hand
  <2> QED BY <1>1, <2>1, OutKept
<1>2. CASE new # {}
  <2>1. received' = Append(received, new)
    BY <1>2 DEF Hand
  <2>2. /\ DOMAIN received = 1..Len(received) /\ Len(received) \in Nat
        /\ DOMAIN received' = 1..(Len(received) + 1)
        /\ received'[Len(received) + 1] = new
        /\ \A i \in DOMAIN received : received'[i] = received[i]
    BY <2>1
  <2> QED BY <2>2 DEF out
<1> QED BY <1>1, <1>2

LEMMA ObservationType ==
    ASSUME NEW what \in {"initial", "change", "sample"}, NEW t \in Time, NEW s \in Selected,
           NEW c \in Cell
    PROVE  Observation(what, t, s, c) \in Observations
BY DEF Observation, Observations, Cell

LEMMA SampleType ==
    ASSUME NEW s \in Slot, NEW d \in SlotData, NEW tick \in Time \cup {NoTime}
    PROVE  SampleOf(s, d, tick) \in Cell
<1>1. /\ d.state \in [value : Value \cup {Missing}, changedAt : Time \cup {NoTime}]
      /\ d.pending \in Value \cup {Missing} /\ d.events \in 0..MaxCount
  BY DEF SlotData
<1>2. 0 \in 0..MaxCount /\ NoState \in [value : Value \cup {Missing}, changedAt : Time \cup {NoTime}]
  BY PlanFacts DEF NoState
<1>3. Current(d) \in Value \cup {Missing}
  BY <1>1 DEF Current
<1> QED BY <1>1, <1>2, <1>3 DEF SampleOf, Cell

LEMMA BeginInv ==
    ASSUME Inv, NEW c \in CallType, NEW reads \in BOOLEAN, NEW first \in {"seed", "point"},
           Begin(c, reads, first)
    PROVE  Inv'
<1>1. TypeOK'
  <2>1. call' \in CallType
    BY DEF Begin
  <2>2. phase' \in Phases /\ result' \in {"none", "running", "ok", "stopped", "error"}
    BY DEF Begin, Phases
  <2>3. todo' \subseteq Time
    BY DEF Begin, CallType
  <2>4. received' \in Seq(Parcel)
    BY NothingReceived DEF Begin
  <2> QED BY <2>1, <2>2, <2>3, <2>4
          DEF Inv, EngineInv, TypeOK, Begin, CallType, source, caches, reading, ticking
<1>2. phase' \in {"idle", "point", "seed", "load", "reply"}
  BY DEF Begin
<1> QED BY <1>1, <1>2, OutsideInv DEF Begin, source, caches, reading, ticking

LEMMA ZeroTick == 0 \in Time /\ NoTime \notin Time
BY PlanFacts DEF Time, NoTime

LEMMA EndTickType ==
    ASSUME hist \in Histories, NEW end \in Time \cup {NoTime}, NEW unbounded,
           hist.span # NoTime => unbounded \in Time
    PROVE  EndTick(end, unbounded) \in Time
BY PlanFacts DEF EndTick, Time

LEMMA OperationInv ==
    ASSUME Inv, Operation
    PROVE  Inv'
<1> USE ZeroTick
<1>0. hist \in Histories /\ hist.span \in Time \cup {NoTime}
  BY SourceAssumption DEF Inv
<1>1. ASSUME NEW w \in Windows, Scan(w[1], w[2])
      PROVE  Inv'
  <2> DEFINE unbounded == IF hist.span < w[1] THEN w[1] ELSE hist.span
             last == EndTick(w[2], unbounded)
             c == [NoCall EXCEPT !.op = "scan", !.first = w[1], !.last = last,
                                 !.from = w[1], !.seed = TRUE]
  <2>1. w[1] \in Time /\ w[2] \in Time \cup {NoTime}
    BY PlanAssumption
  <2>2. last \in Time
    <3>1. hist.span # NoTime => unbounded \in Time
      BY <1>0, <2>1
    <3> HIDE DEF unbounded
    <3> QED BY <1>0, <2>1, <3>1, EndTickType
  <2>3. c \in CallType
    <3> HIDE DEF last
    <3> QED BY <2>1, <2>2 DEF NoCall, CallType
  <2>4. Begin(c, w[1] <= last, "seed")
    BY <1>1 DEF Scan
  <2>5. (w[1] <= last) \in BOOLEAN
    BY <2>1, <2>2, PlanFacts DEF Time
  <2> HIDE DEF c, last
  <2> QED BY <2>3, <2>4, <2>5, BeginInv
<1>2. ASSUME NEW times \in Batches, SamplesAt(times)
      PROVE  Inv'
  <2>1. times \subseteq Time
    BY PlanAssumption
  <2>2. PICK last \in times :
           Begin([NoCall EXCEPT !.op = "samples_at", !.last = last, !.seed = TRUE,
                                !.times = times], TRUE, "seed")
    BY <1>2 DEF SamplesAt
  <2>3. [NoCall EXCEPT !.op = "samples_at", !.last = last, !.seed = TRUE,
                       !.times = times] \in CallType
    BY <2>1 DEF NoCall, CallType
  <2> QED BY <2>2, <2>3, BeginInv
<1>3. ASSUME NEW w \in Windows, NEW d \in DriverSets, Query(w[1], w[2], d)
      PROVE  Inv'
  <2> DEFINE last == EndTick(w[2], hist.span)
             c == [NoCall EXCEPT !.op = "query", !.first = w[1], !.last = last,
                                 !.from = w[1] - 1, !.seed = TRUE, !.drivers = d]
  <2>1. w[1] \in Time /\ w[2] \in Time \cup {NoTime} /\ d \subseteq Selected
    BY PlanAssumption
  <2>2. last \in Time
    BY <1>0, <2>1, EndTickType
  <2>3. w[1] - 1 \in Time \cup {NoTime}
    BY <2>1, PlanFacts DEF Time, NoTime
  <2>4. c \in CallType
    <3> HIDE DEF last
    <3> QED BY <2>1, <2>2, <2>3 DEF NoCall, CallType
  <2>5. Begin(c, d # {} /\ w[1] <= last, "seed")
    BY <1>3 DEF Query
  <2>6. (d # {} /\ w[1] <= last) \in BOOLEAN
    BY <2>1, <2>2, PlanFacts DEF Time
  <2> HIDE DEF c, last
  <2> QED BY <2>4, <2>5, <2>6, BeginInv
<1>4. ASSUME NEW t \in PointTicks, Sample(t)
      PROVE  Inv'
  <2> DEFINE c == [NoCall EXCEPT !.op = "sample", !.first = t, !.last = t, !.from = t,
                                 !.seed = kind # "shm"]
  <2>1. t \in Time
    BY PlanAssumption
  <2>2. c \in CallType
    BY <2>1 DEF NoCall, CallType
  <2>3. Begin(c, TRUE, "point")
    BY <1>4 DEF Sample
  <2> HIDE DEF c
  <2> QED BY <2>2, <2>3, BeginInv
<1>5. ASSUME NEW t \in PointTicks, ShmReplaySample(t)
      PROVE  Inv'
  <2>1. t \in Time
    BY PlanAssumption
  <2>2. TypeOK'
    <3>1. call' \in CallType
      BY <1>5, <2>1 DEF ShmReplaySample, NoCall, CallType
    <3>2. replay' \in Replay \cup {None} /\ checkpoint' \in Replay \cup {None}
      BY <1>5 DEF ShmReplaySample, Inv, EngineInv, TypeOK, caches
    <3>3. result' \in {"ok", "stopped"}
      BY <1>5 DEF ShmReplaySample
    <3>4. received' \in Seq(Parcel)
      <4> DEFINE old(s) == [state |-> SampleOf(s, replay.slots[s], replay.time).state, events |-> 0]
                 told == {Observation("sample", t, s, old(s)) : s \in Selected}
      <4>1. replay \in Replay
        BY <1>5 DEF ShmReplaySample, Inv, EngineInv, TypeOK
      <4>2. \A s \in Selected : old(s) \in Cell
        <5> SUFFICES ASSUME NEW s \in Selected PROVE old(s) \in Cell
          OBVIOUS
        <5>1. s \in Slot /\ replay.slots[s] \in SlotData /\ replay.time \in Time \cup {NoTime}
          BY <4>1, PlanAssumption DEF Replay
        <5>2. SampleOf(s, replay.slots[s], replay.time) \in Cell
          BY <5>1, SampleType
        <5>3. 0 \in 0..MaxCount
          BY PlanFacts
        <5> QED BY <5>2, <5>3 DEF Cell
      <4>3. told \subseteq Observations
        <5> HIDE DEF old
        <5> QED BY <2>1, <4>2, ObservationType
      <4>4. told \in Parcel
        <5>1. PICK s \in Selected : TRUE
          BY PlanAssumption
        <5>2. Observation("sample", t, s, old(s)) \in told
          BY <5>1
        <5> HIDE DEF told
        <5> QED BY <4>3, <5>2 DEF Parcel
      <4>5. received' = <<told>>
        BY <1>5, Zenon DEF ShmReplaySample
      <4> HIDE DEF told
      <4> QED BY <4>4, <4>5
    <3> QED BY <1>5, <3>1, <3>2, <3>3, <3>4
            DEF ShmReplaySample, Inv, EngineInv, TypeOK, CallType,
                source, reading, ticking, visiting
  <2>3. ReadInv'
    BY <1>5 DEF ShmReplaySample, Inv, EngineInv, ReadInv, source, reading, ticking, visiting
  <2>4. CachesFaithful'
    BY <1>5 DEF ShmReplaySample, Inv, EngineInv, CachesFaithful, source, caches
  <2> QED BY <1>5, <2>2, <2>3, <2>4 DEF ShmReplaySample, Inv, EngineInv, source
<1> QED BY <1>1, <1>2, <1>3, <1>4, <1>5 DEF Operation

\* Leaving a call drops its locals; only the caches remain.
LEMMA ReturnInv ==
    ASSUME Inv, NEW how \in {"ok", "stopped", "error"}, Return(how),
           replay' \in Replay \cup {None}, checkpoint' \in Replay \cup {None},
           received' \in Seq(Parcel), CachesFaithful'
    PROVE  Inv'
<1>1. TypeOK'
  <2>1. Fresh \in [Slot -> SlotData]
    BY PlanFacts DEF Fresh, FreshSlot, NoState, SlotData, Time
  <2>2. [s \in Slot |-> [state |-> NoState, events |-> 0]] \in [Slot -> Cell]
    BY PlanFacts DEF NoState, Cell
  <2>3. [s \in Slot |-> 0] \in [Slot -> 0..MaxCount]
    BY PlanFacts
  <2>4. slots' \in [Slot -> SlotData] /\ acc' \in [Slot -> Cell]
        /\ prevEvents' \in [Slot -> 0..MaxCount]
    BY <2>1, <2>2, <2>3, Zenon DEF Return, DropLocals
  <2>5. /\ kept' = None /\ saved' = None /\ cursor' = 1 /\ pendingTime' = NoTime
        /\ replayStart' = 0 /\ work' = {} /\ after' = "none"
        /\ todo' = {} /\ active' = {} /\ prevTick' = NoTime
        /\ phase' = "idle" /\ kind' = kind /\ call' = call
        /\ result' \in {"none", "running", "ok", "stopped", "error"}
    BY DEF Return, DropLocals, source
  <2>6. considered' \in BOOLEAN /\ emitted' \in BOOLEAN
    BY Zenon DEF Return, DropLocals
  <2> QED BY <2>4, <2>5, <2>6, ZeroTick DEF Inv, EngineInv, TypeOK, Phases
<1>2. ReadInv'
  BY DEF ReadInv, Return, DropLocals
<1> QED BY <1>1, <1>2 DEF Inv, EngineInv, Return, source

LEMMA AbandonInv ==
    ASSUME Inv, NEW how \in {"stopped", "error"}, Abandon(how), received' \in Seq(Parcel)
    PROVE  Inv'
<1>1. CachesFaithful'
  BY DEF Abandon, CachesFaithful
<1> QED BY <1>1, ReturnInv DEF Abandon

-----------------------------------------------------------------------------
(* Point reads. *)

StateType == [value : Value \cup {Missing}, changedAt : Time \cup {NoTime}]

\* A state that is right for a slot is well typed.
LEMMA StateTyped ==
    ASSUME NEW h \in Histories, NEW s \in Slot, NEW t \in Time,
           NEW v, NEW c \in 0..t \cup {NoTime},
           StateOK(h, s, t, [value |-> v, changedAt |-> c])
    PROVE  [value |-> v, changedAt |-> c] \in StateType
<1>1. v \in Value \cup {Missing}
  BY MeaningAssumption DEF StateOK
<1>2. c \in Time \cup {NoTime}
  BY PlanFacts DEF Time
<1> QED BY <1>1, <1>2 DEF StateType

LEMMA RepeatedOK ==
    ASSUME RepeatsOneSource, NEW h \in Histories, NEW b \in BaseSlots, NEW s \in Slot,
           NEW t \in Time, NEW st \in StateType, StateOK(h, b, t, st)
    PROVE  StateOK(h, s, t, Repeated(s, b, st)) /\ Repeated(s, b, st) \in StateType
<1>1. RepeatsObs(h, b, s, t)
  BY RepeatMeaning
<1>2. CASE st.value = Missing
  BY <1>1, <1>2 DEF RepeatsObs, StateOK, Repeated, NoState, StateType
<1>3. CASE st.value # Missing
  <2>1. st.value = h.obs[b][t] /\ h.obs[s][t] # Missing /\ ChangedOK(h, b, t, st.changedAt)
    BY <1>1, <1>3 DEF StateOK, RepeatsObs
  <2>2. h.obs[s][t] \in Value /\ DOMAIN h.obs[s][t] = 1..Width(s)
    BY <2>1, MeaningAssumption
  <2>3. PICK q \in Slot : h.obs[s][t] \in [1..Width(q) -> Symbols]
    BY <2>2 DEF Value
  <2>4. h.obs[s][t] = [k \in 1..Width(s) |-> h.obs[s][t][k]]
    BY <2>2, <2>3
  <2>5. Repeated(s, b, st) = [value |-> h.obs[s][t], changedAt |-> st.changedAt]
    BY <1>1, <1>3, <2>1, <2>4 DEF Repeated, RepeatsObs
  <2>6. ChangedOK(h, s, t, st.changedAt)
    <3>1. \A v \in Time : h.obs[s][v] = Missing <=> h.obs[b][v] = Missing
      BY RepeatMeaning DEF RepeatsObs
    <3>2. \A v, x \in Time : h.obs[s][v] = h.obs[s][x] <=> h.obs[b][v] = h.obs[b][x]
      BY RepeatSame
    <3>3. t \in Nat /\ t <= MaxTick
      BY PlanFacts DEF Time
    <3>4. CASE st.changedAt = NoTime
      <4>1. \A v \in 0..t : v \in Time
        BY <3>3, PlanFacts DEF Time
      <4> QED BY <2>1, <3>1, <3>2, <3>4, <4>1 DEF ChangedOK
    <3>5. CASE st.changedAt # NoTime
      <4>1. st.changedAt \in 1..t
        BY <2>1, <3>5 DEF ChangedOK
      <4>2. st.changedAt \in Time /\ st.changedAt - 1 \in Time
            /\ \A v \in st.changedAt..t : v \in Time
        BY <3>3, <4>1, PlanFacts DEF Time
      <4> QED BY <2>1, <3>1, <3>2, <3>5, <4>1, <4>2 DEF ChangedOK
    <3> QED BY <3>4, <3>5
  <2> QED BY <1>3, <2>1, <2>2, <2>5, <2>6 DEF StateOK, StateType
<1> QED BY <1>2, <1>3

\* What a seek returns is the state after its tick, for every slot.
LEMMA PointResultsOK ==
    ASSUME hist \in Histories, NEW t \in Time, NEW states \in PointResults(t),
           ComputedSlots = {} \/ RepeatsOneSource
    PROVE  \A s \in Slot : StateOK(hist, s, t, states[s]) /\ states[s] \in StateType
<1> DEFINE at(c, s) == [value |-> hist.obs[s][t], changedAt |-> c[s]]
           b0 == CHOOSE b \in BaseSlots : TRUE
<1>1. PICK c \in [BaseSlots -> 0..t \cup {NoTime}] :
         /\ \A s \in BaseSlots : StateOK(hist, s, t, at(c, s))
         /\ states = [s \in Slot |-> IF s \in BaseSlots THEN at(c, s)
                                     ELSE Repeated(s, b0, at(c, b0))]
  BY DEF PointResults
<1>2. ASSUME NEW s \in BaseSlots
      PROVE  StateOK(hist, s, t, at(c, s)) /\ at(c, s) \in StateType
  BY <1>1, StateTyped DEF BaseSlots
<1>3. ASSUME NEW s \in BaseSlots
      PROVE  StateOK(hist, s, t, states[s]) /\ states[s] \in StateType
  <2>1. states[s] = at(c, s)
    BY <1>1 DEF BaseSlots
  <2> QED BY <1>2, <2>1
<1>4. ASSUME NEW s \in ComputedSlots
      PROVE  StateOK(hist, s, t, states[s]) /\ states[s] \in StateType
  <2>1. RepeatsOneSource
    BY <1>4
  <2>2. s \in Slot /\ s \notin BaseSlots
    BY DEF ComputedSlots, BaseSlots
  <2>3. 1 \in BaseSlots
    <3>1. 1 \in Slot
      BY <2>2, PlanFacts DEF Slot
    <3>2. ASSUME 1 \in ComputedSlots PROVE FALSE
      <4>1. Width(1) \in Nat /\ Width(1) > 0
        BY <2>1, <3>1, PlanAssumption DEF RepeatsOneSource, Copies
      <4>2. From[1][1].of \in Inputs(1)
        BY <4>1 DEF Inputs
      <4> QED BY <3>2, <4>2, InputsEarlier, PlanFacts DEF Slot
    <3> QED BY <3>1, <3>2 DEF BaseSlots
  <2>4. b0 \in BaseSlots
    BY <2>3
  <2>5. states[s] = Repeated(s, b0, at(c, b0))
    BY <1>1, <2>2
  <2>6. StateOK(hist, b0, t, at(c, b0)) /\ at(c, b0) \in StateType
    BY <1>2, <2>4
  <2> HIDE DEF b0, at
  <2> QED BY <2>1, <2>2, <2>4, <2>5, <2>6, RepeatedOK
<1> QED BY <1>3, <1>4 DEF BaseSlots

\* A snapshot of states after tick t, resumed at the first later record.
LEMMA AfterSnapshot ==
    ASSUME hist \in Histories, NEW t \in Time, t < MaxTick, NEW states,
           \A s \in Slot : StateOK(hist, s, t, states[s]) /\ states[s] \in StateType,
           NEW i \in 1..(Len(recs) + 1), IsFirstAt(hist, t + 1, i), NEW r,
           r = [pos |-> i, start |-> t + 1, end |-> t, time |-> NoTime,
                slots |-> SlotsOf(states)]
    PROVE  r \in Replay /\ SnapshotOK(hist, r)
<1>1. t + 1 \in Time /\ (t + 1) - 1 = t /\ t # NoTime
  BY PlanFacts DEF Time, NoTime
<1>2. i \in Nat \ {0}
  BY SourceFacts DEF recs
<1>3. \A s \in Slot : SlotsOf(states)[s] = [state |-> states[s], pending |-> Missing, events |-> 0]
  BY DEF SlotsOf, FreshSlot
<1>4. SlotsOf(states) \in [Slot -> SlotData]
  <2>1. \A s \in Slot : [state |-> states[s], pending |-> Missing, events |-> 0] \in SlotData
    BY PlanFacts DEF SlotData, StateType
  <2>2. \A s \in Slot : SlotsOf(states)[s] \in SlotData
    BY <1>3, <2>1
  <2> QED BY <2>2 DEF SlotsOf
<1>5. r \in Replay
  BY <1>1, <1>2, <1>4 DEF Replay
<1>6. SnapshotOK(hist, r)
  <2>1. r.pos = i /\ r.start = t + 1 /\ r.time = NoTime /\ r.slots = SlotsOf(states)
    OBVIOUS
  <2>2. \A s \in Slot : /\ r.slots[s].state = states[s]
                        /\ r.slots[s].pending = Missing /\ r.slots[s].events = 0
    <3>1. \A s \in Slot : /\ SlotsOf(states)[s].state = states[s]
                          /\ SlotsOf(states)[s].pending = Missing
                          /\ SlotsOf(states)[s].events = 0
      BY DEF SlotsOf, FreshSlot
    <3>2. r.slots = SlotsOf(states)
      BY <2>1
    <3> QED BY <3>1, <3>2, Zenon
  <2>3. \A s \in Slot : EnteringOK(hist, s, r.start, r.slots[s].state)
    BY <1>1, <2>1, <2>2 DEF EnteringOK, AfterOK
  <2> QED BY <2>1, <2>2, <2>3 DEF SnapshotOK
<1> QED BY <1>5, <1>6

LEMMA PointTickType ==
    ASSUME Inv, phase \in {"point", "seed"}, Seeding
    PROVE  PointTick \in Time
BY PlanFacts DEF Inv, EngineInv, TypeOK, Seeding, PointTick, Time, NoTime

LEMMA PointDeclinedInv ==
    ASSUME Inv, phase \in {"point", "seed"}, PointDeclined,
           replay' \in {replay, None}, checkpoint' \in {checkpoint, None}
    PROVE  Inv'
<1>1. TypeOK'
  BY DEF Inv, EngineInv, TypeOK, PointDeclined, source, reading, ticking, visiting, reply, Phases
<1>2. ReadInv'
  BY DEF Inv, EngineInv, ReadInv, PointDeclined, source, reading, ticking
<1>3. CachesFaithful'
  BY DEF Inv, EngineInv, CachesFaithful, PointDeclined, source
<1> QED BY <1>1, <1>2, <1>3 DEF Inv, EngineInv, PointDeclined, source

LEMMA PointStatesInv ==
    ASSUME Inv, phase \in {"point", "seed"}, NEW states, PointStates(states),
           \A s \in Slot : states[s] \in StateType,
           replay' \in Replay \cup {None}, checkpoint' \in Replay \cup {None},
           CachesFaithful'
    PROVE  Inv'
<1>1. TypeOK'
  <2>1. [s \in Slot |-> [state |-> states[s], events |-> 0]] \in [Slot -> Cell]
    BY PlanFacts DEF Cell, StateType
  <2>2. acc' \in [Slot -> Cell]
    BY <2>1 DEF Inv, EngineInv, TypeOK, PointStates
  <2>3. emitted' \in BOOLEAN
    BY Zenon DEF PointStates
  <2> QED BY <2>2, <2>3 DEF Inv, EngineInv, TypeOK, PointStates, source, reading, ticking, reply, Phases
<1>2. ReadInv'
  BY DEF Inv, EngineInv, ReadInv, PointStates, source, reading, ticking
<1> QED BY <1>1, <1>2 DEF Inv, EngineInv, PointStates, source

LEMMA PointInv ==
    ASSUME Inv, PointSkip \/ PointReuse \/ PointSeek \/ PointUncertified \/ PointFail
    PROVE  Inv'
<1>1. CASE PointSkip
  BY <1>1, PointDeclinedInv DEF PointSkip, caches
<1>2. CASE PointReuse
  <2> DEFINE states == [s \in Slot |-> replay.slots[s].state]
  <2>1. replay \in Replay /\ replay \in Replay \cup {None} /\ checkpoint \in Replay \cup {None}
    BY <1>2 DEF Inv, EngineInv, TypeOK, PointReuse, PointHit
  <2>2. \A s \in Slot : states[s] \in StateType
    BY <2>1 DEF Replay, SlotData, StateType
  <2>3. PointStates(states) /\ phase \in {"point", "seed"}
    BY <1>2 DEF PointReuse
  <2>4. replay' = replay /\ checkpoint' = checkpoint
    BY <1>2 DEF PointReuse, caches
  <2>5. CachesFaithful'
    BY <2>3, <2>4 DEF Inv, EngineInv, CachesFaithful, PointStates, source
  <2> HIDE DEF states
  <2> QED BY <2>1, <2>2, <2>3, <2>4, <2>5, PointStatesInv
<1>3. CASE PointSeek
  <2>1. phase \in {"point", "seed"} /\ Seeding /\ Seekable
    BY <1>3 DEF PointSeek, PointMiss
  <2>2. PointTick \in Time /\ (ComputedSlots = {} \/ RepeatsOneSource)
    BY <2>1, PointTickType DEF Seekable
  <2>3. PICK states \in PointResults(PointTick) :
          /\ PointStates(states)
          /\ \/ /\ PointTick < MaxTick
                /\ \E i \in 1..(Len(recs) + 1) :
                      /\ IsFirstAt(hist, PointTick + 1, i)
                      /\ replay' = [pos |-> i, start |-> PointTick + 1, end |-> PointTick,
                                    time |-> NoTime, slots |-> SlotsOf(states)]
             \/ replay' = None
    BY <1>3 DEF PointSeek, AfterPoint
  <2>4. \A s \in Slot : StateOK(hist, s, PointTick, states[s]) /\ states[s] \in StateType
    BY <2>2, PointResultsOK DEF Inv
  <2>5. checkpoint' = None
    BY <1>3 DEF PointSeek
  <2>6. replay' = None \/ (replay' \in Replay /\ SnapshotOK(hist, replay'))
    <3>1. ASSUME PointTick < MaxTick, NEW i \in 1..(Len(recs) + 1),
                 IsFirstAt(hist, PointTick + 1, i),
                 replay' = [pos |-> i, start |-> PointTick + 1, end |-> PointTick,
                            time |-> NoTime, slots |-> SlotsOf(states)]
          PROVE  replay' \in Replay /\ SnapshotOK(hist, replay')
      BY <2>2, <2>4, <3>1, AfterSnapshot DEF Inv
    <3> QED BY <2>3, <3>1
  <2>7. CachesFaithful'
    BY <2>3, <2>5, <2>6 DEF CachesFaithful, PointStates, source
  <2> QED BY <2>1, <2>3, <2>4, <2>5, <2>6, <2>7, PointStatesInv
<1>4. CASE PointUncertified
  BY <1>4, PointDeclinedInv DEF PointUncertified, PointMiss
<1>5. CASE PointFail
  BY <1>5, AbandonInv DEF PointFail
<1> QED BY <1>1, <1>2, <1>3, <1>4, <1>5

-----------------------------------------------------------------------------
(* Choosing a snapshot. *)

LEMMA ParallelPrefixInv ==
    ASSUME Inv, ParallelPrefix
    PROVE  Inv'
<1>1. PICK states \in PointResults(call.from - 1), i \in 1..(Len(recs) + 1) :
        /\ IsFirstAt(hist, call.from, i)
        /\ checkpoint' = [pos |-> i, start |-> call.from, end |-> call.from - 1,
                          time |-> NoTime, slots |-> SlotsOf(states)]
  BY DEF ParallelPrefix, Prefix
<1> DEFINE t == call.from - 1
<1>2. t \in Time /\ t < MaxTick /\ t + 1 = call.from /\ ComputedSlots = {}
  BY PlanFacts DEF Inv, EngineInv, TypeOK, ParallelPrefix, Time, NoTime
<1>3. \A s \in Slot : StateOK(hist, s, t, states[s]) /\ states[s] \in StateType
  <2> HIDE DEF t
  <2> QED BY <1>1, <1>2, PointResultsOK DEF Inv, t
<1>4. checkpoint' = [pos |-> i, start |-> t + 1, end |-> t, time |-> NoTime,
                     slots |-> SlotsOf(states)] /\ IsFirstAt(hist, t + 1, i)
  BY <1>1, <1>2, Zenon
<1>5. checkpoint' \in Replay /\ SnapshotOK(hist, checkpoint')
  <2> HIDE DEF t
  <2> QED BY <1>1, <1>2, <1>3, <1>4, AfterSnapshot DEF Inv
<1>6. TypeOK'
  BY <1>5 DEF Inv, EngineInv, TypeOK, ParallelPrefix, source, reading, ticking, visiting, reply
<1>7. ReadInv'
  BY DEF Inv, EngineInv, ReadInv, ParallelPrefix, source, reading, ticking
<1>8. CachesFaithful'
  BY <1>5 DEF Inv, EngineInv, CachesFaithful, ParallelPrefix, source
<1> QED BY <1>6, <1>7, <1>8 DEF Inv, EngineInv, ParallelPrefix, source

\* Resuming from a faithful snapshot.
LEMMA ResumeInv ==
    ASSUME hist \in Histories, hist' = hist, NEW r \in Replay, SnapshotOK(hist, r), Eligible(r),
           call \in CallType, call' = call, slots' = r.slots, cursor' = r.pos, pendingTime' = r.time,
           replayStart' = r.start,
           active' = {s \in Slot : r.slots[s].pending # Missing \/ r.slots[s].events > 0}
    PROVE  /\ cursor' \in 1..(Len(recs') + 1)
           /\ replayStart' <= call.from
           /\ IF pendingTime' = NoTime THEN Rested'
              ELSE TickOpen' /\ \A s \in ComputedSlots : slots'[s].pending = Missing
<1>0. Len(hist.records) \in Nat /\ \A i \in 1..Len(hist.records) : hist.records[i].time \in Time
  BY SourceFacts
<1>1. r.start \in Time /\ r.end \in Time /\ r.slots \in [Slot -> SlotData]
      /\ r.time \in Time \cup {NoTime}
  BY DEF Replay
<1>2. replayStart' <= call.from
  BY DEF Eligible
<1>3. CASE r.time = NoTime
  <2>1. IsFirstAt(hist, r.start, r.pos)
    BY <1>3 DEF SnapshotOK
  <2>2. cursor' \in 1..(Len(recs') + 1)
    BY <2>1 DEF IsFirstAt, recs
  <2> DEFINE t == r.start - 1
  <2>3. t \in Time \cup {NoTime}
    BY <1>1, PlanFacts DEF Time, NoTime
  <2>4. \A i \in 1..Len(hist.records) : i < r.pos <=> hist.records[i].time <= t
    <3> SUFFICES ASSUME NEW i \in 1..Len(hist.records)
                 PROVE  i < r.pos <=> hist.records[i].time <= t
      OBVIOUS
    <3>1. i < r.pos <=> hist.records[i].time < r.start
      BY <2>1 DEF IsFirstAt
    <3>2. hist.records[i].time \in Int /\ r.start \in Int
      BY <1>0, <1>1, PlanFacts DEF Time
    <3>3. hist.records[i].time < r.start <=> hist.records[i].time <= r.start - 1
      BY <3>2
    <3> QED BY <3>1, <3>3
  <2>5. \A s \in Slot : /\ r.slots[s].pending = Missing /\ r.slots[s].events = 0
                        /\ AfterOK(hist, s, t, r.slots[s].state)
    BY <1>3 DEF SnapshotOK, EnteringOK
  <2>6. Settled(t)'
    <3> HIDE DEF t
    <3> QED BY <2>4, <2>5 DEF Settled, recs
  <2>7. Rested'
    BY <2>3, <2>6 DEF Rested
  <2> QED BY <1>2, <1>3, <2>2, <2>7
<1>4. CASE r.time # NoTime
  <2>1. /\ r.time = r.start /\ r.start <= r.end
        /\ r.pos \in 1..(Len(hist.records) + 1)
        /\ \A i \in 1..Len(hist.records) :
              IF i < r.pos THEN hist.records[i].time <= r.start ELSE hist.records[i].time > r.end
        /\ PendingOK(hist, r.slots, r.time, r.pos)
        /\ \A s \in ComputedSlots \cup EventSlots : r.slots[s].pending = Missing
        /\ \A s \in Slot : EnteringOK(hist, s, r.start, r.slots[s].state)
    BY <1>4 DEF SnapshotOK
  <2>2. pendingTime' <= call'.last
    BY <1>1, <2>1, PlanFacts DEF Eligible, CallType, Time
  <2>3. \A i \in 1..Len(recs') : IF i < cursor' THEN recs'[i].time <= pendingTime'
                                 ELSE recs'[i].time >= pendingTime'
    BY <1>0, <1>1, <2>1, PlanFacts DEF recs, Time
  <2>4. \A s \in Slot : slots'[s].pending # Missing \/ slots'[s].events > 0 => s \in active'
    OBVIOUS
  <2>5. TickOpen'
    BY <2>1, <2>2, <2>3, <2>4 DEF TickOpen
  <2> QED BY <1>2, <1>4, <2>1, <2>5 DEF recs
<1> QED BY <1>3, <1>4

LEMMA FreshType ==
    /\ Fresh \in [Slot -> SlotData]
    /\ \A s \in Slot : /\ Fresh[s].pending = Missing /\ Fresh[s].events = 0
                       /\ Fresh[s].state = NoState
BY PlanFacts DEF Fresh, FreshSlot, NoState, SlotData, Time

LEMMA LoadInv ==
    ASSUME Inv, Load
    PROVE  Inv'
<1> DEFINE from == IF Eligible(replay) THEN replay
                   ELSE IF Eligible(checkpoint) THEN checkpoint ELSE None
<1>0. /\ hist \in Histories /\ hist' = hist /\ kind' = kind /\ call' = call
      /\ phase' = "read" /\ replay' = None /\ checkpoint' = None /\ kept' = checkpoint
      /\ saved' = saved /\ call \in CallType
  BY DEF Inv, EngineInv, TypeOK, Load, source, ticking, CallType
<1>1. /\ replay # None => replay \in Replay /\ SnapshotOK(hist, replay)
      /\ checkpoint # None => checkpoint \in Replay /\ SnapshotOK(hist, checkpoint)
  BY DEF Inv, EngineInv, TypeOK, CachesFaithful
<1>2. /\ slots' = IF from = None THEN Fresh ELSE from.slots
      /\ active' = {s \in Slot : LET start == IF from = None THEN Fresh ELSE from.slots
                                 IN start[s].pending # Missing \/ start[s].events > 0}
      /\ cursor' = IF from = None THEN 1 ELSE from.pos
      /\ pendingTime' = IF from = None THEN NoTime ELSE from.time
      /\ replayStart' = IF from = None THEN 0 ELSE from.start
  BY DEF Load, Touched
<1>3. from # None => from \in Replay /\ SnapshotOK(hist, from) /\ Eligible(from)
  BY <1>1 DEF Eligible
<1> HIDE DEF from
<1>4. /\ slots' \in [Slot -> SlotData] /\ cursor' \in Nat \ {0}
      /\ pendingTime' \in Time \cup {NoTime} /\ replayStart' \in Time
  <2>1. CASE from = None
    BY <1>2, <2>1, FreshType, ZeroTick
  <2>2. CASE from # None
    BY <1>2, <1>3, <2>2 DEF Replay
  <2> QED BY <2>1, <2>2
<1>5. active' \subseteq Slot
  BY <1>2
<1>6. considered' \in BOOLEAN
  BY Zenon DEF Load
<1>7. TypeOK'
  BY <1>0, <1>4, <1>5, <1>6
     DEF Inv, EngineInv, TypeOK, Load, source, ticking, visiting, reply, Phases
<1>8. /\ cursor' \in 1..(Len(recs') + 1)
      /\ call.from # NoTime => replayStart' <= call.from
      /\ IF pendingTime' = NoTime THEN Rested'
         ELSE TickOpen' /\ \A s \in ComputedSlots : slots'[s].pending = Missing
  <2>1. CASE from # None
    <3>1. /\ slots' = from.slots /\ cursor' = from.pos /\ pendingTime' = from.time
          /\ replayStart' = from.start
          /\ active' = {s \in Slot : from.slots[s].pending # Missing \/ from.slots[s].events > 0}
      BY <1>2, <2>1
    <3> QED BY <1>0, <1>3, <2>1, <3>1, ResumeInv
  <2>2. CASE from = None
    <3>0. Len(hist.records) \in Nat /\ \A i \in 1..Len(hist.records) : hist.records[i].time \in Time
      BY <1>0, SourceFacts
    <3>1. slots' = Fresh /\ cursor' = 1 /\ pendingTime' = NoTime /\ replayStart' = 0
      BY <1>2, <2>2
    <3>2. \A i \in 1..Len(recs') : i < cursor' <=> recs'[i].time <= NoTime
      BY <1>0, <3>0, <3>1, PlanFacts DEF recs, Time, NoTime
    <3>3. \A s \in Slot : /\ slots'[s].pending = Missing /\ slots'[s].events = 0
                          /\ AfterOK(hist', s, NoTime, slots'[s].state)
      BY <3>1, FreshType DEF AfterOK
    <3>4. Settled(NoTime)'
      BY <3>2, <3>3 DEF Settled
    <3>5. NoTime = replayStart' - 1
      BY <3>1 DEF NoTime
    <3>6. Rested'
      BY <3>4, <3>5 DEF Rested
    <3>7. call.from # NoTime => replayStart' <= call.from
      BY <1>0, <3>1, PlanFacts DEF CallType, Time
    <3>8. cursor' \in 1..(Len(recs') + 1)
      BY <1>0, <3>0, <3>1 DEF recs
    <3> QED BY <3>1, <3>6, <3>7, <3>8
  <2> QED BY <2>1, <2>2
<1>9. ReadInv'
  BY <1>0, <1>1, <1>8 DEF Inv, EngineInv, ReadInv
<1>10. CachesFaithful'
  BY <1>0 DEF CachesFaithful
<1> QED BY <1>0, <1>7, <1>9, <1>10 DEF Inv, EngineInv

-----------------------------------------------------------------------------
(* Reading records. *)

\* No record at or after the cursor belongs to the tick that completes.
LEMMA LaterRecords ==
    ASSUME Inv, phase = "read", pendingTime # NoTime,
           HasRecord => pendingTime # recs[cursor].time
    PROVE  \A i \in 1..Len(recs) : i >= cursor => recs[i].time > pendingTime
<1> SUFFICES ASSUME NEW i \in 1..Len(recs), i >= cursor PROVE recs[i].time > pendingTime
  OBVIOUS
<1>0. /\ Len(recs) \in Nat /\ \A j \in 1..Len(recs) : recs[j].time \in Time
      /\ \A j, k \in 1..Len(recs) : j <= k => recs[j].time <= recs[k].time
  BY SourceFacts DEF Inv, recs
<1>1. cursor \in 1..Len(recs) /\ pendingTime \in Time /\ call.last \in Time
  BY <1>0 DEF Inv, EngineInv, TypeOK, ReadInv
<1>2. recs[cursor].time >= pendingTime /\ pendingTime <= call.last
  BY <1>0, <1>1 DEF Inv, EngineInv, ReadInv, TickOpen
<1>3. recs[cursor].time <= recs[i].time
  BY <1>0, <1>1
<1>4. CASE HasRecord
  BY <1>0, <1>1, <1>2, <1>3, <1>4, PlanFacts DEF Time
<1>5. CASE ~HasRecord
  BY <1>0, <1>1, <1>2, <1>3, <1>5, PlanFacts DEF HasRecord, Time
<1> QED BY <1>4, <1>5

LEMMA CompleteTickInv ==
    ASSUME Inv, phase = "read", pendingTime # NoTime,
           NEW then \in {"deliver", "tick", "end"}, CompleteTick(then),
           HasRecord => pendingTime # recs[cursor].time,
           then = "deliver" => HasRecord, then = "tick" => kind = "ghw",
           saved' \in Replay \cup {None}, saved' # None => SnapshotOK(hist, saved')
    PROVE  Inv'
<1>0. /\ phase' = "complete" /\ work' = ComputedSlots /\ after' = then
      /\ UNCHANGED <<hist, kind, replay, checkpoint, call, slots, active, cursor, pendingTime,
                     replayStart, kept, considered>>
  BY DEF CompleteTick, source, caches, reading
<1>1. TypeOK'
  BY <1>0 DEF Inv, EngineInv, TypeOK, CompleteTick, visiting, reply, Phases
<1>2. TickOpen /\ \A s \in ComputedSlots : slots[s].pending = Missing
  BY DEF Inv, EngineInv, ReadInv
<1>3. TickOpen'
  BY <1>0, <1>2 DEF TickOpen, recs
<1>4. TickClosing'
  BY <1>0, <1>2, <1>3, LaterRecords DEF TickClosing, recs
<1>5. ReadInv'
  BY <1>0, <1>4 DEF Inv, EngineInv, ReadInv, HasRecord, recs
<1>6. CachesFaithful'
  BY <1>0 DEF Inv, EngineInv, CachesFaithful
<1> QED BY <1>0, <1>1, <1>5, <1>6 DEF Inv, EngineInv

LEMMA TickEndInv ==
    ASSUME Inv, TickPassed \/ TickBoundary
    PROVE  Inv'
<1>1. saved \in Replay \cup {None} /\ (saved # None => SnapshotOK(hist, saved))
  BY DEF Inv, EngineInv, TypeOK, ReadInv
<1>2. CASE TickPassed
  BY <1>1, <1>2, CompleteTickInv DEF TickPassed
<1>3. CASE TickBoundary
  BY <1>1, <1>3, CompleteTickInv DEF TickBoundary
<1> QED BY <1>2, <1>3

\* At a record the slots hold the states entering its tick and the tick's
\* earlier records are pending, whether or not it is the tick's first.
LEMMA ArrivingFacts ==
    ASSUME Inv, Arriving
    PROVE  /\ cursor \in 1..Len(recs) /\ recs[cursor].time \in Time
           /\ recs[cursor].time <= call.last
           /\ \A s \in Slot : EnteringOK(hist, s, recs[cursor].time, slots[s].state)
           /\ PendingOK(hist, slots, recs[cursor].time, cursor)
           /\ \A s \in ComputedSlots \cup EventSlots : slots[s].pending = Missing
           /\ \A s \in Slot : slots[s].pending # Missing \/ slots[s].events > 0 => s \in active
<1>0. /\ Len(recs) \in Nat /\ \A j \in 1..Len(recs) : recs[j].time \in Time
      /\ \A j, k \in 1..Len(recs) : j <= k => recs[j].time <= recs[k].time
  BY SourceFacts DEF Inv, recs
<1>1. cursor \in 1..Len(recs) /\ recs[cursor].time \in Time /\ recs[cursor].time <= call.last
  BY <1>0 DEF Inv, EngineInv, ReadInv, Arriving, HasRecord
<1>2. CASE phase = "read" /\ pendingTime # NoTime
  <2>1. TickOpen /\ pendingTime = recs[cursor].time
        /\ \A s \in ComputedSlots : slots[s].pending = Missing
    BY <1>2 DEF Inv, EngineInv, ReadInv, Arriving
  <2> QED BY <1>1, <2>1 DEF TickOpen
<1>3. ASSUME NEW t \in Time \cup {NoTime}, Settled(t)
      PROVE  /\ \A s \in Slot : EnteringOK(hist, s, recs[cursor].time, slots[s].state)
             /\ PendingOK(hist, slots, recs[cursor].time, cursor)
             /\ \A s \in ComputedSlots \cup EventSlots : slots[s].pending = Missing
             /\ \A s \in Slot : slots[s].pending # Missing \/ slots[s].events > 0 => s \in active
  <2> DEFINE u == recs[cursor].time
  <2>1. u > t
    BY <1>0, <1>1, <1>3, PlanFacts DEF Settled, Time, NoTime
  <2>2. \A i \in 1..Len(recs) : i < cursor => recs[i].time # u
    BY <1>0, <1>1, <1>3, <2>1, PlanFacts DEF Settled, Time, NoTime
  <2>3. PendingOK(hist, slots, u, cursor)
    <3>1. \A s \in Slot : slots[s].pending = Missing
      BY <1>3 DEF Settled
    <3> QED BY <2>2, <3>1 DEF PendingOK, recs
  <2>4. ASSUME NEW s \in Slot
        PROVE  EnteringOK(hist, s, u, slots[s].state)
    <3>1. AfterOK(hist, s, t, slots[s].state)
      BY <1>3 DEF Settled
    <3>2. CASE u - 1 = t
      BY <3>1, <3>2 DEF EnteringOK
    <3>3. CASE u - 1 # t
      <4>1. u - 1 \in Time /\ t <= u - 1
        BY <1>1, <2>1, <3>3, PlanFacts DEF Time, NoTime
      <4>2. NoRecordIn(hist, t, u - 1)
        <5> SUFFICES ASSUME NEW i \in 1..Len(recs)
                     PROVE  recs[i].time <= t \/ recs[i].time > u - 1
          BY DEF NoRecordIn, recs
        <5>1. CASE i < cursor
          BY <1>3, <5>1 DEF Settled
        <5>2. CASE ~(i < cursor)
          <6>1. recs[cursor].time <= recs[i].time
            BY <1>0, <1>1, <5>2
          <6> QED BY <1>0, <1>1, <6>1, PlanFacts DEF Time
        <5> QED BY <5>1, <5>2
      <4> HIDE DEF u
      <4>3. AfterOK(hist, s, u - 1, slots[s].state)
        BY <3>1, <4>1, <4>2, StateKept DEF Inv
      <4> QED BY <4>3 DEF EnteringOK
    <3> QED BY <3>2, <3>3
  <2>5. \A s \in ComputedSlots \cup EventSlots : s \in Slot
    BY DEF ComputedSlots, EventSlots
  <2> QED BY <1>3, <2>3, <2>4, <2>5, PlanFacts DEF Settled
<1>4. CASE phase = "read" /\ pendingTime = NoTime
  BY <1>1, <1>3, <1>4 DEF Inv, EngineInv, ReadInv, Rested
<1>5. CASE phase = "deliver"
  <2>1. Settled(pendingTime) /\ pendingTime \in Time \cup {NoTime}
    BY <1>5 DEF Inv, EngineInv, TypeOK, ReadInv
  <2> QED BY <1>1, <1>3, <2>1
<1> QED BY <1>2, <1>4, <1>5 DEF Arriving

\* A checkpoint taken at the first record of the window is faithful.
LEMMA ConsidersOK ==
    ASSUME Inv, Arriving, Considers, hist' = hist
    PROVE  /\ kept' \in Replay \cup {None} /\ considered' \in BOOLEAN
           /\ kept' # None => SnapshotOK(hist, kept')
<1>0. kept \in Replay \cup {None} /\ considered \in BOOLEAN
      /\ (kept # None => SnapshotOK(hist, kept))
  BY DEF Inv, EngineInv, TypeOK, ReadInv
<1>1. CASE ~AtWindow
  BY <1>0, <1>1 DEF Considers
<1>2. CASE AtWindow
  <2> DEFINE snap == [pos |-> cursor, start |-> call.from, end |-> recs[cursor].time,
                      time |-> NoTime, slots |-> slots]
  <2>0. /\ Len(recs) \in Nat /\ \A j \in 1..Len(recs) : recs[j].time \in Time
        /\ \A j, k \in 1..Len(recs) : j <= k => recs[j].time <= recs[k].time
    BY SourceFacts DEF Inv, recs
  <2>1. considered' \in BOOLEAN
    BY <1>2, Zenon DEF Considers
  <2>2. kept' \in {None, snap}
    BY <1>2 DEF Considers
  <2>3. /\ cursor \in 1..Len(recs) /\ call.from \in Time /\ recs[cursor].time \in Time
        /\ recs[cursor].time >= call.from /\ kind # "ghw" /\ slots \in [Slot -> SlotData]
    BY <1>2, ArrivingFacts DEF Inv, EngineInv, TypeOK, AtWindow, ReportsPosition, Native
  <2>4. PICK t \in Time \cup {NoTime} : Settled(t) /\ t < call.from
    <3>1. CASE phase = "deliver"
      <4>1. Settled(pendingTime) /\ pendingTime \in Time \cup {NoTime}
            /\ pendingTime < call.from
        BY <1>2, <3>1 DEF Inv, EngineInv, TypeOK, ReadInv, AtWindow
      <4> QED BY <4>1
    <3>2. CASE phase = "read"
      <4>1. pendingTime = NoTime
        BY <1>2, <2>3, <3>2, PlanFacts DEF Arriving, AtWindow, Time, NoTime
      <4>2. PICK t \in Time \cup {NoTime} : Settled(t) /\ t = replayStart - 1
        BY <2>3, <3>2, <4>1 DEF Inv, EngineInv, ReadInv, Rested
      <4>3. replayStart \in Time /\ replayStart <= call.from
        BY <1>2, <3>2 DEF Inv, EngineInv, TypeOK, ReadInv, AtWindow
      <4>4. t < call.from
        BY <2>3, <4>2, <4>3, PlanFacts DEF Time
      <4> QED BY <4>2, <4>4
    <3> QED BY <3>1, <3>2 DEF Arriving
  <2>5. IsFirstAt(hist, call.from, cursor)
    <3>1. ASSUME NEW i \in 1..Len(recs), i < cursor PROVE recs[i].time < call.from
      BY <2>0, <2>3, <2>4, <3>1, PlanFacts DEF Settled, Time, NoTime
    <3>2. ASSUME NEW i \in 1..Len(recs), ~(i < cursor) PROVE ~(recs[i].time < call.from)
      <4>1. recs[cursor].time <= recs[i].time
        BY <2>0, <2>3, <3>2
      <4> QED BY <2>0, <2>3, <4>1, PlanFacts DEF Time
    <3> QED BY <2>0, <2>3, <3>1, <3>2 DEF IsFirstAt, recs
  <2>6. ASSUME NEW s \in Slot
        PROVE  EnteringOK(hist, s, call.from, slots[s].state)
    <3>1. AfterOK(hist, s, t, slots[s].state)
      BY <2>4 DEF Settled
    <3>2. CASE call.from - 1 = t
      BY <3>1, <3>2 DEF EnteringOK
    <3>3. CASE call.from - 1 # t
      <4>1. call.from - 1 \in Time /\ t <= call.from - 1
        BY <2>3, <2>4, <3>3, PlanFacts DEF Time, NoTime
      <4>2. NoRecordIn(hist, t, call.from - 1)
        <5> SUFFICES ASSUME NEW i \in 1..Len(recs)
                     PROVE  recs[i].time <= t \/ recs[i].time > call.from - 1
          BY DEF NoRecordIn, recs
        <5>1. CASE i < cursor
          BY <2>4, <5>1 DEF Settled
        <5>2. CASE ~(i < cursor)
          <6>1. ~(recs[i].time < call.from)
            BY <2>5, <5>2 DEF IsFirstAt, recs
          <6> QED BY <2>0, <2>3, <6>1, PlanFacts DEF Time
        <5> QED BY <5>1, <5>2
      <4>3. AfterOK(hist, s, call.from - 1, slots[s].state)
        BY <3>1, <4>1, <4>2, StateKept DEF Inv
      <4> QED BY <4>3 DEF EnteringOK
    <3> QED BY <3>2, <3>3
  <2>7. snap \in Replay
    BY <2>0, <2>3 DEF Replay
  <2>8. SnapshotOK(hist, snap)
    <3>1. snap.pos = cursor /\ snap.start = call.from /\ snap.time = NoTime /\ snap.slots = slots
      OBVIOUS
    <3>2. \A s \in Slot : slots[s].pending = Missing /\ slots[s].events = 0
      BY <2>4 DEF Settled
    <3> HIDE DEF snap
    <3> QED BY <2>5, <2>6, <3>1, <3>2 DEF SnapshotOK
  <2> QED BY <2>1, <2>2, <2>7, <2>8
<1> QED BY <1>1, <1>2

\* One record applied: what it leaves pending.
LEMMA DeliverSlots ==
    ASSUME Inv, Deliver
    PROVE  /\ slots' \in [Slot -> SlotData]
           /\ \A s \in Slot : slots'[s].state = slots[s].state
           /\ \A s \in ComputedSlots \cup EventSlots : slots'[s].pending = slots[s].pending
           /\ \A s \in Slot \ (ComputedSlots \cup EventSlots) :
                 slots'[s].pending = IF SlotBase[s] = recs[cursor].base
                                     THEN Project(s, recs[cursor].value) ELSE slots[s].pending
           /\ \A s \in Slot : slots'[s].events > 0 =>
                 slots[s].events > 0 \/ s \in active'
           /\ \A s \in Slot : slots'[s].pending # Missing =>
                 slots[s].pending # Missing \/ s \in active'
<1> DEFINE r == recs[cursor]
           touched == {s \in Slot : SlotBase[s] = r.base}
           new(s) == IF s \notin touched THEN slots[s]
                     ELSE IF s \in EventSlots THEN [slots[s] EXCEPT !.events = @ + r.count]
                     ELSE [slots[s] EXCEPT !.pending = Project(s, r.value)]
<1>1. /\ slots' = [s \in Slot |-> new(s)] /\ Arriving
      /\ active' = active \cup {s \in touched : s \in EventSlots => r.count > 0}
      /\ \A s \in touched \cap EventSlots : slots[s].events + r.count <= MaxCount
  BY DEF Deliver, Fits
<1>2. cursor \in 1..Len(recs) /\ slots \in [Slot -> SlotData]
  BY <1>1, ArrivingFacts DEF Inv, EngineInv, TypeOK
<1>3. IsRecord(r) /\ r.base \in Bases /\ Computed \notin Bases
  BY <1>2, SourceAssumption, PlanAssumption DEF Inv, recs, IsRecord
<1>4. r.base \in EventBases => r.count \in Nat
  BY <1>3 DEF IsRecord
<1>5. \A s \in Slot : s \in touched /\ s \notin EventSlots => Project(s, r.value) \in Value
  BY <1>2, SourceAssumption DEF Inv, recs
<1>6. \A s \in ComputedSlots : s \notin touched
  BY <1>3 DEF ComputedSlots
<1>7. \A s \in Slot : s \in touched /\ s \in EventSlots => r.count \in Nat
  BY <1>4 DEF EventSlots
<1>8. ASSUME NEW s \in Slot
      PROVE  /\ new(s) \in SlotData /\ new(s).state = slots[s].state
             /\ new(s).pending = IF s \in touched /\ s \notin EventSlots
                                 THEN Project(s, r.value) ELSE slots[s].pending
             /\ new(s).events > 0 => slots[s].events > 0 \/ s \in active'
             /\ new(s).pending # Missing => slots[s].pending # Missing \/ s \in active'
  <2> HIDE DEF r, touched
  <2>0. slots[s] \in SlotData
    BY <1>2
  <2>1. CASE s \notin touched
    BY <2>0, <2>1
  <2>2. CASE s \in touched /\ s \in EventSlots
    <3>1. new(s) = [slots[s] EXCEPT !.events = @ + r.count]
      BY <2>2
    <3>2. r.count \in Nat /\ slots[s].events + r.count <= MaxCount
      BY <1>1, <1>7, <2>2
    <3>3. slots[s].events \in 0..MaxCount
      BY <2>0 DEF SlotData
    <3>4. slots[s].events + r.count \in 0..MaxCount
      BY <3>2, <3>3, PlanFacts
    <3>5. new(s) \in SlotData /\ new(s).state = slots[s].state
          /\ new(s).pending = slots[s].pending /\ new(s).events = slots[s].events + r.count
      BY <2>0, <3>1, <3>4 DEF SlotData
    <3>6. r.count > 0 => s \in active'
      BY <1>1, <2>2
    <3>7. new(s).events > 0 => slots[s].events > 0 \/ r.count > 0
      BY <3>2, <3>3, <3>5
    <3> HIDE DEF new
    <3> QED BY <2>2, <3>5, <3>6, <3>7
  <2>3. CASE s \in touched /\ s \notin EventSlots
    <3>1. new(s) = [slots[s] EXCEPT !.pending = Project(s, r.value)]
      BY <2>3
    <3>2. Project(s, r.value) \in Value
      BY <1>5, <2>3
    <3>3. new(s) \in SlotData /\ new(s).state = slots[s].state
          /\ new(s).pending = Project(s, r.value) /\ new(s).events = slots[s].events
      BY <2>0, <3>1, <3>2 DEF SlotData
    <3>4. s \in active'
      BY <1>1, <2>3
    <3> HIDE DEF new
    <3> QED BY <2>3, <3>3, <3>4
  <2> QED BY <2>1, <2>2, <2>3
<1>9. \A s \in Slot : slots'[s] = new(s)
  BY <1>1
<1>10. slots' \in [Slot -> SlotData]
  <2> HIDE DEF new
  <2> QED BY <1>1, <1>8
<1>11. \A s \in ComputedSlots \cup EventSlots : s \in Slot
  BY DEF ComputedSlots, EventSlots
<1>12. \A s \in Slot \ (ComputedSlots \cup EventSlots) :
          s \in touched /\ s \notin EventSlots <=> SlotBase[s] = recs[cursor].base
  OBVIOUS
<1> HIDE DEF new, touched
<1> QED BY <1>6, <1>8, <1>9, <1>10, <1>11, <1>12

LEMMA DeliverInv ==
    ASSUME Inv, Deliver
    PROVE  Inv'
<1> DEFINE r == recs[cursor]
<1>0. /\ Len(recs) \in Nat /\ \A j \in 1..Len(recs) : recs[j].time \in Time
      /\ \A j, k \in 1..Len(recs) : j <= k => recs[j].time <= recs[k].time
  BY SourceFacts DEF Inv, recs
<1>1. /\ Arriving /\ Considers /\ pendingTime' = r.time /\ cursor' = cursor + 1
      /\ phase' = "read" /\ active \subseteq active' /\ active' \subseteq active \cup Slot
      /\ UNCHANGED <<hist, kind, replay, checkpoint, call, replayStart, work, after, saved,
                     emitted, todo, prevTick, prevEvents, acc, received, result>>
  BY DEF Deliver, source, caches, ticking, visiting, reply
<1>2. /\ cursor \in 1..Len(recs) /\ r.time \in Time /\ r.time <= call.last
      /\ \A s \in Slot : EnteringOK(hist, s, r.time, slots[s].state)
      /\ PendingOK(hist, slots, r.time, cursor)
      /\ \A s \in ComputedSlots \cup EventSlots : slots[s].pending = Missing
      /\ \A s \in Slot : slots[s].pending # Missing \/ slots[s].events > 0 => s \in active
  BY <1>1, ArrivingFacts
<1>3. /\ kept' \in Replay \cup {None} /\ considered' \in BOOLEAN
      /\ kept' # None => SnapshotOK(hist, kept')
  BY <1>1, ConsidersOK
<1> HIDE DEF r
<1>4. TypeOK'
  <2>1. active' \subseteq Slot
    BY <1>1 DEF Inv, EngineInv, TypeOK
  <2>2. cursor' \in Nat \ {0} /\ pendingTime' \in Time
    BY <1>0, <1>1, <1>2
  <2>3. slots' \in [Slot -> SlotData]
    BY DeliverSlots
  <2>4. kept' \in Replay \cup {None} /\ considered' \in BOOLEAN
    BY <1>3
  <2> QED BY <1>1, <2>1, <2>2, <2>3, <2>4 DEF Inv, EngineInv, TypeOK, Phases
<1>5. PendingOK(hist, slots', r.time, cursor + 1)
  <2> SUFFICES ASSUME NEW s \in Slot \ (ComputedSlots \cup EventSlots)
               PROVE  LET wrote == {i \in 1..Len(recs) :
                                      /\ i < cursor + 1
                                      /\ recs[i].base = SlotBase[s] /\ recs[i].time = r.time}
                      IN IF wrote = {} THEN slots'[s].pending = Missing
                         ELSE \E i \in wrote : /\ \A j \in wrote : j <= i
                                               /\ slots'[s].pending = Project(s, recs[i].value)
    BY DEF PendingOK, recs
  <2> DEFINE old == {i \in 1..Len(recs) :
                       i < cursor /\ recs[i].base = SlotBase[s] /\ recs[i].time = r.time}
             wrote == {i \in 1..Len(recs) :
                       i < cursor + 1 /\ recs[i].base = SlotBase[s] /\ recs[i].time = r.time}
  <2>1. CASE SlotBase[s] = r.base
    <3>1. cursor \in wrote /\ \A j \in wrote : j <= cursor
      BY <1>0, <1>2, <2>1 DEF r
    <3>2. slots'[s].pending = Project(s, recs[cursor].value)
      BY <2>1, DeliverSlots DEF r
    <3> QED BY <3>1, <3>2
  <2>2. CASE SlotBase[s] # r.base
    <3>1. wrote = old
      BY <1>0, <1>2, <2>2 DEF r
    <3>2. slots'[s].pending = slots[s].pending
      BY <2>2, DeliverSlots DEF r
    <3>3. IF old = {} THEN slots[s].pending = Missing
          ELSE \E i \in old : /\ \A j \in old : j <= i
                              /\ slots[s].pending = Project(s, recs[i].value)
      BY <1>2 DEF PendingOK, recs
    <3> HIDE DEF old, wrote
    <3>4. IF wrote = {} THEN slots'[s].pending = Missing
          ELSE \E i \in wrote : /\ \A j \in wrote : j <= i
                                /\ slots'[s].pending = Project(s, recs[i].value)
      BY <3>1, <3>2, <3>3
    <3> QED BY <3>4 DEF wrote
  <2> QED BY <2>1, <2>2
<1>6. TickOpen'
  <2>1. \A i \in 1..Len(recs') : IF i < cursor' THEN recs'[i].time <= pendingTime'
                                 ELSE recs'[i].time >= pendingTime'
    <3> SUFFICES ASSUME NEW i \in 1..Len(recs)
                 PROVE  IF i < cursor + 1 THEN recs[i].time <= r.time ELSE recs[i].time >= r.time
      BY <1>1 DEF recs
    <3>1. CASE i < cursor + 1
      <4>1. i <= cursor
        BY <1>0, <1>2, <3>1
      <4> QED BY <1>0, <1>2, <3>1, <4>1 DEF r
    <3>2. CASE ~(i < cursor + 1)
      <4>1. cursor <= i
        BY <1>0, <1>2, <3>2
      <4>2. r.time <= recs[i].time
        BY <1>0, <1>2, <4>1 DEF r
      <4> QED BY <1>0, <1>2, <3>2, <4>2, PlanFacts DEF Time
    <3> QED BY <3>1, <3>2
  <2>2. \A s \in Slot : EnteringOK(hist, s, r.time, slots'[s].state)
    BY <1>2, DeliverSlots
  <2>3. \A s \in EventSlots : slots'[s].pending = Missing
    BY <1>2, DeliverSlots
  <2>4. \A s \in Slot : slots'[s].pending # Missing \/ slots'[s].events > 0 => s \in active'
    BY <1>1, <1>2, DeliverSlots
  <2> QED BY <1>1, <1>2, <1>5, <2>1, <2>2, <2>3, <2>4 DEF TickOpen
<1>7. ReadInv'
  <2>1. cursor' \in 1..(Len(recs') + 1)
    BY <1>0, <1>1, <1>2 DEF recs
  <2>2. \A s \in ComputedSlots : slots'[s].pending = Missing
    BY <1>2, DeliverSlots
  <2>3. pendingTime' # NoTime
    BY <1>1, <1>2, ZeroTick
  <2>4. /\ call.from # NoTime => replayStart <= call.from
        /\ replay = None /\ checkpoint = None /\ (saved # None => SnapshotOK(hist, saved))
    BY <1>1 DEF Inv, EngineInv, ReadInv, Arriving
  <2> QED BY <1>1, <1>3, <1>6, <2>1, <2>2, <2>3, <2>4 DEF ReadInv
<1>8. CachesFaithful'
  BY <1>1 DEF Inv, EngineInv, CachesFaithful
<1> QED BY <1>1, <1>4, <1>7, <1>8 DEF Inv, EngineInv

\* The snapshot taken at the end of a successful read is faithful.
LEMMA SnapshotFaithful ==
    ASSUME Inv, phase = "read", ~HasRecord, kind # "ghw"
    PROVE  Snapshot \in Replay /\ SnapshotOK(hist, Snapshot)
<1>0. /\ Len(recs) \in Nat /\ \A j \in 1..Len(recs) : recs[j].time \in Time
      /\ \A j, k \in 1..Len(recs) : j <= k => recs[j].time <= recs[k].time
  BY SourceFacts DEF Inv, recs
<1>1. /\ cursor \in 1..(Len(recs) + 1) /\ replayStart \in Time /\ call.last \in Time
      /\ pendingTime \in Time \cup {NoTime} /\ slots \in [Slot -> SlotData]
  BY DEF Inv, EngineInv, TypeOK, ReadInv
<1>2. Snapshot \in Replay
  BY <1>0, <1>1, ZeroTick DEF Snapshot, Replay
<1>3. /\ Snapshot.pos = cursor /\ Snapshot.end = call.last /\ Snapshot.time = pendingTime
      /\ Snapshot.slots = slots
      /\ Snapshot.start = IF pendingTime = NoTime THEN replayStart ELSE pendingTime
  BY DEF Snapshot
<1>4. CASE pendingTime = NoTime
  <2>1. Settled(replayStart - 1)
    BY <1>4 DEF Inv, EngineInv, ReadInv, Rested
  <2>2. IsFirstAt(hist, replayStart, cursor)
    BY <1>0, <1>1, <2>1, PlanFacts DEF Settled, IsFirstAt, recs, Time
  <2>3. \A s \in Slot : /\ slots[s].pending = Missing /\ slots[s].events = 0
                        /\ EnteringOK(hist, s, replayStart, slots[s].state)
    BY <2>1 DEF Settled, EnteringOK
  <2> QED BY <1>2, <1>3, <1>4, <2>2, <2>3 DEF SnapshotOK
<1>5. CASE pendingTime # NoTime
  <2>1. TickOpen /\ \A s \in ComputedSlots : slots[s].pending = Missing
    BY <1>5 DEF Inv, EngineInv, ReadInv
  <2>2. ASSUME NEW i \in 1..Len(recs)
        PROVE  IF i < cursor THEN recs[i].time <= pendingTime ELSE recs[i].time > call.last
    <3>1. CASE i < cursor
      BY <2>1, <3>1 DEF TickOpen
    <3>2. CASE ~(i < cursor)
      <4>1. cursor \in 1..Len(recs) /\ cursor <= i
        BY <1>0, <1>1, <3>2
      <4>2. recs[cursor].time > call.last
        BY <1>0, <1>1, <4>1, PlanFacts DEF HasRecord, Time
      <4>3. recs[cursor].time <= recs[i].time
        BY <1>0, <4>1
      <4> QED BY <1>0, <1>1, <3>2, <4>1, <4>2, <4>3, PlanFacts DEF Time
    <3> QED BY <3>1, <3>2
  <2>3. pendingTime <= call.last
    BY <2>1 DEF TickOpen
  <2> QED BY <1>1, <1>2, <1>3, <1>5, <2>1, <2>2, <2>3 DEF SnapshotOK, TickOpen, recs
<1> QED BY <1>4, <1>5

LEMMA EndOfRecordsInv ==
    ASSUME Inv, EndOfRecords
    PROVE  Inv'
<1>1. phase = "read" /\ ~HasRecord
  BY DEF EndOfRecords
<1>2. saved' \in {None, Snapshot} /\ (kind = "ghw" => saved' = None)
  BY DEF EndOfRecords, SavesReplay, Native
<1>3. saved' \in Replay \cup {None} /\ (saved' # None => SnapshotOK(hist, saved'))
  BY <1>1, <1>2, SnapshotFaithful
<1>4. CASE pendingTime # NoTime
  BY <1>1, <1>3, <1>4, CompleteTickInv DEF EndOfRecords
<1>5. CASE pendingTime = NoTime
  <2>1. /\ phase' = "store"
        /\ UNCHANGED <<hist, kind, replay, checkpoint, call, slots, active, cursor, pendingTime,
                       replayStart, kept, considered, work, after>>
    BY <1>5 DEF EndOfRecords, source, caches, reading
  <2>2. TypeOK'
    BY <1>3, <1>5, <2>1 DEF Inv, EngineInv, TypeOK, EndOfRecords, visiting, reply, Phases
  <2>3. ReadInv'
    BY <1>1, <1>3, <2>1 DEF Inv, EngineInv, ReadInv, recs
  <2>4. CachesFaithful'
    BY <2>1 DEF Inv, EngineInv, CachesFaithful
  <2> QED BY <2>1, <2>2, <2>3, <2>4 DEF Inv, EngineInv
<1> QED BY <1>4, <1>5

-----------------------------------------------------------------------------
(* Completing a tick. *)

LEMMA SlotKinds ==
    /\ ComputedSlots \cap EventSlots = {}
    /\ ComputedSlots \subseteq Slot /\ EventSlots \subseteq Slot
BY PlanAssumption DEF ComputedSlots, EventSlots, Bases

\* The value a slot shows before tick t, in terms of what it means.
LEMMA EnteringValue ==
    ASSUME NEW h \in Histories, NEW s \in Slot, NEW t \in Time, NEW st,
           EnteringOK(h, s, t, st)
    PROVE  /\ t = 0 => st.value = Missing
           /\ t # 0 => t - 1 \in Time /\ st.value = h.obs[s][t - 1]
<1>1. CASE t = 0
  BY <1>1 DEF EnteringOK, AfterOK, NoTime, NoState
<1>2. CASE t # 0
  <2>1. t - 1 \in Time /\ t - 1 # NoTime
    BY <1>2, PlanFacts DEF Time, NoTime
  <2> QED BY <1>2, <2>1 DEF EnteringOK, AfterOK, StateOK
<1> QED BY <1>1, <1>2

\* Once all records of a tick are pending, base slots show the tick's meaning.
LEMMA PendingShows ==
    ASSUME NEW h \in Histories, NEW t \in Time, NEW ds, NEW pos \in Nat,
           NEW s \in Slot, s \notin ComputedSlots,
           EnteringOK(h, s, t, ds[s].state), PendingOK(h, ds, t, pos),
           \A e \in EventSlots : ds[e].pending = Missing,
           \A i \in 1..Len(h.records) : i < pos <=> h.records[i].time <= t
    PROVE  Current(ds[s]) = h.obs[s][t]
<1>0. /\ Len(h.records) \in Nat /\ \A j \in 1..Len(h.records) : h.records[j].time \in Time
      /\ \A j, k \in 1..Len(h.records) : j <= k => h.records[j].time <= h.records[k].time
  BY SourceFacts
<1>1. h \in Histories /\ t \in Time /\ pos \in Nat
  OBVIOUS
<1>2. /\ EnteringOK(h, s, t, ds[s].state)
      /\ PendingOK(h, ds, t, pos)
      /\ \A e \in EventSlots : ds[e].pending = Missing
      /\ \A i \in 1..Len(h.records) : i < pos <=> h.records[i].time <= t
  OBVIOUS
<1>3. /\ t = 0 => ds[s].state.value = Missing
      /\ t # 0 => t - 1 \in Time /\ ds[s].state.value = h.obs[s][t - 1]
  BY EnteringValue
<1>4. CASE s \in EventSlots
  BY <1>1, <1>2, <1>3, <1>4, MeaningAssumption DEF Current
<1>5. CASE s \notin EventSlots
  <2> DEFINE wrote == {i \in 1..Len(h.records) :
                         i < pos /\ h.records[i].base = SlotBase[s] /\ h.records[i].time = t}
  <2>1. IF wrote = {} THEN ds[s].pending = Missing
        ELSE \E i \in wrote : /\ \A j \in wrote : j <= i
                              /\ ds[s].pending = Project(s, h.records[i].value)
    BY <1>2, <1>5 DEF PendingOK
  <2>2. CASE wrote = {}
    <3>1. ASSUME NEW i \in 1..Len(h.records), h.records[i].base = SlotBase[s]
          PROVE  h.records[i].time # t
      <4>1. h.records[i].time = t => i < pos
        BY <1>1, <1>2, PlanFacts DEF Time
      <4>2. ~(i < pos /\ h.records[i].base = SlotBase[s] /\ h.records[i].time = t)
        BY <2>2
      <4> QED BY <3>1, <4>1, <4>2
    <3>2. Current(ds[s]) = ds[s].state.value
      BY <2>1, <2>2 DEF Current
    <3>3. CASE t = 0
      <4>1. \A i \in 1..Len(h.records) : ~(h.records[i].base = SlotBase[s] /\ h.records[i].time <= t)
        BY <1>0, <3>1, <3>3, PlanFacts DEF Time
      <4>2. h.obs[s][t] = Missing
        BY <1>1, <1>5, <4>1, MeaningAssumption
      <4> QED BY <1>3, <3>2, <3>3, <4>2
    <3>4. CASE t # 0
      <4>1. \A i \in 1..Len(h.records) : h.records[i].base = SlotBase[s] =>
               (h.records[i].time <= t <=> h.records[i].time <= t - 1)
        BY <1>0, <1>1, <3>1, <3>4, PlanFacts DEF Time
      <4>2. \A i : IsLast(h, SlotBase[s], t, i) <=> IsLast(h, SlotBase[s], t - 1, i)
        BY <4>1 DEF IsLast
      <4>3. h.obs[s][t] = h.obs[s][t - 1]
        <5>1. t - 1 \in Time
          BY <1>3, <3>4
        <5>2. CASE \A i \in 1..Len(h.records) : ~(h.records[i].base = SlotBase[s] /\ h.records[i].time <= t)
          <6>1. \A i \in 1..Len(h.records) : ~(h.records[i].base = SlotBase[s] /\ h.records[i].time <= t - 1)
            BY <4>1, <5>2
          <6> QED BY <1>1, <1>5, <5>1, <5>2, <6>1, MeaningAssumption
        <5>3. CASE \E i \in 1..Len(h.records) : h.records[i].base = SlotBase[s] /\ h.records[i].time <= t
          <6>1. PICK i \in 1..Len(h.records) : IsLast(h, SlotBase[s], t, i)
            BY <1>1, <1>5, <5>3, BaseCases
          <6>2. IsLast(h, SlotBase[s], t - 1, i)
            BY <4>2, <6>1
          <6> QED BY <1>1, <1>5, <5>1, <6>1, <6>2, MeaningAssumption
        <5> QED BY <5>2, <5>3
      <4> QED BY <1>3, <3>2, <3>4, <4>3
    <3> QED BY <3>3, <3>4
  <2>3. CASE wrote # {}
    <3>1. PICK i \in wrote : /\ \A j \in wrote : j <= i
                             /\ ds[s].pending = Project(s, h.records[i].value)
      BY <2>1, <2>3
    <3>2. IsLast(h, SlotBase[s], t, i)
      <4> SUFFICES ASSUME NEW j \in 1..Len(h.records), h.records[j].base = SlotBase[s], h.records[j].time <= t
                   PROVE  j <= i
        BY <1>0, <1>1, <3>1, PlanFacts DEF IsLast, Time
      <4>1. j < pos
        BY <1>2
      <4>2. CASE h.records[j].time = t
        BY <3>1, <4>1, <4>2
      <4>3. CASE h.records[j].time # t
        BY SMTT(20), <1>0, <1>1, <3>1, <4>3, PlanFacts DEF Time
      <4> QED BY <4>2, <4>3
    <3>3. h.obs[s][t] = Project(s, h.records[i].value)
      BY <1>1, <1>5, <3>1, <3>2, MeaningAssumption
    <3>4. Project(s, h.records[i].value) \in Value
      BY <1>1, <1>5, <3>1, SourceAssumption
    <3> QED BY <3>1, <3>3, <3>4, PlanFacts DEF Current
  <2> QED BY <2>2, <2>3
<1> QED BY <1>4, <1>5

LEMMA BaseCurrent ==
    ASSUME Inv, phase = "complete", NEW s \in Slot, s \notin ComputedSlots
    PROVE  Current(slots[s]) = hist.obs[s][pendingTime]
<1>0. Len(recs) \in Nat /\ \A j \in 1..Len(recs) : recs[j].time \in Time
  BY SourceFacts DEF Inv, recs
<1>1. hist \in Histories /\ pendingTime \in Time /\ cursor \in Nat
  BY DEF Inv, EngineInv, TypeOK, ReadInv
<1>2. /\ EnteringOK(hist, s, pendingTime, slots[s].state)
      /\ PendingOK(hist, slots, pendingTime, cursor)
      /\ \A e \in EventSlots : slots[e].pending = Missing
      /\ \A i \in 1..Len(recs) : i < cursor <=> recs[i].time <= pendingTime
  BY <1>0, <1>1, PlanFacts DEF Inv, EngineInv, ReadInv, TickClosing, TickOpen, Time
<1> QED BY <1>1, <1>2, PendingShows DEF recs

\* The value a computed slot receives, or keeps, is the meaning of its tick.
LEMMA ComputeMeaning ==
    ASSUME Inv, phase = "complete", NEW s \in work, \A o \in work : s <= o
    PROVE  LET cur == [i \in Slot |-> Current(slots[i])]
               live == Live(s)
           IN /\ Assemble(s, cur) = hist.obs[s][pendingTime]
              /\ live => hist.obs[s][pendingTime] # Missing
              /\ ~live => Current(slots[s]) = hist.obs[s][pendingTime]
<1> DEFINE t == pendingTime
           cur == [i \in Slot |-> Current(slots[i])]
<1>1. /\ hist \in Histories /\ t \in Time /\ s \in ComputedSlots /\ s \in Slot
      /\ work \subseteq ComputedSlots
  BY SlotKinds DEF Inv, EngineInv, TypeOK, ReadInv
<1>2. /\ \A i \in Slot : EnteringOK(hist, i, t, slots[i].state)
      /\ slots[s].pending = Missing
      /\ \A i \in ComputedSlots : i \notin work => Current(slots[i]) = hist.obs[i][t]
  BY <1>1 DEF Inv, EngineInv, ReadInv, TickClosing, TickOpen
<1>3. ASSUME NEW i \in Inputs(s)
      PROVE  i \in Slot /\ Current(slots[i]) = hist.obs[i][t]
  <2>1. i \in Slot /\ i < s /\ s \in Nat /\ i \in Nat
    BY <1>1, InputsEarlier, PlanFacts DEF Slot
  <2>2. i \notin work
    BY <2>1
  <2> QED BY <1>2, <2>1, <2>2, BaseCurrent
<1> HIDE DEF t
<1>4. \A i \in Inputs(s) : cur[i] = hist.obs[i][t]
  BY <1>3
<1>5. Assemble(s, cur) = hist.obs[s][t]
  <2> HIDE DEF cur
  <2> QED BY <1>1, <1>4, ObsComputed
<1>6. ASSUME NEW i \in Inputs(s), slots[i].pending # Missing
      PROVE  hist.obs[s][t] # Missing
  <2>1. hist.obs[i][t] # Missing
    BY <1>3, <1>6 DEF Current
  <2> QED BY <1>1, <1>6, <2>1, ComputedMissing
<1>7. ASSUME \A i \in Inputs(s) : slots[i].pending = Missing
      PROVE  Current(slots[s]) = hist.obs[s][t]
  <2>1. \A i \in Inputs(s) : slots[i].state.value = hist.obs[i][t]
    BY <1>3, <1>7 DEF Current
  <2>2. Current(slots[s]) = slots[s].state.value
    BY <1>2 DEF Current
  <2>3. CASE t = 0
    <3>1. \A i \in Inputs(s) : hist.obs[i][t] = Missing
      BY <1>1, <1>2, <1>3, <2>1, <2>3, EnteringValue
    <3>2. hist.obs[s][t] = Missing
      BY <1>1, <3>1, ComputedMissing
    <3> QED BY <1>1, <1>2, <2>2, <2>3, <3>2, EnteringValue
  <2>4. CASE t # 0
    <3>1. t - 1 \in Time /\ slots[s].state.value = hist.obs[s][t - 1]
      BY <1>1, <1>2, <2>4, EnteringValue
    <3>2. \A i \in Inputs(s) : hist.obs[i][t - 1] = cur[i]
      BY <1>1, <1>2, <1>3, <1>4, <2>1, <2>4, EnteringValue
    <3>3. Assemble(s, cur) = hist.obs[s][t - 1]
      <4> HIDE DEF cur
      <4> QED BY <1>1, <3>1, <3>2, ObsComputed
    <3> QED BY <1>5, <2>2, <3>1, <3>3
  <2> QED BY <2>3, <2>4
<1> QED BY <1>5, <1>6, <1>7 DEF t, Live

LEMMA ComputeInv ==
    ASSUME Inv, Compute
    PROVE  Inv'
<1> DEFINE cur == [i \in Slot |-> Current(slots[i])]
<1>1. PICK s \in work :
        /\ phase = "complete"
        /\ \A o \in work : s <= o
        /\ work' = work \ {s}
        /\ slots' = IF \E i \in Inputs(s) : slots[i].pending # Missing
                    THEN [slots EXCEPT ![s].pending = Assemble(s, cur)] ELSE slots
        /\ active' = IF \E i \in Inputs(s) : slots[i].pending # Missing
                     THEN active \cup {s} ELSE active
  BY Zenon DEF Compute, Live
<1>2. UNCHANGED <<hist, kind, replay, checkpoint, call, phase, cursor, pendingTime, replayStart,
                  kept, considered, after, saved, emitted, todo, prevTick, prevEvents, acc,
                  received, result>>
  BY DEF Compute, source, caches, visiting, reply
<1>3. /\ Assemble(s, cur) = hist.obs[s][pendingTime]
      /\ (\E i \in Inputs(s) : slots[i].pending # Missing)
            => hist.obs[s][pendingTime] # Missing
      /\ ~(\E i \in Inputs(s) : slots[i].pending # Missing)
            => Current(slots[s]) = hist.obs[s][pendingTime]
  BY <1>1, ComputeMeaning DEF Live
<1> HIDE DEF cur
<1>4. /\ hist \in Histories /\ pendingTime \in Time /\ slots \in [Slot -> SlotData]
      /\ s \in ComputedSlots /\ s \in Slot /\ s \notin EventSlots
      /\ active \subseteq Slot /\ work \subseteq ComputedSlots
  BY <1>1, SlotKinds DEF Inv, EngineInv, TypeOK, ReadInv
<1>5. /\ slots' \in [Slot -> SlotData]
      /\ \A i \in Slot : /\ slots'[i].state = slots[i].state
                         /\ slots'[i].events = slots[i].events
                         /\ i # s => slots'[i] = slots[i]
      /\ \A i \in Slot : slots'[i].pending # slots[i].pending => i \in active'
      /\ Current(slots'[s]) = hist.obs[s][pendingTime]
      /\ active \subseteq active' /\ active' \subseteq Slot
  <2>1. CASE \E i \in Inputs(s) : slots[i].pending # Missing
    <3>1. hist.obs[s][pendingTime] \in Value
      BY <1>3, <1>4, <2>1, MeaningAssumption
    <3>2. slots' = [slots EXCEPT ![s].pending = hist.obs[s][pendingTime]]
      BY <1>1, <1>3, <2>1
    <3>3. active' = active \cup {s}
      BY <1>1, <2>1
    <3>4. slots' \in [Slot -> SlotData]
      BY <1>4, <3>1, <3>2 DEF SlotData
    <3>5. Current(slots'[s]) = hist.obs[s][pendingTime]
      BY <1>3, <1>4, <2>1, <3>2 DEF Current, SlotData
    <3> QED BY <1>4, <3>2, <3>3, <3>4, <3>5 DEF SlotData
  <2>2. CASE ~(\E i \in Inputs(s) : slots[i].pending # Missing)
    BY <1>1, <1>3, <1>4, <2>2
  <2> QED BY <2>1, <2>2
<1>6. TickClosing
  BY <1>1 DEF Inv, EngineInv, ReadInv
<1>7. TypeOK'
  BY <1>1, <1>2, <1>4, <1>5 DEF Inv, EngineInv, TypeOK
<1>8. TickClosing'
  <2>1. PendingOK(hist, slots', pendingTime, cursor)
    <3>1. \A b \in Slot \ (ComputedSlots \cup EventSlots) : slots'[b] = slots[b]
      BY <1>4, <1>5
    <3> QED BY <1>6, <3>1 DEF TickClosing, TickOpen, PendingOK
  <2>2. TickOpen'
    <3>1. \A b \in EventSlots : slots'[b] = slots[b]
      BY <1>4, <1>5, SlotKinds
    <3>2. \A i \in Slot : slots'[i].pending # Missing \/ slots'[i].events > 0 => i \in active'
      BY <1>5, <1>6 DEF TickClosing, TickOpen
    <3> QED BY <1>2, <1>5, <1>6, <2>1, <3>1, <3>2 DEF TickClosing, TickOpen, recs
  <2>3. \A i \in ComputedSlots :
          IF i \in work' THEN slots'[i].pending = Missing
          ELSE Current(slots'[i]) = hist.obs[i][pendingTime]
    <3> SUFFICES ASSUME NEW i \in ComputedSlots
                 PROVE  IF i \in work' THEN slots'[i].pending = Missing
                        ELSE Current(slots'[i]) = hist.obs[i][pendingTime]
      OBVIOUS
    <3>1. CASE i = s
      BY <1>1, <1>5, <3>1
    <3>2. CASE i # s
      <4>1. slots'[i] = slots[i] /\ (i \in work' <=> i \in work)
        BY <1>1, <1>5, <3>2, SlotKinds
      <4> QED BY <1>6, <4>1 DEF TickClosing
    <3> QED BY <3>1, <3>2
  <2> QED BY <1>2, <1>6, <2>2, <2>3 DEF TickClosing, recs
<1>9. ReadInv'
  BY <1>1, <1>2, <1>8 DEF Inv, EngineInv, ReadInv, HasRecord, recs
<1>10. CachesFaithful'
  BY <1>2 DEF Inv, EngineInv, CachesFaithful
<1> QED BY <1>2, <1>7, <1>9, <1>10 DEF Inv, EngineInv

\* A completed tick leaves every slot with the state after it.
LEMMA TickCommitted ==
    ASSUME Inv, FinishTick
    PROVE  /\ slots' \in [Slot -> SlotData]
           /\ \A s \in Slot :
                 /\ slots'[s].pending = Missing /\ slots'[s].events = 0
                 /\ StateOK(hist, s, pendingTime, slots'[s].state)
                 /\ Commit(slots[s], pendingTime).state \in StateType
<1>1. /\ hist \in Histories /\ pendingTime \in Time /\ slots \in [Slot -> SlotData]
      /\ phase = "complete" /\ work = {}
      /\ slots' = [s \in Slot |-> IF s \in active THEN Commit(slots[s], pendingTime)
                                  ELSE slots[s]]
  BY DEF FinishTick, Inv, EngineInv, TypeOK, ReadInv
<1>2. /\ \A s \in Slot : EnteringOK(hist, s, pendingTime, slots[s].state)
      /\ \A s \in Slot : slots[s].pending # Missing \/ slots[s].events > 0 => s \in active
      /\ \A s \in ComputedSlots : Current(slots[s]) = hist.obs[s][pendingTime]
  BY <1>1 DEF Inv, EngineInv, ReadInv, TickClosing, TickOpen
<1>3. ASSUME NEW s \in Slot
      PROVE  /\ Commit(slots[s], pendingTime) \in SlotData
             /\ Commit(slots[s], pendingTime).pending = Missing
             /\ Commit(slots[s], pendingTime).events = 0
             /\ Commit(slots[s], pendingTime).state \in StateType
             /\ StateOK(hist, s, pendingTime, Commit(slots[s], pendingTime).state)
  <2>1. Current(slots[s]) = hist.obs[s][pendingTime]
    BY <1>1, <1>2, BaseCurrent
  <2>2. StateOK(hist, s, pendingTime, Commit(slots[s], pendingTime).state)
    BY <1>1, <1>2, <2>1, CommitOK
  <2>3. slots[s] \in SlotData
    BY <1>1
  <2>4. Commit(slots[s], pendingTime).state \in StateType
    BY <1>1, <2>3 DEF Commit, Changed, SlotData, StateType
  <2> QED BY <2>2, <2>4, PlanFacts DEF Commit, SlotData, StateType
<1>4. ASSUME NEW s \in Slot, s \notin active
      PROVE  /\ slots[s].pending = Missing /\ slots[s].events = 0
             /\ slots[s].state = Commit(slots[s], pendingTime).state
  <2>1. slots[s].events \in 0..MaxCount /\ MaxCount \in Nat
    BY <1>1, PlanFacts DEF SlotData
  <2>2. slots[s].pending = Missing /\ slots[s].events = 0
    BY <1>2, <1>4, <2>1
  <2> QED BY <2>2 DEF Commit, Changed
<1>5. ASSUME NEW s \in Slot
      PROVE  /\ slots'[s] \in SlotData
             /\ slots'[s].pending = Missing /\ slots'[s].events = 0
             /\ StateOK(hist, s, pendingTime, slots'[s].state)
  <2>1. CASE s \in active
    <3>1. slots'[s] = Commit(slots[s], pendingTime)
      BY <1>1, <2>1
    <3> QED BY <1>3, <3>1
  <2>2. CASE s \notin active
    <3>1. slots'[s] = slots[s]
      BY <1>1, <2>2
    <3> QED BY <1>1, <1>3, <1>4, <2>2, <3>1
  <2> QED BY <2>1, <2>2
<1>6. slots' \in [Slot -> SlotData]
  <2>1. slots' = [s \in Slot |-> slots'[s]]
    BY <1>1
  <2> QED BY <1>5, <2>1
<1> QED BY <1>3, <1>5, <1>6

\* What a completed tick hands over is typed.
LEMMA DeliveryType ==
    ASSUME Inv, phase = "complete"
    PROVE  Delivery \subseteq Observations
<1>1. /\ pendingTime \in Time /\ call \in CallType /\ todo \subseteq Time /\ Selected \subseteq Slot
      /\ slots \in [Slot -> SlotData] /\ prevEvents \in [Slot -> 0..MaxCount] /\ 0 \in 0..MaxCount
  BY PlanAssumption, PlanFacts DEF Inv, EngineInv, TypeOK, ReadInv, CallType
<1>2. ASSUME NEW t \in Time, NEW tick \in Time \cup {NoTime}
      PROVE  SamplesOf(t, tick) \subseteq Observations
  BY <1>1, <1>2, SampleType, ObservationType DEF SamplesOf
<1>3. Entering \subseteq Observations
  <2>1. ASSUME NEW s \in Selected PROVE [state |-> slots[s].state, events |-> 0] \in Cell
    BY <1>1, <2>1 DEF SlotData, Cell
  <2>2. call.first \in Time
    BY <1>1 DEF CallType
  <2> QED BY <2>1, <2>2, ObservationType DEF Entering, Initials
<1>4. Changes(pendingTime) \subseteq Observations
  BY <1>1, SampleType, ObservationType DEF Changes
<1>5. pendingTime > 0 => SamplesBefore(pendingTime) \subseteq Observations
  <2> SUFFICES ASSUME pendingTime > 0, NEW s \in Selected
               PROVE  Observation("sample", pendingTime - 1, s,
                        [state |-> SampleOf(s, slots[s], NoTime).state,
                         events |-> IF prevTick = pendingTime - 1 THEN prevEvents[s] ELSE 0])
                        \in Observations
    BY DEF SamplesBefore
  <2> DEFINE c == [state |-> SampleOf(s, slots[s], NoTime).state,
                   events |-> IF prevTick = pendingTime - 1 THEN prevEvents[s] ELSE 0]
  <2>1. pendingTime - 1 \in Time
    BY <1>1, PlanFacts DEF Time
  <2>2. SampleOf(s, slots[s], NoTime) \in Cell
    BY <1>1, SampleType
  <2>3. c \in Cell
    BY <1>1, <2>2 DEF Cell
  <2> HIDE DEF c
  <2>4. Observation("sample", pendingTime - 1, s, c) \in Observations
    BY <2>1, <2>3, ObservationType
  <2> QED BY <2>4 DEF c
<1>6. UNION {SamplesOf(t, IF t = pendingTime THEN t ELSE NoTime) :
               t \in {u \in todo : u <= pendingTime}} \subseteq Observations
  BY <1>1, <1>2
<1>7. SamplesOf(pendingTime, pendingTime) \subseteq Observations
  BY <1>1, <1>2
<1> HIDE DEF NoTime
<1> QED BY <1>3, <1>4, <1>5, <1>6, <1>7 DEF Delivery

LEMMA FinishTickInv ==
    ASSUME Inv, FinishTick
    PROVE  Inv'
<1>1. /\ phase = "complete" /\ work = {} /\ active' = {} /\ after' = "none"
      /\ pendingTime' = IF after = "tick" THEN NoTime ELSE pendingTime
      /\ phase' = CASE after = "deliver" -> "deliver"
                    [] after = "tick" -> "read"
                    [] OTHER -> "store"
      /\ todo' \subseteq todo
      /\ UNCHANGED <<hist, kind, replay, checkpoint, call, cursor, replayStart, kept,
                     considered, work, saved, result>>
  BY DEF FinishTick, OpenTick, source, caches
<1>2. /\ hist \in Histories /\ pendingTime \in Time /\ slots \in [Slot -> SlotData]
      /\ pendingTime # NoTime
  BY <1>1 DEF Inv, EngineInv, TypeOK, ReadInv
<1>3. /\ \A s \in Slot : slots[s].events \in 0..MaxCount
      /\ [s \in Slot |-> slots[s].events] \in [Slot -> 0..MaxCount]
  BY <1>2 DEF SlotData
<1>4. TypeOK'
  <2>1. emitted' \in BOOLEAN
    BY Zenon DEF FinishTick
  <2>2. prevTick' \in Time \cup {NoTime} /\ prevEvents' \in [Slot -> 0..MaxCount]
    <3>1. CASE Visited /\ call.op = "query"
      <4>1. prevTick' = pendingTime /\ prevEvents' = [s \in Slot |-> slots[s].events]
        BY <3>1 DEF FinishTick
      <4> QED BY <1>2, <1>3, <4>1
    <3>2. CASE ~(Visited /\ call.op = "query")
      <4>1. prevTick' = prevTick /\ prevEvents' = prevEvents
        BY <3>2 DEF FinishTick
      <4> QED BY <4>1 DEF Inv, EngineInv, TypeOK
    <3> QED BY <3>1, <3>2
  <2>3. acc' \in [Slot -> Cell]
    <3>1. Collected \in [Slot -> Cell]
      BY <1>3, TickCommitted DEF Collected, Cell, StateType
    <3> QED BY <3>1 DEF FinishTick, Inv, EngineInv, TypeOK
  <2>4. slots' \in [Slot -> SlotData]
    BY TickCommitted
  <2>5. phase' \in Phases
    BY <1>1 DEF Phases, Inv, EngineInv, TypeOK
  <2>6. received' \in Seq(Parcel)
    <3>1. CASE Visited
      BY <1>1, <3>1, DeliveryType, ReceivedType DEF FinishTick, Inv, EngineInv, TypeOK
    <3>2. CASE ~Visited
      BY <3>2 DEF FinishTick, Inv, EngineInv, TypeOK
    <3> QED BY <3>1, <3>2
  <2> QED BY <1>1, <1>2, <2>1, <2>2, <2>3, <2>4, <2>5, <2>6 DEF Inv, EngineInv, TypeOK
<1>5. ASSUME NEW s \in Slot
      PROVE  /\ slots'[s].pending = Missing /\ slots'[s].events = 0
             /\ AfterOK(hist, s, pendingTime, slots'[s].state)
  BY <1>2, TickCommitted DEF AfterOK
<1>6. \A i \in 1..Len(recs) : i < cursor <=> recs[i].time <= pendingTime
  <2>1. \A j \in 1..Len(recs) : recs[j].time \in Time
    BY SourceFacts DEF Inv, recs
  <2>2. cursor \in Nat
    BY DEF Inv, EngineInv, TypeOK
  <2> QED BY <1>1, <1>2, <2>1, <2>2, PlanFacts
          DEF Inv, EngineInv, ReadInv, TickClosing, TickOpen, Time
<1>7. ReadInv'
  <2>1. /\ cursor' \in 1..(Len(recs') + 1)
        /\ call'.from # NoTime => replayStart' <= call'.from
        /\ replay' = None /\ checkpoint' = None
        /\ kept' # None => SnapshotOK(hist', kept')
        /\ saved' # None => SnapshotOK(hist', saved')
    BY <1>1 DEF Inv, EngineInv, ReadInv, recs
  <2>2. after \in {"deliver", "tick", "end"}
        /\ (after = "deliver" => HasRecord) /\ (after = "tick" => kind = "ghw")
    BY <1>1 DEF Inv, EngineInv, TypeOK, ReadInv
  <2>3. CASE after = "deliver"
    <3>1. phase' = "deliver" /\ pendingTime' = pendingTime
      BY <1>1, <2>3
    <3>2. Settled(pendingTime)'
      BY <1>1, <1>5, <1>6, <3>1 DEF Settled, recs
    <3>3. HasRecord'
      BY <1>1, <2>2, <2>3 DEF HasRecord, recs
    <3> QED BY <1>2, <2>1, <3>1, <3>2, <3>3 DEF ReadInv
  <2>4. CASE after = "tick"
    <3>1. phase' = "read" /\ pendingTime' = NoTime /\ kind' = "ghw"
      BY <1>1, <2>2, <2>4
    <3>2. /\ \A i \in 1..Len(recs') : i < cursor' <=> recs'[i].time <= pendingTime
          /\ \A s \in Slot : /\ slots'[s].pending = Missing /\ slots'[s].events = 0
                             /\ AfterOK(hist', s, pendingTime, slots'[s].state)
      BY <1>1, <1>5, <1>6 DEF recs
    <3>3. Rested'
      BY <1>2, <3>1, <3>2 DEF Rested, Settled
    <3> QED BY <2>1, <3>1, <3>3 DEF ReadInv
  <2>5. CASE after = "end"
    <3>1. phase' = "store"
      BY <1>1, <2>5
    <3> QED BY <2>1, <3>1 DEF ReadInv
  <2> QED BY <2>2, <2>3, <2>4, <2>5
<1>8. CachesFaithful'
  BY <1>1 DEF Inv, EngineInv, CachesFaithful
<1> QED BY <1>1, <1>2, <1>4, <1>7, <1>8 DEF Inv, EngineInv

-----------------------------------------------------------------------------
(* Storing the caches and replying. *)

LEMMA StoreInv ==
    ASSUME Inv, Store
    PROVE  Inv'
<1>1. /\ phase' = "reply" /\ replay' = saved /\ checkpoint' = kept
      /\ UNCHANGED <<hist, kind, call, slots, active, cursor, pendingTime, replayStart, kept,
                     considered, work, after, saved, emitted, todo, prevTick, prevEvents,
                     received, result>>
  BY DEF Store, source, reading, ticking, reply
<1>2. acc' \in [Slot -> Cell]
  <2>1. [s \in Slot |-> [state |-> slots[s].state, events |-> 0]] \in [Slot -> Cell]
    BY PlanFacts DEF Inv, EngineInv, TypeOK, SlotData, Cell
  <2> QED BY <2>1 DEF Store, Inv, EngineInv, TypeOK
<1>3. TypeOK'
  BY <1>1, <1>2 DEF Inv, EngineInv, TypeOK, Phases
<1>4. ReadInv' /\ CachesFaithful'
  BY <1>1 DEF Inv, EngineInv, ReadInv, CachesFaithful
<1> QED BY <1>1, <1>3, <1>4 DEF Inv, EngineInv

\* What a reply hands over is typed.
LEMMA RestType ==
    ASSUME Inv
    PROVE  Rest \subseteq Observations
<1>1. /\ call \in CallType /\ todo \subseteq Time /\ Selected \subseteq Slot /\ acc \in [Slot -> Cell]
      /\ slots \in [Slot -> SlotData] /\ 0 \in 0..MaxCount
  BY PlanAssumption, PlanFacts DEF Inv, EngineInv, TypeOK, CallType
<1>2. call.first \in Time
  BY <1>1 DEF CallType
<1>3. Entering \subseteq Observations
  <2>1. ASSUME NEW s \in Selected PROVE [state |-> slots[s].state, events |-> 0] \in Cell
    BY <1>1, <2>1 DEF SlotData, Cell
  <2> QED BY <1>2, <2>1, ObservationType DEF Entering, Initials
<1>4. \A t \in todo : SamplesOf(t, NoTime) \subseteq Observations
  BY <1>1, SampleType, ObservationType DEF SamplesOf
<1>5. {Observation("sample", call.first, s, acc[s]) : s \in Selected} \subseteq Observations
  BY <1>1, <1>2, ObservationType
<1> QED BY <1>3, <1>4, <1>5 DEF Rest

LEMMA ReplyInv ==
    ASSUME Inv, Reply
    PROVE  Inv'
<1>1. /\ Return("ok") /\ replay' = replay /\ checkpoint' = checkpoint /\ hist' = hist
  BY DEF Reply, Return, caches, source
<1>2. CachesFaithful'
  BY <1>1 DEF Inv, EngineInv, CachesFaithful
<1>3. replay' \in Replay \cup {None} /\ checkpoint' \in Replay \cup {None}
  BY <1>1 DEF Inv, EngineInv, TypeOK
<1>4. received' \in Seq(Parcel)
  BY RestType, ReceivedType DEF Reply, Inv, EngineInv, TypeOK
<1> QED BY <1>1, <1>2, <1>3, <1>4, ReturnInv

\* A call that is given up keeps or drops what was received, or adds a last parcel.
LEMMA GivesUpInv ==
    ASSUME Inv, ReadFails \/ StopTick \/ StopReply
    PROVE  Inv'
<1>1. received \in Seq(Parcel)
  BY DEF Inv, EngineInv, TypeOK
<1>2. CASE ReadFails
  <2>1. received' \in Seq(Parcel)
    BY <1>1, <1>2, NothingReceived DEF ReadFails
  <2> QED BY <1>2, <2>1, AbandonInv DEF ReadFails
<1>3. CASE StopTick
  <2>1. received' \in Seq(Parcel)
    BY <1>1, <1>3, DeliveryType, ReceivedType DEF StopTick
  <2> QED BY <1>3, <2>1, AbandonInv DEF StopTick
<1>4. CASE StopReply
  <2>1. received' \in Seq(Parcel)
    BY <1>1, <1>4, RestType, ReceivedType DEF StopReply
  <2> QED BY <1>4, <2>1, AbandonInv DEF StopReply
<1> QED BY <1>2, <1>3, <1>4

-----------------------------------------------------------------------------
(* The invariant. *)

LEMMA InitInv == Init => Inv
<1> SUFFICES ASSUME Init PROVE Inv
  OBVIOUS
<1>1. call \in CallType
  BY ZeroTick, Zenon DEF Init, NoCall, CallType
<1>2. [s \in Slot |-> [state |-> NoState, events |-> 0]] \in [Slot -> Cell]
  BY PlanFacts DEF NoState, Cell
<1>3. [s \in Slot |-> 0] \in [Slot -> 0..MaxCount]
  BY PlanFacts
<1>4. acc \in [Slot -> Cell] /\ prevEvents \in [Slot -> 0..MaxCount]
      /\ slots \in [Slot -> SlotData]
  BY <1>2, <1>3, FreshType, Zenon DEF Init
<1>5. considered \in BOOLEAN /\ emitted \in BOOLEAN
  BY Zenon DEF Init
<1>6. TypeOK
  BY <1>1, <1>4, <1>5, ZeroTick, NothingReceived DEF Init, TypeOK, CallType, Phases
<1>7. ReadInv /\ CachesFaithful
  BY DEF Init, ReadInv, CachesFaithful
<1> QED BY <1>6, <1>7 DEF Inv, EngineInv, Init

LEMMA StepInv == Inv /\ [Next]_vars => Inv'
<1> SUFFICES ASSUME Inv, [Next]_vars PROVE Inv'
  OBVIOUS
<1>1. CASE Operation
  BY <1>1, OperationInv
<1>2. CASE PointSkip \/ PointReuse \/ PointSeek \/ PointUncertified \/ PointFail
  BY <1>2, PointInv
<1>3. CASE ParallelPrefix
  BY <1>3, ParallelPrefixInv
<1>4. CASE Load
  BY <1>4, LoadInv
<1>5. CASE TickPassed \/ TickBoundary
  BY <1>5, TickEndInv
<1>6. CASE Deliver
  BY <1>6, DeliverInv
<1>7. CASE EndOfRecords
  BY <1>7, EndOfRecordsInv
<1>8. CASE Compute
  BY <1>8, ComputeInv
<1>9. CASE FinishTick
  BY <1>9, FinishTickInv
<1>10. CASE ReadFails \/ StopTick \/ StopReply
  BY <1>10, GivesUpInv
<1>11. CASE Store
  BY <1>11, StoreInv
<1>12. CASE Reply
  BY <1>12, ReplyInv
<1>13. CASE UNCHANGED vars
  BY <1>13 DEF vars, source, caches, reading, ticking, visiting, reply, Inv, EngineInv, TypeOK,
               ReadInv, CachesFaithful, Rested, Settled, TickOpen, TickClosing, HasRecord, recs
<1> QED BY <1>1, <1>2, <1>3, <1>4, <1>5, <1>6, <1>7, <1>8, <1>9, <1>10, <1>11, <1>12, <1>13
        DEF Next, Step

LEMMA AlwaysInv == Spec => []Inv
BY InitInv, StepInv, PTL DEF Spec

\* Every variable keeps its type, for every plan, source and sequence of calls.
THEOREM TypeCorrect == Spec => []TypeOK
<1>1. Inv => TypeOK
  BY DEF Inv, EngineInv
<1> QED BY <1>1, AlwaysInv, PTL

\* The replay and the checkpoint of a Selection always stand for the source,
\* whatever sequence of queries, stops, errors and unwinds came before.
THEOREM CachesStayFaithful == Spec => []CachesFaithful
<1>1. Inv => CachesFaithful
  BY DEF Inv, EngineInv
<1> QED BY <1>1, AlwaysInv, PTL

\* While a read runs, its locals stand for the source as well: between ticks, in
\* the middle of one, and while the computed slots of a tick are completed.
THEOREM EngineStaysSound == Spec => []EngineInv
<1>1. Inv => EngineInv
  BY DEF Inv
<1> QED BY <1>1, AlwaysInv, PTL
=============================================================================
