---------------------------- MODULE MCQueryEngine ----------------------------
(***************************************************************************)
(* Small instances of QueryEngine: every source of bounded length over a   *)
(* pool of records, and the plans and windows of the runs.                 *)
(***************************************************************************)
EXTENDS QueryEngine, FiniteSetsExt

CONSTANTS
    MaxRecords,  \* bound: records of the selected signals in a source
    Ticks,       \* the ticks at which records occur
    Values,      \* base -> the values its records carry
    Counts       \* the occurrences an event record carries

-----------------------------------------------------------------------------
(* All sources of at most MaxRecords records, and what they mean. *)

Pool ==
    UNION {[base : {b}, time : Ticks, value : Values[b], count : {0}] :
              b \in BitBases \cup OpaqueBases}
    \cup [base : EventBases, time : Ticks, value : {Missing}, count : Counts]

Sources ==
    {q \in UNION {[1..n -> Pool] : n \in 0..MaxRecords} :
        \A i, j \in DOMAIN q : i < j => q[i].time <= q[j].time}

\* The value of a base slot after the records up to tick t.
BaseObs(q, s, t) ==
    LET i == {j \in DOMAIN q : q[j].base = SlotBase[s] /\ q[j].time <= t}
    IN IF i = {} \/ s \in EventSlots THEN Missing ELSE Project(s, q[Max(i)].value)

Meaning(q) ==
    LET obs[s \in Slot] ==
            [t \in Time |->
                IF s \in ComputedSlots
                THEN Assemble(s, [i \in 1..(s - 1) |-> obs[i][t]])
                ELSE BaseObs(q, s, t)]
    IN [s \in Slot |-> [t \in Time |-> obs[s][t]]]

MCHistories ==
    {[records |-> q, obs |-> Meaning(q),
      span |-> IF q = <<>> THEN NoTime ELSE q[Len(q)].time] : q \in Sources}

-----------------------------------------------------------------------------
(* Plans: slots, widths and where their bits come from. *)

Whole(n) == [k \in 1..n |-> [of |-> 0, bit |-> k]]
Bit(i) == <<[of |-> 0, bit |-> i]>>

\* A two-bit signal, its low bit, an event, and a real.
MixedBase == <<"A", "A", "E", "R">>
MixedFrom == <<Whole(2), Bit(1), Bit(1), Whole(1)>>
MixedWidth == [b \in {"A"} |-> 2]
MixedValues ==
    [b \in {"A", "R"} |->
        IF b = "A" THEN {<<"0", "0">>, <<"0", "1">>} ELSE {<<"0">>, <<"1">>}]

\* Two whole scalars, the second with one value.
WholeBase == <<"A", "B">>
WholeFrom == <<Whole(1), Whole(1)>>
WholeValues ==
    [b \in {"A", "B"} |-> IF b = "A" THEN {<<"0">>, <<"1">>} ELSE {<<"1">>}]

\* Two scalars, their concatenation, and one bit of the concatenation.
ConcatBase == <<"A", "B", Computed, Computed>>
ConcatFrom == <<Whole(1), Whole(1),
                <<[of |-> 1, bit |-> 1], [of |-> 2, bit |-> 1]>>,
                <<[of |-> 3, bit |-> 2]>>>>
ConcatWidth == [b \in {"A", "B"} |-> 1]
ConcatValues == [b \in {"A", "B"} |-> {<<"0">>, <<"1">>}]

\* A two-bit signal, its repetition, and one copy of it.
RepeatBase == <<"A", Computed, Computed>>
RepeatFrom == <<Whole(2),
                [k \in 1..4 |-> [of |-> 1, bit |-> ((k - 1) % 2) + 1]],
                [k \in 1..2 |-> [of |-> 2, bit |-> k + 2]]>>

-----------------------------------------------------------------------------
(* Calls. *)

SomeWindows == {<<0, NoTime>>, <<1, 1>>, <<1, 2>>, <<2, 3>>}
ShortWindows == {<<0, NoTime>>, <<1, 2>>}
SomeBatches == {{0, 2}}
SomeDrivers == {{}, {1}, {3}}
FirstDriver == {{}, {1}}
RepeatDriver == {{2}}
ComputedDriver == {{4}}
=============================================================================
