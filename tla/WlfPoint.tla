------------------------------ MODULE WlfPoint ------------------------------
(***************************************************************************)
(* Point reads of the WLF worker: the value of projections of bit signals  *)
(* at a time, and when it changed last.  A short suffix of the history, or *)
(* one the SDK suggests, resolves recent changes; projections it does not  *)
(* resolve share one scan from the beginning.                              *)
(***************************************************************************)
EXTENDS Integers, SequencesExt, Optional

CONSTANTS
    Bases,      \* bound: signals of a recording
    Bits,       \* the values of a bit
    MaxTick,    \* bound: ticks of a recording
    MaxRecords, \* bound: records of a recording
    Lookback    \* LOOKBACK, the length of the suffix

\* A value is two bits; a projection is the whole signal or one of them.
Values == [{"hi", "lo"} -> Bits]
Parts == {{"hi", "lo"}, {"hi"}, {"lo"}}
Whole(part) == part = {"hi", "lo"}
Slice(value, part) == [b \in part |-> value[b]]
Record == [tick : 0..MaxTick, value : Values]
Projection == [base : 1..Bases, part : Parts]

ASSUME PointAssumption ==
    /\ Bases \in Nat \ {0}
    /\ MaxTick \in Nat /\ MaxRecords \in Nat /\ Lookback \in Nat

Histories ==
    {h \in UNION {[1..n -> Record] : n \in 0..MaxRecords} :
        \A i \in 1..(Len(h) - 1) : h[i].tick < h[i + 1].tick}

-----------------------------------------------------------------------------

Until(h, t) == SelectSeq(h, LAMBDA x : x.tick <= t)
After(h, t) == SelectSeq(h, LAMBDA x : x.tick > t)

\* The SDK opens a range in the middle of a history with the entering state.
Scanned(h, start, target) ==
    LET entering == Until(h, start)
    IN (IF entering = <<>> THEN <<>>
        ELSE <<[tick |-> start, value |-> entering[Len(entering)].value]>>)
       \o After(Until(h, target), start)

\* The records a point scan looks at: the first tick of a suffix is not one.
Considered(h, start, target) ==
    IF start = None THEN Until(h, target)
    ELSE After(Scanned(h, start, target), start)

\* The first value says nothing about when it changed.
Observed(state, x, part) ==
    LET value == Slice(x.value, part)
    IN IF state = None THEN [value |-> value, changed |-> None]
       ELSE IF state.value # value THEN [value |-> value, changed |-> x.tick]
       ELSE state

PointState(h, part, start, target) ==
    FoldLeft(LAMBDA state, x : Observed(state, x, part), None,
             Considered(h, start, target))

\* The last recorded tick of the file.
LastTick(history) ==
    LET ticks == {0} \cup UNION {{h[i].tick : i \in 1..Len(h)} :
                                   h \in {history[b] : b \in 1..Bases}}
    IN CHOOSE t \in ticks : \A u \in ticks : u <= t

Target(history, time) ==
    IF time < LastTick(history) THEN time ELSE LastTick(history)

\* The suffixes that may be read: the SDK may suggest one for a whole signal.
Starts(target, projections) ==
    {target - Lookback} \cup
        (IF \A i \in 1..Len(projections) :
              /\ projections[i].base = projections[1].base
              /\ Whole(projections[i].part)
         THEN 0..(target - 1) ELSE {})

\* What the suffix resolves: a change inside it.
Recent(history, projections, start, target) ==
    [i \in 1..Len(projections) |->
        LET s == PointState(history[projections[i].base], projections[i].part,
                            start, target)
        IN IF s # None /\ s.changed # None THEN s ELSE None]

\* Projections the suffix leaves open, and the distinct signals they need, in
\* the order in which they first appear.
Open(projections, recent) ==
    SelectSeq([i \in 1..Len(projections) |-> i], LAMBDA i : recent[i] = None)

FallbackBases(projections, open) ==
    FoldLeft(LAMBDA bs, i :
                IF \E k \in 1..Len(bs) : bs[k] = projections[i].base THEN bs
                ELSE Append(bs, projections[i].base),
             <<>>, open)

\* Mutant: the signals of the fallback keep their old positions.
BaseOfMutant(bs, base) == IF base <= Len(bs) THEN base ELSE Len(bs)

BaseOf(bs, base) == CHOOSE k \in 1..Len(bs) : bs[k] = base

SampleBits(history, projections, start, target) ==
    LET recent ==
            IF target > Lookback THEN Recent(history, projections, start, target)
            ELSE [i \in 1..Len(projections) |-> None]
        bs == FallbackBases(projections, Open(projections, recent))
    IN [i \in 1..Len(projections) |->
           IF recent[i] # None THEN recent[i]
           ELSE PointState(history[bs[BaseOf(bs, projections[i].base)]],
                           projections[i].part, None, target)]

-----------------------------------------------------------------------------

\* What a chronological read knows about a projection at a time.
Reference(h, part, time) ==
    LET u == Until(h, time)
        changes == {i \in 2..Len(u) :
                      Slice(u[i].value, part) # Slice(u[i - 1].value, part)}
    IN IF u = <<>> THEN None
       ELSE [value |-> Slice(u[Len(u)].value, part),
             changed |-> IF changes = {} THEN None
                         ELSE u[CHOOSE i \in changes : \A k \in changes : k <= i].tick]
=============================================================================
