----------------------------- MODULE ShmHistory -----------------------------
(***************************************************************************)
(* The histories of an SHM database and what native/shm.cpp computes from  *)
(* them: cursors, the merge of one history's records tick by tick, and     *)
(* certified point values.                                                 *)
(*                                                                         *)
(* A history is a sequence of entries in source order, [tick, state,       *)
(* value].  The state is what the SDK's validity property says: "value",   *)
(* "absent" (nothing was recorded from here on), "quiet" (an event that    *)
(* did not occur), or "bad" (a value that does not decode).  A value is    *)
(* "wide" when it is a string with bytes outside ASCII, which the shim     *)
(* hands on and the Rust reader rejects.                                   *)
(***************************************************************************)
EXTENDS Integers, Sequences, FiniteSets, FiniteSetsExt

CONSTANTS
    Ids,            \* history identities, ordered as numbers
    Kind,           \* id -> "bits", "string" or "event"
    PointTypes,     \* the ids whose type point_type accepts
    MaxOccurrences, \* UINT64_MAX, of event occurrences in a tick
    None

ASSUME HistoryAssumption ==
    /\ Ids \subseteq Nat /\ IsFiniteSet(Ids)
    /\ Kind \in [Ids -> {"bits", "string", "event"}]
    /\ PointTypes \subseteq {id \in Ids : Kind[id] = "bits"}
    /\ MaxOccurrences \in Nat \ {0}

\* The entries of a history.
Entry == [tick : Nat, state : {"value", "absent", "quiet", "bad"}, value : STRING]

-----------------------------------------------------------------------------
(* Cursors.  A position is an index of the history, 0 when there is none. *)

\* The SDK's seek to the end of a tick: the entry in force there.
Seek(h, tick) == Max({0} \cup {i \in DOMAIN h : h[i].tick <= tick})

\* advance: no further than the tick `end`.
CanAdvance(h, p, end) == p < Len(h) /\ h[p + 1].tick <= end

\* Leave the tick `boundary` behind: the first entry after it, or 0.
PastBoundary(h, boundary, end) ==
    LET p == Seek(h, boundary)
    IN IF p = 0 \/ ~CanAdvance(h, p, end) THEN 0 ELSE p + 1

-----------------------------------------------------------------------------
(* History::fill.  A history keeps the next record (`head`, `ready`), whether *)
(* it is exhausted (`done`), whether a value has been seen (`available`) and *)
(* the last tick it completed (`through`); `at` is its cursor. *)

Row == [id : Ids, tick : Nat, value : STRING \cup {None}, occurrences : Nat, failed : BOOLEAN]

History == [head : Row \cup {None}, ready : BOOLEAN, done : BOOLEAN, available : BOOLEAN,
            through : Nat \cup {None}, at : Nat]

NewHistory(resume) ==
    [head |-> None, ready |-> FALSE, done |-> FALSE, available |-> resume,
     through |-> None, at |-> 0]

\* A record: a value, or for an event the number of its occurrences.
ShmRecord(id, tick, value, occurrences) ==
    [id |-> id, tick |-> tick, value |-> value, occurrences |-> occurrences, failed |-> FALSE]

FailedRecord(id, tick) ==
    [id |-> id, tick |-> tick, value |-> None, occurrences |-> 0, failed |-> TRUE]

\* Mutant: a leading gap in the recording is an error like any other.
SkippedMutant(id, e, f) == Kind[id] = "event" /\ e.state = "quiet"

\* Neither a quiet event nor a gap before the first value is a record.
Skipped(id, e, f) ==
    \/ Kind[id] = "event" /\ e.state = "quiet"
    \/ e.state = "absent" /\ ~f.available

\* decode throws, or the occurrences of a tick overflow.
Failing(id, e, f) ==
    \/ e.state \in {"absent", "bad"}
    \/ Kind[id] = "event" /\ f.ready /\ f.head.occurrences = MaxOccurrences

\* Values of one tick replace each other, occurrences of an event add up.
Merged(id, e, f) ==
    IF Kind[id] = "event"
    THEN ShmRecord(id, e.tick, None, IF f.ready THEN f.head.occurrences + 1 ELSE 1)
    ELSE ShmRecord(id, e.tick, e.value, 0)

FillEntry(id, h, end, f) ==
    LET e == h[f.at]
        taken == ~Skipped(id, e, f)
        failed == taken /\ Failing(id, e, f)
        stops == failed \/ (taken /\ e.value = "wide") \/ ~CanAdvance(h, f.at, end)
    IN [head |-> IF failed THEN FailedRecord(id, e.tick)
                 ELSE IF taken THEN Merged(id, e, f)
                 ELSE f.head,
        ready |-> f.ready \/ taken,
        done |-> stops,
        available |-> f.available \/ taken,
        through |-> e.tick,
        at |-> IF stops THEN f.at ELSE f.at + 1]

\* A record is ready and its tick is complete.
Filled(h, f) == f.done \/ (f.ready /\ h[f.at].tick # f.through)

Fill(id, h, end, f) ==
    LET run[k \in 0..Len(h)] ==
            IF k = 0 THEN f
            ELSE LET g == run[k - 1]
                 IN IF Filled(h, g) THEN g ELSE FillEntry(id, h, end, g)
    IN IF f.done \/ f.ready THEN f
       ELSE IF h[f.at].tick > end THEN [f EXCEPT !.done = TRUE]
       ELSE run[Len(h)]

-----------------------------------------------------------------------------
(* certified_point. *)

\* point_prefix: where the availability that lasts through `end` starts, None
\* when it does not: at most one gap, at the start of the history.
PrefixFirst(h, end) ==
    LET upto == 1..Seek(h, end)
        present == {i \in upto : h[i].state # "absent"}
        gaps == upto \ present
    IN IF h[1].tick = 0 /\ present # {} /\ (\A i \in gaps, j \in present : i < j)
       THEN h[Min(present)].tick ELSE None

\* Mutant: the walk back stops at the first predecessor.
ChangedAtMutant(h, first, end) ==
    LET p == Seek(h, end)
    IN IF h[p].tick > first THEN h[p].tick ELSE None

\* Walk back from the final value to the tick at which it came into force; the
\* first available value does not count as a change.
ChangedAt(h, first, end) ==
    LET final == Seek(h, end)
        back[p \in DOMAIN h] ==
            IF h[p].tick <= first THEN None
            ELSE LET q == Seek(h, h[p].tick - 1)
                 IN IF h[q].value # h[final].value THEN h[p].tick ELSE back[q]
    IN back[final]

\* The certified value of a history at a tick, or None.
CertifiedPoint(id, h, end) ==
    IF id \notin PointTypes \/ PrefixFirst(h, end) = None THEN None
    ELSE [value |-> h[Seek(h, end)].value,
          changedAt |-> ChangedAt(h, PrefixFirst(h, end), end)]
=============================================================================
