------------------------------- MODULE GhwBody -------------------------------
(***************************************************************************)
(* The body of a GHW file: the sequential walker that validates it, the    *)
(* optional index of source positions, and the two ways a query reads      *)
(* selected signals.  A field of the wire (a section tag, a time, a rank   *)
(* delta, a scalar) is one token; an offset is the position of a token.    *)
(***************************************************************************)
EXTENDS Integers, FiniteSets, SequencesExt

CONSTANTS
    Active,         \* the scalars of the file, by rank: ascending source ids
    Recipes,        \* the source ids of each signal, by position
    Literals,       \* the literals of the scalars' type
    RanksPerGroup,  \* RANKS_PER_GROUP
    IndexLimit,     \* the index's budget, in stored numbers
    Window          \* tokens a buffered window holds

ASSUME GhwAssumption ==
    /\ Window \in Nat \ {0} /\ RanksPerGroup \in Nat \ {0}
    /\ \A r \in 1..(Len(Active) - 1) : Active[r] < Active[r + 1]
    /\ \A s \in DOMAIN Recipes : ToSet(Recipes[s]) \subseteq ToSet(Active)

\* Section tags, and what a read past the end of the input returns.
SNP == -11
ESN == -12
CYC == -13
ECY == -14
DIR == -15
EOD == -16
TAI == -17
Truncated == -99

Tok(w, p) == IF p <= Len(w) THEN w[p] ELSE Truncated

RECURSIVE WalkFrom(_), IndexScan(_, _, _, _, _, _), IndexFrom(_)

-----------------------------------------------------------------------------
(* The walker. *)

Scalar(rank, time, at, value, cyclic, route) ==
    [kind |-> "scalar", rank |-> rank, time |-> time, at |-> at,
     value |-> value, cyclic |-> cyclic, route |-> route]
ListEnd(time) == [kind |-> "list", time |-> time]
Tick(time) == [kind |-> "tick", time |-> time]

NoRoute == 0

Emit(st, event) == [st EXCEPT !.events = Append(@, event)]
Fail(st) == [st EXCEPT !.result = "malformed"]

\* scalar: an ordinal beyond the type's literals is refused.
IsScalar(v) == v \in 0..(Literals - 1)

\* Clock::enter: a later time completes the tick before it.
Enter(st, next, mode, p) ==
    LET passed == IF st.time >= 0 /\ next > st.time
                  THEN Emit(st, Tick(st.time)) ELSE st
    IN IF next < 0 \/ next < st.time THEN Fail(st)
       ELSE IF next > st.end THEN [passed EXCEPT !.result = "ok"]
       ELSE [passed EXCEPT !.first = IF @ < 0 THEN next ELSE @, !.time = next,
                           !.mode = mode, !.pos = p, !.rank = 0]

\* Mutation: the tailer after a directory completes the last tick once more.
LastTickAgain(st) == IF st.time >= 0 THEN Emit(st, Tick(st.time)) ELSE st

\* A completed body, or the start of its footer, completes the last tick.
LastTick(st) ==
    IF ~st.footer /\ st.time >= 0 THEN Emit(st, Tick(st.time)) ELSE st

\* The directory, and the tailer that nothing may follow.
Directory(st) ==
    LET count == Tok(st.w, st.pos + 2)
        done == st.pos + 3 + count
        footer == [LastTick(st) EXCEPT !.footer = TRUE]
    IN IF /\ ~st.footer /\ Tok(st.w, st.pos + 1) = 1 /\ count >= 0
          /\ \A p \in (st.pos + 3)..(done - 1) : Tok(st.w, p) >= 0
          /\ Tok(st.w, done) = EOD
       THEN [footer EXCEPT !.pos = done + 1] ELSE Fail(footer)
Tailer(st) ==
    LET footer == [LastTick(st) EXCEPT !.footer = TRUE]
    IN IF Tok(st.w, st.pos + 1) = 1 /\ st.pos + 2 = Len(st.w)
       THEN [footer EXCEPT !.result = "ok"] ELSE Fail(footer)

Section(st) ==
    LET tag == Tok(st.w, st.pos)
        time == Tok(st.w, st.pos + 1)
    IN CASE st.pos > Len(st.w) -> [LastTick(st) EXCEPT !.result = "ok"]
         [] tag \in {SNP, CYC} /\ st.footer -> Fail(st)
         [] tag = SNP /\ ~st.footer -> Enter(st, time, "snapshot", st.pos + 2)
         [] tag = CYC /\ ~st.footer -> Enter(st, time, "records", st.pos + 2)
         [] tag = DIR -> Directory(st)
         [] tag = TAI -> Tailer(st)
         [] OTHER -> Fail(st)

\* A snapshot holds every scalar, by rank.
Snapshot(st) ==
    LET value == Tok(st.w, st.pos)
    IN IF st.rank < Len(Active)
       THEN IF ~IsScalar(value) THEN Fail(st)
            ELSE [Emit(st, Scalar(st.rank, st.time, st.pos, value, FALSE, NoRoute))
                    EXCEPT !.rank = @ + 1, !.pos = @ + 1]
       ELSE IF value # ESN THEN Fail(st)
            ELSE [Emit(st, ListEnd(st.time)) EXCEPT !.mode = "section", !.pos = @ + 1]

\* One record of a cycle list: a rank delta and a scalar.
Record(st) ==
    LET rank == st.rank + Tok(st.w, st.pos)
        value == Tok(st.w, st.pos + 1)
    IN [Emit(st, Scalar(rank - 1, st.time, st.pos + 1, value, TRUE, NoRoute))
          EXCEPT !.rank = rank, !.pos = @ + 2]
Decodes(st) ==
    /\ Tok(st.w, st.pos) > 0
    /\ st.rank + Tok(st.w, st.pos) <= Len(Active)
    /\ IsScalar(Tok(st.w, st.pos + 1))

\* The bulk loop takes the records that the buffered window holds completely and
\* leaves the rest, the end of the list and every error to the checked readers.
WindowEnd(w, p) ==
    LET full == ((p - 1) \div Window + 1) * Window
    IN IF full > Len(w) THEN Len(w) ELSE full
Bulk(st) ==
    LET stop == WindowEnd(st.w, st.pos)
    IN FoldLeft(LAMBDA a, i : IF a.pos + 1 <= stop /\ Decodes(a) THEN Record(a) ELSE a,
                st, [i \in 1..Window |-> i])

Records(st) ==
    LET bulk == Bulk(st)
    IN CASE bulk # st -> bulk
         [] Tok(st.w, st.pos) = 0 ->
              [Emit(st, ListEnd(st.time)) EXCEPT !.mode = "advance", !.pos = @ + 1]
         [] Decodes(st) -> Record(st)
         [] OTHER -> Fail(st)

\* The time increment after a cycle list; -1 ends the section.
Advance(st) ==
    LET delta == Tok(st.w, st.pos)
    IN CASE delta = -1 -> IF Tok(st.w, st.pos + 1) # ECY THEN Fail(st)
                          ELSE [st EXCEPT !.mode = "section", !.pos = @ + 2]
         [] delta < -1 -> Fail(st)
         [] OTHER -> Enter(st, st.time + delta, "records", st.pos + 1)

WalkFrom(st) ==
    IF st.result # "running" THEN st
    ELSE WalkFrom(CASE st.mode = "section" -> Section(st)
                    [] st.mode = "snapshot" -> Snapshot(st)
                    [] st.mode = "records" -> Records(st)
                    [] st.mode = "advance" -> Advance(st))

Walk(w, end) ==
    WalkFrom([w |-> w, pos |-> 1, end |-> end, mode |-> "section", rank |-> 0,
              time |-> -1, first |-> -1, footer |-> FALSE,
              events |-> <<>>, result |-> "running"])

-----------------------------------------------------------------------------
(* The index: for every frame (a non-empty list) and every group of ranks  *)
(* with a record in it, the position of the group's first record.          *)

Groups == 0..((Len(Active) - 1) \div RanksPerGroup)
NoFrame == -1
NoGroup == -1

EmptyIndex ==
    [kept |-> TRUE, frames |-> <<>>, ids |-> [g \in Groups |-> <<>>],
     offs |-> [g \in Groups |-> <<>>], open |-> FALSE, group |-> NoGroup,
     lastFrame |-> [g \in Groups |-> NoFrame],
     lastOffset |-> [g \in Groups |-> 0],
     delta |-> [g \in Groups |-> 0], run |-> [g \in Groups |-> 0]]
NoIndex == [EmptyIndex EXCEPT !.kept = FALSE]

Stored(ix) ==
    FoldLeft(LAMBDA n, g : n + Len(ix.ids[g - 1]) + Len(ix.offs[g - 1]),
             Len(ix.frames), [g \in 1..Cardinality(Groups) |-> g])
WithinLimit(ix) == IF Stored(ix) > IndexLimit THEN NoIndex ELSE ix

\* Mutation: an open frame keeps no run when the distance changes.
FlushDrops(ix, g) ==
    IF ix.run[g] <= 1 THEN [ix EXCEPT !.run[g] = 0]
    ELSE [ix EXCEPT !.ids[g] = @ \o <<ix.delta[g], ix.run[g]>>, !.run[g] = 0]

\* Equal distances between the frames of a group are kept as one run.
Flush(ix, g) ==
    IF ix.run[g] = 0 THEN ix
    ELSE [ix EXCEPT !.ids[g] = @ \o <<ix.delta[g], ix.run[g]>>, !.run[g] = 0]

RecordFirst(ix, g, e) ==
    LET frame == Len(ix.frames) - 1
        delta == frame - ix.lastFrame[g]
        numbered ==
            CASE ix.lastFrame[g] = NoFrame -> [ix EXCEPT !.ids[g] = <<frame>>]
              [] delta = ix.delta[g] -> [ix EXCEPT !.run[g] = @ + 1]
              [] OTHER -> [Flush(ix, g) EXCEPT !.delta[g] = delta, !.run[g] = 1]
    IN [numbered EXCEPT
          !.offs[g] = @ \o <<e.at - ix.lastOffset[g], e.rank % RanksPerGroup>>,
          !.lastFrame[g] = frame, !.lastOffset[g] = e.at]

Push(ix, e) ==
    LET opened == IF ix.open THEN ix
                  ELSE [ix EXCEPT !.open = TRUE, !.group = NoGroup,
                          !.frames = Append(@, [time |-> e.time, cyclic |-> e.cyclic])]
        g == e.rank \div RanksPerGroup
    IN IF g = opened.group THEN opened
       ELSE RecordFirst([opened EXCEPT !.group = g], g, e)

\* What the opening walk feeds the index, until it exceeds its budget.
IndexEvent(ix, e) ==
    CASE ~ix.kept -> ix
      [] e.kind = "scalar" -> WithinLimit(Push(ix, e))
      [] e.kind = "list" -> [ix EXCEPT !.open = FALSE, !.group = NoGroup]
      [] e.kind = "tick" -> ix

BuildIndex(events) ==
    LET built == FoldLeft(IndexEvent, EmptyIndex, events)
    IN IF ~built.kept THEN NoIndex
       ELSE WithinLimit(FoldLeft(LAMBDA ix, g : Flush(ix, g - 1), built,
                                 [g \in 1..Cardinality(Groups) |-> g]))

-----------------------------------------------------------------------------
(* Indexed reads. *)

\* Decodes the next frame number and position of a group's streams.
Advanced(ix, c) ==
    LET ids == ix.ids[c.group]
        offs == ix.offs[c.group]
        framed ==
            CASE ~c.started ->
                   [c EXCEPT !.started = TRUE, !.frame = ids[1], !.ids = 1]
              [] c.started /\ c.remaining > 0 ->
                   [c EXCEPT !.remaining = @ - 1, !.frame = @ + c.delta]
              [] OTHER ->
                   [c EXCEPT !.delta = ids[c.ids + 1], !.remaining = ids[c.ids + 2] - 1,
                             !.frame = @ + ids[c.ids + 1], !.ids = @ + 2]
        ended == c.started /\ c.remaining = 0 /\ c.ids >= Len(ids)
    IN IF ended \/ c.offs >= Len(offs) THEN [c EXCEPT !.live = FALSE]
       ELSE [framed EXCEPT !.offset = @ + offs[c.offs + 1],
                           !.first = offs[c.offs + 2], !.offs = @ + 2]

\* One cursor per group with a selected rank and a recorded frame.
Cursor(ranks, g) ==
    LET mine == {r \in ranks : r \div RanksPerGroup = g}
    IN [group |-> g, mask |-> mine, last |-> CHOOSE r \in mine : \A q \in mine : q <= r,
        route |-> Cardinality({r \in ranks : r < g * RanksPerGroup}) + 1,
        ids |-> 0, offs |-> 0, started |-> FALSE, frame |-> 0, delta |-> 0,
        remaining |-> 0, offset |-> 0, first |-> 0, live |-> TRUE]
Cursors(ix, ranks) ==
    LET used == {g \in Groups : ix.ids[g] # <<>>
                                /\ \E r \in ranks : r \div RanksPerGroup = g}
    IN [g \in used |-> Advanced(ix, Cursor(ranks, g))]

\* The records of one group in one frame, from its first record to the group's
\* last selected rank; unselected payloads are skipped.
IndexScan(w, frame, c, rank, p, events) ==
    LET base == c.group * RanksPerGroup
        delta == IF frame.cyclic THEN Tok(w, p + 1) ELSE 1
        route == c.route + Cardinality({r \in c.mask : r < rank})
        seen == IF rank \in c.mask
                THEN Append(events, Scalar(rank, frame.time, p, Tok(w, p),
                                           frame.cyclic, route))
                ELSE events
    IN IF rank >= base + RanksPerGroup \/ rank >= Len(Active) \/ rank > c.last
       THEN events
       ELSE IF frame.cyclic /\ delta = 0 THEN seen
       ELSE IndexScan(w, frame, c, rank + delta,
                      IF frame.cyclic THEN p + 2 ELSE p + 1, seen)
Scan(w, frame, c) ==
    IndexScan(w, frame, c, c.group * RanksPerGroup + c.first, c.offset, <<>>)

\* A completed tick of an indexed read.
TickEvents(time) == <<ListEnd(time), Tick(time)>>

\* The cursors' frames in ascending order; the groups of one frame by slot.
IndexFrom(st) ==
    LET live == {g \in DOMAIN st.cursors : st.cursors[g].live}
        least == CHOOSE f \in {st.cursors[g].frame : g \in live} :
                     \A g \in live : f <= st.cursors[g].frame
        frame == st.index.frames[least + 1]
        pending == {g \in live : st.cursors[g].frame = least}
        slots == SelectSeq([g \in 1..Cardinality(Groups) |-> g - 1],
                           LAMBDA g : g \in pending)
        passed == IF st.time >= 0 /\ st.time # frame.time
                  THEN st.events \o TickEvents(st.time) ELSE st.events
    IN IF live = {} \/ (live # {} /\ frame.time > st.end)
       THEN IF st.time < 0 THEN st.events ELSE st.events \o TickEvents(st.time)
       ELSE IndexFrom([st EXCEPT
              !.time = frame.time,
              !.events = FoldLeft(LAMBDA e, g : e \o Scan(st.w, frame, st.cursors[g]),
                                  passed, slots),
              !.cursors = [g \in DOMAIN @ |->
                  IF g \in pending THEN Advanced(st.index, @[g]) ELSE @[g]]])

IndexRead(ix, w, ranks, end) ==
    IndexFrom([index |-> ix, w |-> w, cursors |-> Cursors(ix, ranks), end |-> end,
               time |-> -1, events |-> <<>>])

-----------------------------------------------------------------------------
(* Reads: scalars are assembled into the buffers of the selected signals,  *)
(* and a buffer whose scalars are all known is reported when a list ends.  *)

\* The dependencies of a selection, sorted by source id.
Dependencies(signals) ==
    FlattenSeq([r \in 1..Len(Active) |->
        FlattenSeq([slot \in 1..Len(signals) |->
            LET ids == Recipes[signals[slot]]
                places == SelectSeq([p \in 1..Len(ids) |-> p],
                                    LAMBDA p : ids[p] = Active[r])
            IN [k \in 1..Len(places) |->
                   [id |-> Active[r], slot |-> slot, position |-> places[k]]]])])

DependencyRange(deps, id) == {k \in 1..Len(deps) : deps[k].id = id}
SelectedRanges(deps, ids) == [i \in 1..Len(ids) |-> DependencyRange(deps, ids[i])]
DependencyRanges(deps) == [r \in 1..Len(Active) |-> DependencyRange(deps, Active[r])]

\* A broad read routes by rank, an indexed one by the route of the event.
EventRange(e, broad, deps, ids) ==
    CASE broad -> DependencyRanges(deps)[e.rank + 1]
      [] ~broad /\ e.route # NoRoute -> SelectedRanges(deps, ids)[e.route]
      [] OTHER -> DependencyRange(deps, Active[e.rank + 1])

Assemble(st, e, range, deps) ==
    LET first == ~st.seen[CHOOSE k \in range : \A j \in range : k <= j]
        of(slot) == {k \in range : deps[k].slot = slot}
        marked == FoldLeft(LAMBDA t, k : IF k \in range /\ ~Contains(t, deps[k].slot)
                                         THEN Append(t, deps[k].slot) ELSE t,
                           st.touched, [k \in 1..Len(deps) |-> k])
    IN IF range = {} THEN st
       ELSE [st EXCEPT
              !.seen = [k \in DOMAIN @ |-> @[k] \/ k \in range],
              !.known = [s \in DOMAIN @ |->
                           IF first THEN @[s] + Cardinality(of(s)) ELSE @[s]],
              !.digits = [s \in DOMAIN @ |-> [p \in DOMAIN @[s] |->
                  IF \E k \in of(s) : deps[k].position = p THEN e.value ELSE @[s][p]]],
              !.touched = marked]

Report(st, signals, time) ==
    LET whole == SelectSeq(st.touched,
                           LAMBDA s : st.known[s] = Len(Recipes[signals[s]]))
    IN [st EXCEPT !.touched = <<>>,
          !.out = @ \o [i \in 1..Len(whole) |->
              [signal |-> signals[whole[i]], time |-> time,
               value |-> st.digits[whole[i]]]]]

Consume(signals, events, broad, deps, ids) ==
    FoldLeft(LAMBDA st, e :
        CASE e.kind = "scalar" -> Assemble(st, e, EventRange(e, broad, deps, ids), deps)
          [] e.kind = "list" -> Report(st, signals, e.time)
          [] e.kind = "tick" -> [st EXCEPT !.ticks = Append(@, [at |-> e.time,
                                                               after |-> Len(st.out)])],
        [seen |-> [k \in 1..Len(deps) |-> FALSE],
         known |-> [s \in 1..Len(signals) |-> 0],
         digits |-> [s \in 1..Len(signals) |->
                        [p \in 1..Len(Recipes[signals[s]]) |-> 0]],
         touched |-> <<>>, out |-> <<>>, ticks |-> <<>>],
        events)

\* Reader::read: half of the scalars or more are read by the walker.
Read(w, ix, signals, end) ==
    LET deps == Dependencies(signals)
        chosen == {deps[k].id : k \in 1..Len(deps)}
        ids == SelectSeq(Active, LAMBDA id : id \in chosen)
        ranks == {r \in 0..(Len(Active) - 1) : Active[r + 1] \in chosen}
        broad == 2 * Len(ids) >= Len(Active)
        events == IF ix.kept /\ ~broad THEN IndexRead(ix, w, ranks, end)
                  ELSE Walk(w, end).events
    IN Consume(signals, events, broad, deps, ids)
==============================================================================
