--------------------------------- MODULE Fst ---------------------------------
(***************************************************************************)
(* The FST reader over the fst-reader library: hierarchy entries folded    *)
(* into scopes and variables with the attributes that precede them, reads  *)
(* of selected signals section by section, and candidate times.            *)
(***************************************************************************)
EXTENDS Integers, SequencesExt, Optional

-----------------------------------------------------------------------------
(* Reader::open: the hierarchy. *)

FstTop(st) == IF st.stack = <<>> THEN 0 ELSE st.stack[Len(st.stack)]
Position(seq, Test(_)) ==
    LET found == {i \in 1..Len(seq) : Test(seq[i])}
    IN IF found = {} THEN 0 ELSE CHOOSE i \in found : \A j \in found : i <= j
Malformed(st) == [st EXCEPT !.ok = FALSE]
Agree(a, b) == a = None \/ b = None \/ a = b
Either(a, b) == IF a = None THEN b ELSE a

\* A scope is known by its parent and spelling.  It takes the pending packing and
\* ends what is pending for a variable.
FstScope(st, e) ==
    LET id == Position(st.scopes, LAMBDA s : s.parent = FstTop(st) /\ s.name = e.name)
        old == st.scopes[id]
        fresh == [parent |-> FstTop(st), name |-> e.name, kind |-> e.kind,
                  definition |-> e.definition, packing |-> st.packing]
        entered == [st EXCEPT !.packing = None, !.enum = None, !.vhdl = None]
    IN IF id = 0
       THEN [entered EXCEPT !.scopes = Append(@, fresh),
                            !.stack = Append(@, Len(st.scopes) + 1)]
       ELSE IF old.kind = e.kind /\ Agree(old.definition, e.definition)
                 /\ Agree(old.packing, st.packing)
       THEN [entered EXCEPT !.stack = Append(@, id),
                            !.scopes[id].definition = Either(@, e.definition),
                            !.scopes[id].packing = Either(@, st.packing)]
       ELSE Malformed(st)

\* Mutation: the enumeration of a variable stays pending for the next.
FstVariableKeeps(st, e) ==
    LET found == Position(st.signals, LAMBDA s : s.handle = e.handle)
        index == IF found = 0 THEN Len(st.signals) + 1 ELSE found
    IN IF found # 0 /\ st.signals[found].encoding # e.encoding THEN Malformed(st)
       ELSE [st EXCEPT
              !.signals = IF found # 0 THEN @
                          ELSE Append(@, [handle |-> e.handle, encoding |-> e.encoding]),
              !.variables = Append(@, [parent |-> FstTop(st), name |-> e.name,
                                       vhdl |-> st.vhdl, enum |-> st.enum,
                                       signal |-> index]),
              !.vhdl = None, !.packing = None]

\* A variable takes what is pending for it; handles are signals, encoded alike.
FstVariable(st, e) ==
    LET found == Position(st.signals, LAMBDA s : s.handle = e.handle)
        index == IF found = 0 THEN Len(st.signals) + 1 ELSE found
    IN IF found # 0 /\ st.signals[found].encoding # e.encoding THEN Malformed(st)
       ELSE [st EXCEPT
              !.signals = IF found # 0 THEN @
                          ELSE Append(@, [handle |-> e.handle, encoding |-> e.encoding]),
              !.variables = Append(@, [parent |-> FstTop(st), name |-> e.name,
                                       vhdl |-> st.vhdl, enum |-> st.enum,
                                       signal |-> index]),
              !.vhdl = None, !.enum = None, !.packing = None]

FstEntry(st, e) ==
    CASE ~st.ok -> st
      [] st.ok /\ e.entry = "scope" -> FstScope(st, e)
      [] st.ok /\ e.entry = "up" ->
           IF st.stack = <<>> THEN Malformed(st) ELSE [st EXCEPT !.stack = Front(@)]
      [] st.ok /\ e.entry = "var" -> FstVariable(st, e)
      [] st.ok /\ e.entry = "vhdl" -> [st EXCEPT !.vhdl = e.name]
      [] st.ok /\ e.entry = "table" -> [st EXCEPT !.tables = @ \cup {e.name}]
      [] st.ok /\ e.entry = "enum" ->
           IF e.name \in st.tables THEN [st EXCEPT !.enum = e.name] ELSE Malformed(st)
      [] st.ok /\ e.entry = "pack" -> [st EXCEPT !.packing = e.name]

FstImport(entries) ==
    LET done == FoldLeft(FstEntry,
            [scopes |-> <<>>, variables |-> <<>>, signals |-> <<>>, stack |-> <<>>,
             tables |-> {}, vhdl |-> None, enum |-> None, packing |-> None, ok |-> TRUE],
            entries)
    IN [done EXCEPT !.ok = @ /\ done.stack = <<>>]

-----------------------------------------------------------------------------
(* Reads. *)

\* The library reads the sections that overlap the window, each from its frame (the
\* value at the section's start) on.
Callbacks(sections, start, end) ==
    FlattenSeq([i \in 1..Len(sections) |->
        LET s == sections[i]
            over == i = Len(sections) \/ sections[i + 1].start > start
        IN IF over /\ s.start <= end
           THEN <<[time |-> s.start, value |-> s.frame]>> \o s.changes ELSE <<>>])

\* read: callbacks after the end are ignored; an invalid value ends the read.
FstRead(sections, start, end) ==
    FoldLeft(LAMBDA st, x :
        CASE st.failed \/ x.time > end -> st
          [] ~st.failed /\ x.time <= end /\ x.value = "invalid" -> [st EXCEPT !.failed = TRUE]
          [] OTHER -> [st EXCEPT !.out = Append(@, x)],
        [out |-> <<>>, failed |-> FALSE], Callbacks(sections, start, end))

\* A candidate time is told to a visitor, which stops after `limit` of them.
Tell(st, time) ==
    LET told == [st EXCEPT !.visited = Append(@, time)]
    IN IF Len(told.visited) = st.limit THEN [told EXCEPT !.result = "stopped"] ELSE told

\* The read of candidate times from what it delivers: a time is told when the next one
\* begins; nothing is read once the visitor has stopped.
Candidates(read, start, limit) ==
    FoldLeft(LAMBDA st, x :
        IF x.time < start \/ st.result = "stopped" THEN st
        ELSE [(IF st.pending \in {None, x.time} THEN st ELSE Tell(st, st.pending))
                 EXCEPT !.pending = x.time],
        [pending |-> None, visited |-> <<>>, limit |-> limit, result |-> "done"], read.out)

\* Mutation: the pending time of a failed read is published.
CandidateTimesFailing(sections, start, end, limit) ==
    LET read == FstRead(sections, start, end)
        done == Candidates(read, start, limit)
    IN IF start > end \/ done.result = "stopped" \/ done.pending = None THEN done
       ELSE Tell(done, done.pending)

\* read_candidate_times: the last time is told when the read succeeds.
CandidateTimes(sections, start, end, limit) ==
    LET read == FstRead(sections, start, end)
        done == Candidates(read, start, limit)
    IN CASE start > end \/ done.result = "stopped" -> done
         [] start <= end /\ done.result = "done" /\ read.failed ->
              [done EXCEPT !.result = "error"]
         [] OTHER -> IF done.pending = None THEN done ELSE Tell(done, done.pending)
==============================================================================
