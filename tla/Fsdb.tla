-------------------------------- MODULE Fsdb ---------------------------------
(***************************************************************************)
(* The FSDB reader and its C++ shim: the import of the SDK's tree into     *)
(* scopes and variables, chronological reads and point reads of loaded     *)
(* signals, and the process-wide SDK lock around every SDK call.           *)
(***************************************************************************)
EXTENDS Integers, SequencesExt, Optional

-----------------------------------------------------------------------------
(* The shim's tree callback: declarations, until one is refused. *)

\* encoding: how values of a variable are stored, by its type, the bits it has
\* and the bytes of a bit.  Other combinations are declared but cannot be read.
StorageOf(v) ==
    CASE v.type = "event" -> "event"
      [] v.type = "string" -> "string"
      [] v.type = "real" /\ v.bits = 1 /\ v.bytes \in {4, 8} -> "real"
      [] v.type = "logic" /\ v.bytes = 1 -> "bits"
      [] OTHER -> "unsupported"

\* Only bits have a width.
WidthOf(v) == IF StorageOf(v) = "bits" THEN v.bits ELSE 0

\* An identity is positive and all its declarations are stored alike.
TreeVar(st, v) ==
    LET form == [encoding |-> StorageOf(v), width |-> WidthOf(v)]
        stored == form @@ [type |-> v.type, bytes |-> v.bytes]
        known == v.id \in DOMAIN st.storage
    IN IF v.id <= 0 \/ (known /\ st.storage[v.id] # stored)
       THEN [st EXCEPT !.error = TRUE]
       ELSE [st EXCEPT !.decls = Append(@, v @@ form),
                       !.storage = (v.id :> stored) @@ @]

TreeCallback(st, cb) ==
    CASE st.error -> st
      [] ~st.error /\ cb.entry = "var" -> TreeVar(st, cb)
      [] OTHER -> [st EXCEPT !.decls = Append(@, cb)]

Tree(callbacks) ==
    FoldLeft(TreeCallback, [decls |-> <<>>, storage |-> <<>>, error |-> FALSE], callbacks)

-----------------------------------------------------------------------------
(* Reader::open: the declarations, folded into scopes and variables. *)

Top(stack) == IF stack = <<>> THEN 0 ELSE stack[Len(stack)]
IndexIn(seq, Test(_)) ==
    LET found == {i \in 1..Len(seq) : Test(seq[i])}
    IN IF found = {} THEN 0 ELSE CHOOSE i \in found : \A j \in found : i <= j
Refused(st) == [st EXCEPT !.ok = FALSE]

\* Mutation: a scope and a composite of one name are taken for each other.
SameScopeByName(s, parent, d) == s.parent = parent /\ s.name = d.name
SameScope(s, parent, d) == s.parent = parent /\ s.name = d.name /\ s.entry = d.entry

\* A repeated scope is the one with its parent, its spelling and its entry kind;
\* its metadata must agree, and a definition it lacked is taken over.
ImportScope(st, d) ==
    LET parent == Top(st.stack)
        id == IndexIn(st.scopes, LAMBDA s : SameScope(s, parent, d))
        old == st.scopes[id]
        fresh == [parent |-> parent, name |-> d.name, entry |-> d.entry,
                  kind |-> d.kind, definition |-> d.definition]
    IN IF id = 0
       THEN [st EXCEPT !.scopes = Append(@, fresh), !.stack = Append(@, Len(st.scopes) + 1)]
       ELSE IF \/ old.kind # d.kind
               \/ /\ old.definition # None /\ d.definition # None
                  /\ old.definition # d.definition
       THEN Refused(st)
       ELSE [st EXCEPT !.stack = Append(@, id),
                       !.scopes[id].definition = IF @ = None THEN d.definition ELSE @]

\* One signal per identity; repeated declarations are one variable, aliases are not.
ImportVariable(st, d) ==
    LET found == IndexIn(st.signals, LAMBDA s : s.id = d.id)
        index == IF found = 0 THEN Len(st.signals) + 1 ELSE found
        encoding == [class |-> d.encoding, width |-> d.width]
        variable == [parent |-> Top(st.stack), name |-> d.name, kind |-> d.type,
                     signal |-> index]
    IN IF found # 0 /\ st.signals[found].encoding # encoding THEN Refused(st)
       ELSE [st EXCEPT
              !.signals = IF found = 0 THEN Append(@, [id |-> d.id, encoding |-> encoding])
                          ELSE @,
              !.variables = IF Contains(@, variable) THEN @ ELSE Append(@, variable)]

ImportEntry(st, d) ==
    CASE ~st.ok -> st
      [] st.ok /\ d.entry \in {"scope", "composite"} -> ImportScope(st, d)
      [] st.ok /\ d.entry = "up" ->
           IF st.stack = <<>> THEN Refused(st) ELSE [st EXCEPT !.stack = Front(@)]
      [] st.ok /\ d.entry = "var" -> ImportVariable(st, d)

FsdbImport(callbacks) ==
    LET tree == Tree(callbacks)
        done == FoldLeft(ImportEntry, [scopes |-> <<>>, variables |-> <<>>, stack |-> <<>>,
                                       signals |-> <<>>, ok |-> TRUE], tree.decls)
    IN [done EXCEPT !.ok = @ /\ ~tree.error /\ done.stack = <<>>]

-----------------------------------------------------------------------------
(* Chronological reads. *)

\* Mutation: a change at the start of the window is skipped.
WantedAfter(x, start) == x.tick > start /\ x.value # "no change"
Wanted(x, start) == x.tick >= start /\ x.value # "no change"

\* ondas_fsdb_next: skips what precedes the window and events without a trigger.
NextRecord(records, at, start, end) ==
    LET taken == {i \in at..Len(records) : Wanted(records[i], start)}
        past == {i \in at..Len(records) : records[i].tick > end}
        next == CHOOSE i \in taken : \A j \in taken : i <= j
    IN IF taken = {} \/ \E i \in past : \A j \in taken : i <= j THEN 0 ELSE next

\* read_from: until the cursor ends, a value cannot be decoded, ticks run backwards,
\* or the visitor stops after its limit.
RECURSIVE ReadOn(_, _, _, _)
ReadOn(st, records, start, end) ==
    LET i == NextRecord(records, st.at, start, end)
        x == records[i]
    IN CASE i = 0 -> [st EXCEPT !.result = "done"]
         [] i # 0 /\ (x.value = "invalid" \/ x.tick < st.previous) ->
              [st EXCEPT !.result = "error"]
         [] OTHER ->
              LET seen == [st EXCEPT !.out = Append(@, x), !.at = i + 1,
                                     !.previous = x.tick]
              IN IF Len(seen.out) = seen.limit THEN [seen EXCEPT !.result = "stopped"]
                 ELSE ReadOn(seen, records, start, end)
ReadFrom(records, start, end, limit) ==
    LET begun == [at |-> 1, out |-> <<>>, previous |-> 0, limit |-> limit,
                  result |-> "done"]
    IN IF start > end THEN begun ELSE ReadOn(begun, records, start, end)

-----------------------------------------------------------------------------
(* Point reads of one loaded signal; a part is the set of its bits asked for. *)

Part(value, part) == [b \in part |-> value[b]]

\* Mutation: the first record of the tick is taken for its last.
FinalBitsFirst(h, requested, part) ==
    LET before == {i \in 1..Len(h) : h[i].tick <= requested}
        at == h[CHOOSE i \in before : \A j \in before : h[j].tick <= h[i].tick].tick
        same == {i \in 1..Len(h) : h[i].tick = at}
    IN IF before = {} THEN None
       ELSE [at |-> at, value |-> Part(h[CHOOSE i \in same : \A j \in same : i <= j].value, part)]

\* final_bits: the seek aligns to the last tick not after the request; the records
\* of that tick are read to its end.
FinalBits(h, requested, part) ==
    LET before == {i \in 1..Len(h) : h[i].tick <= requested}
        at == h[CHOOSE i \in before : \A j \in before : h[j].tick <= h[i].tick].tick
        same == {i \in 1..Len(h) : h[i].tick = at}
    IN IF before = {} THEN None
       ELSE [at |-> at, value |-> Part(h[CHOOSE i \in same : \A j \in same : j <= i].value, part)]

\* ondas_fsdb_sample_bits: walks back to the tick before which the part differs.
RECURSIVE Since(_, _, _)
Since(h, now, part) ==
    LET before == IF now.at = 0 THEN None ELSE FinalBits(h, now.at - 1, part)
    IN CASE before = None -> None
         [] before # None /\ before.value # now.value -> now.at
         [] OTHER -> Since(h, before, part)
FsdbSample(h, time, part) ==
    LET now == FinalBits(h, time, part)
    IN IF now = None THEN None
       ELSE [value |-> now.value, changed |-> Since(h, now, part)]

-----------------------------------------------------------------------------
(* The SDK lock.  An operation is the sequence of what it does to the lock,   *)
(* the SDK and the visitor; its locals are dropped last declared first.       *)

Drop(local) ==
    CASE local = "guard" -> <<"unlock">>
      [] local = "handle" -> <<"lock", "close", "unlock">>
      [] local = "traversal" -> <<"lock", "end", "unlock">>
Drops(locals) == FlattenSeq([i \in 1..Len(locals) |-> Drop(Reverse(locals)[i])])

\* A step of an operation that may fail with the locals alive at that step.
OpenHandle(fails) ==
    IF fails THEN <<"lock", "open failed">> \o Drops(<<"guard">>)
    ELSE <<"lock", "open">> \o Drops(<<"guard">>)

\* Mutation: the guard is declared before the handle it protects.
OpenLocalsMutant == <<"guard", "handle">>
OpenLocals == <<"handle", "guard">>
OpenCalls(failure) ==
    CASE failure = "open" -> OpenHandle(TRUE)
      [] failure = "import" ->
           OpenHandle(FALSE) \o <<"lock", "import">> \o Drops(OpenLocals)
      [] OTHER -> OpenHandle(FALSE) \o <<"lock", "import">> \o Drops(<<"guard">>)
MetadataCalls(failure) ==
    IF failure = "open" THEN OpenHandle(TRUE)
    ELSE OpenHandle(FALSE) \o <<"lock", "import">> \o Drops(<<"guard">>) \o Drop("handle")

\* sample_bits holds the lock from the load to the last sample.
SampleCalls(failure, count) ==
    <<"lock", "begin">>
      \o (IF failure = "begin" THEN <<>> ELSE [i \in 1..count |-> "sample"])
      \o Drops(<<"traversal", "guard">>)

\* read_from locks for each record and never while the visitor runs.
ReadCalls(failure, count) ==
    LET begun == <<"lock", "begin">>
        record == <<"lock", "next", "unlock">>
        visited == FlattenSeq([i \in 1..count |-> record \o <<"visit">>])
    IN IF failure = "begin" THEN begun \o Drops(<<"traversal", "guard">>)
       ELSE begun \o Drops(<<"guard">>) \o visited
              \o (IF failure \in {"break", "panic"} THEN <<>>
                  ELSE IF failure = "next" THEN <<"lock", "next">> \o Drops(<<"guard">>)
                  ELSE record)
              \o Drop("traversal")

\* A reader is opened, used and closed; a failed open leaves nothing to use.
LockCalls(op, failure, count) ==
    CASE op = "metadata" -> MetadataCalls(failure)
      [] op = "open" /\ failure \in {"open", "import"} -> OpenCalls(failure)
      [] op = "open" /\ failure = "none" -> OpenCalls("none") \o Drop("handle")
      [] op = "sample" -> OpenCalls("none") \o SampleCalls(failure, count) \o Drop("handle")
      [] op = "read" -> OpenCalls("none") \o ReadCalls(failure, count) \o Drop("handle")
==============================================================================
