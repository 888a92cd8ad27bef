------------------------------ MODULE Adapters -------------------------------
(***************************************************************************)
(* The pure algorithms of the readers and of the hierarchy, each checked   *)
(* against what it promises.  A task is one input of one algorithm; the    *)
(* answer is what the code computes from it.  Slices and concatenations of *)
(* one waveform accumulate, call by call.                                  *)
(***************************************************************************)
EXTENDS Fsdb, Fst, ShmImport, WlfPoint, Compose, Lookup, PathText

CONSTANTS
    FsdbTrees,      \* callback sequences of the FSDB SDK
    FsdbRecords,    \* records of an FSDB cursor
    FstTrees,       \* hierarchy entries of the FST library
    FstBodies,      \* sections of an FST file
    ShmDirectories, \* components of an SHM database
    ShmTrees,       \* objects of an SHM database
    Waves,          \* the encodings of a waveform's signals
    Trees,          \* hierarchies
    Names,          \* bound: names of a lookup
    Texts,          \* paths, as sequences of names
    Indices,        \* bound: slice indices
    MaxCalls        \* bound: slices and concatenations of a waveform

VARIABLES
    task,       \* the algorithm and its input; the calls made, of a composition
    answer,     \* <<>>, or the answer
    wave,       \* the waveform of a composition
    handles     \* signal handles obtained from it

vars == <<task, answer, wave, handles>>

Times == 0..MaxTick
NoWave == [source |-> 0, encodings |-> <<>>, definitions |-> <<>>]
Task(of, input) == task = [of |-> of, input |-> input]

\* The recordings of a point read: several records may share a tick in FSDB.
FsdbHistories ==
    {h \in UNION {[1..n -> Record] : n \in 0..MaxRecords} :
        \A i \in 1..(Len(h) - 1) : h[i].tick <= h[i + 1].tick}
WlfHistories ==
    {h \in [1..Bases -> Histories] :
        FoldFunction(LAMBDA x, n : n + Len(x), 0, h) <= MaxRecords}

\* What an FSDB operation does, and where it fails.
Operations ==
    {"open", "metadata"} \X {"none", "open"} \cup {<<"open", "import">>}
        \cup {"sample", "read"} \X {"none", "begin"} \cup {"read"} \X {"next", "break", "panic"}

\* What a session may find later: the same objects, one of them renamed or of another
\* shape, or one enumeration in another order.
Changed(objs) ==
    LET at == DOMAIN objs \ {0}
    IN {objs} \cup {[objs EXCEPT ![h].name = 3 - @] : h \in at}
         \cup {[objs EXCEPT ![h].width = @ + 1] : h \in at}
         \cup {[objs EXCEPT ![h].children = Reverse(@)] : h \in DOMAIN objs}

Init ==
    /\ answer = <<>>
    /\ \/ /\ wave = NoWave /\ handles = {}
          /\ \/ \E t \in FsdbTrees : Task("fsdb import", t)
             \/ \E h \in FsdbRecords, s \in Times, e \in Times, n \in {1, MaxRecords + 1} :
                   Task("fsdb read", [records |-> h, start |-> s, end |-> e, limit |-> n])
             \/ \E h \in FsdbHistories, t \in Times, p \in Parts :
                   Task("fsdb sample", [records |-> h, time |-> t, part |-> p])
             \/ \E op \in Operations, n \in 0..2 :
                   Task("fsdb lock", [op |-> op[1], failure |-> op[2], count |-> n])
             \/ \E t \in FstTrees : Task("fst import", t)
             \/ \E b \in FstBodies, s \in Times, e \in Times, n \in 1..3 :
                   Task("fst times", [sections |-> b, start |-> s, end |-> e, limit |-> n])
             \/ \E d \in ShmDirectories : Task("shm join", d)
             \/ \E old \in ShmTrees : \E new \in Changed(old) :
                   Task("shm routes", [old |-> old, new |-> new])
             \/ \E h \in WlfHistories, t \in (MaxTick - 1)..MaxTick :
                   \E ps \in UNION {[1..n -> Projection] : n \in 1..2} :
                       Task("wlf sample", [history |-> h, time |-> t, projections |-> ps])
             \/ \E t \in Trees : Task("lookup", t)
             \/ \E p \in Texts : Task("path", p)
       \/ /\ Task("compose", 0)
          /\ \E e \in Waves :
                /\ wave = [source |-> 1, encodings |-> e, definitions |-> <<>>]
                /\ handles = {SignalAt(wave, i) : i \in 1..Len(e)}
                               \cup {SignalAt([wave EXCEPT !.source = 2], 1)}

-----------------------------------------------------------------------------
(* One action per algorithm. *)

Asked(of) == task.of = of /\ answer = <<>>
Answer(result) == answer' = <<result>> /\ UNCHANGED <<task, wave, handles>>

OpenFsdb == Asked("fsdb import") /\ Answer(FsdbImport(task.input))
ReadFsdb ==
    LET i == task.input
    IN Asked("fsdb read") /\ Answer(ReadFrom(i.records, i.start, i.end, i.limit))
SampleFsdb ==
    LET i == task.input
    IN Asked("fsdb sample") /\ Answer(FsdbSample(i.records, i.time, i.part))
LockFsdb ==
    LET i == task.input
    IN Asked("fsdb lock") /\ Answer(LockCalls(i.op, i.failure, i.count))
OpenFst == Asked("fst import") /\ Answer(FstImport(task.input))
CandidatesFst ==
    LET i == task.input
    IN Asked("fst times") /\ Answer(CandidateTimes(i.sections, i.start, i.end, i.limit))
JoinShm == Asked("shm join") /\ Answer(OpenComponents(task.input))

\* The identities a query may select: first declarations of a history.
Identities(original) ==
    {i \in 1..Len(original.out) : original.out[i].entry = 2 /\ original.out[i].id = i}
RouteShm ==
    LET original == Imported(task.input.old)
    IN /\ Asked("shm routes")
       /\ Answer([original |-> original, open |-> ShmOpen(task.input.old),
                  selected |-> [ids \in SUBSET Identities(original) \ {{}} |->
                                   Selected(original, task.input.new, ids)]])

\* A point read of the WLF worker; any start the SDK suggests may be taken.
SampleWlf ==
    LET i == task.input
        target == Target(i.history, i.time)
    IN /\ Asked("wlf sample")
       /\ \E start \in IF target > Lookback THEN Starts(target, i.projections) ELSE {0} :
             Answer(SampleBits(i.history, i.projections, start, target))

SearchTree ==
    LET h == task.input
        paths == UNION {[1..n -> Names] : n \in 0..3}
    IN /\ Asked("lookup")
       /\ Answer([variables |-> [p \in paths |-> VariablePath(h, p)],
                  scopes |-> [p \in paths |-> ScopePath(h, p)],
                  signals |-> [p \in paths, q \in {<<>>, <<1>>} |-> SignalSelector(h, p, q)],
                  children |-> [s \in 1..Len(h.scopes) |-> ChildrenOf(h, s)],
                  aliases |-> [s \in 1..2 |-> Aliases(h, s)]])

SpellPath ==
    LET path == task.input
        slice == <<"[", "1", ":", "0", "]">>
    IN /\ Asked("path")
       /\ Answer([shown |-> Parse(Display(path)), verilog |-> Parse(ToVerilog(path)),
                  selector |-> Selector(Display(path)),
                  sliced |-> Selector(Display(path) \o slice),
                  escaped |-> Selector(ToVerilog(path) \o slice)])

\* Calls on one waveform; a failed call changes nothing.
Call(call, result, grown, new) ==
    /\ task.of = "compose" /\ task.input < MaxCalls
    /\ task' = [task EXCEPT !.input = @ + 1]
    /\ answer' = <<[call |-> call, result |-> result]>>
    /\ wave' = grown
    /\ handles' = handles \cup new
SliceCall ==
    \E s \in handles, msb \in Indices, lsb \in Indices :
        LET r == SliceSignal(s, msb, lsb)
        IN Call([of |-> "slice", signal |-> s, msb |-> msb, lsb |-> lsb], r, wave,
                IF r.error = "none" THEN {r.signal} ELSE {})
HdlSliceCall ==
    \E s \in handles, range \in [msb : Indices, lsb : Indices], msb \in Indices, lsb \in Indices :
        LET r == HdlSlice(range, s, msb, lsb)
        IN /\ task.input = 0
           /\ Call([of |-> "hdl", signal |-> s, range |-> range, msb |-> msb, lsb |-> lsb],
                   r, wave, IF r.error = "none" THEN {r.signal} ELSE {})
ConcatCall ==
    \E parts \in UNION {[1..n -> handles] : n \in 0..2} :
        LET r == Concat(wave, parts)
        IN Call([of |-> "concat", parts |-> parts],
                [error |-> r.error, signals |-> r.signals], r.wave, r.signals)
PlanCall ==
    \E signals \in UNION {[1..n -> handles] : n \in 1..2} :
        /\ task.of = "compose" /\ task.input = MaxCalls
        /\ task' = [task EXCEPT !.input = @ + 1]
        /\ answer' = <<[call |-> [of |-> "plan", signals |-> signals],
                        result |-> Plan(wave, signals)]>>
        /\ UNCHANGED <<wave, handles>>

Next ==
    \/ OpenFsdb \/ ReadFsdb \/ SampleFsdb \/ LockFsdb
    \/ OpenFst \/ CandidatesFst
    \/ JoinShm \/ RouteShm
    \/ SampleWlf
    \/ SearchTree \/ SpellPath
    \/ SliceCall \/ HdlSliceCall \/ ConcatCall \/ PlanCall

Spec == Init /\ [][Next]_vars

-----------------------------------------------------------------------------
(* What the imports promise, from nesting alone. *)

Done(of) == task.of = of /\ answer # <<>>
Opening(e) == e.entry \in {"scope", "composite"}
Depth(t, i) ==
    Cardinality({j \in 1..i : Opening(t[j])}) - Cardinality({j \in 1..i : t[j].entry = "up"})
WellNested(t) == (\A i \in 1..Len(t) : Depth(t, i) >= 0) /\ Depth(t, Len(t)) = 0

\* The names of the scopes an entry is in, and its own.
Within(t, i) ==
    LET open == SelectSeq([j \in 1..(i - 1) |-> j],
                          LAMBDA j : Opening(t[j]) /\ \A k \in j..(i - 1) : Depth(t, k) >= Depth(t, j))
    IN [n \in 1..Len(open) |-> <<t[open[n]].entry, t[open[n]].name>>]
Named(t, i) == Append(Within(t, i), <<t[i].entry, t[i].name>>)
Scopes(t) == {i \in 1..Len(t) : Opening(t[i])}
Variables(t) == {i \in 1..Len(t) : t[i].entry = "var"}
Declares(t, name) == {i \in Scopes(t) : Named(t, i) = name}

\* The one value that is given, if any is.
Given(values) == IF values \subseteq {None} THEN None ELSE CHOOSE v \in values : v # None
Consistent(values) == Cardinality(values \ {None}) <= 1

RECURSIVE NameOf(_, _)
NameOf(scopes, s) ==
    IF s = 0 THEN <<>>
    ELSE Append(NameOf(scopes, scopes[s].parent), <<scopes[s].entry, scopes[s].name>>)

\* An FSDB import succeeds on a well nested tree without contradictory declarations;
\* then repeated scopes are one scope with whatever was given for it, repeated variables
\* one variable, and aliases separate variables of one signal (fsdb.rs, Reader::open).
FsdbImportExact ==
    Done("fsdb import") =>
        LET t == task.input
            r == answer[1]
            scopeNames == {Named(t, i) : i \in Scopes(t)}
        IN /\ r.ok = /\ WellNested(t)
                     /\ \A name \in scopeNames :
                          /\ Cardinality({t[i].kind : i \in Declares(t, name)}) = 1
                          /\ Consistent({t[i].definition : i \in Declares(t, name)})
                     /\ \A i \in Variables(t) :
                          /\ t[i].id > 0
                          /\ \A j \in Variables(t) : t[j].id = t[i].id =>
                               /\ t[j].type = t[i].type /\ t[j].bytes = t[i].bytes
                               /\ StorageOf(t[i]) = StorageOf(t[j])
                               /\ StorageOf(t[i]) = "bits" => t[j].bits = t[i].bits
           /\ r.ok =>
                /\ Len(r.scopes) = Cardinality(scopeNames)
                /\ {NameOf(r.scopes, s) : s \in 1..Len(r.scopes)} = scopeNames
                /\ \A s \in 1..Len(r.scopes) :
                     r.scopes[s].definition =
                       Given({t[i].definition : i \in Declares(t, NameOf(r.scopes, s))})
                /\ {<<NameOf(r.scopes, v.parent), v.name, v.kind, r.signals[v.signal].id>> :
                      v \in ToSet(r.variables)}
                     = {<<Within(t, i), t[i].name, t[i].type, t[i].id>> : i \in Variables(t)}
                /\ IsInjective(r.variables)
                /\ Len(r.signals) = Cardinality({t[i].id : i \in Variables(t)})

\* An attribute that waits at an entry: the last of its kind since a scope or a variable.
Waiting(t, i, kind) ==
    LET at == {j \in 1..(i - 1) : t[j].entry = kind
                 /\ \A k \in (j + 1)..(i - 1) : t[k].entry \notin {"scope", "var"}}
    IN IF at = {} THEN None ELSE t[CHOOSE j \in at : \A k \in at : k <= j].name

\* An FST variable has exactly the attributes between it and the scope or variable
\* before it, a scope the packing, and contradictory repetitions are refused (fst.rs,
\* Reader::open).
FstImportExact ==
    Done("fst import") =>
        LET t == task.input
            r == answer[1]
            scopeNames == {Named(t, i) : i \in Scopes(t)}
            packings(name) == {Waiting(t, i, "pack") : i \in Declares(t, name)}
            variables == SelectSeq([i \in 1..Len(t) |-> i], LAMBDA i : i \in Variables(t))
            named(s) == IF s = 0 THEN <<>> ELSE NameOf([i \in 1..Len(r.scopes) |->
                            [parent |-> r.scopes[i].parent, name |-> r.scopes[i].name,
                             entry |-> "scope"]], s)
        IN /\ r.ok = /\ WellNested(t)
                     /\ \A name \in scopeNames :
                          /\ Cardinality({t[i].kind : i \in Declares(t, name)}) = 1
                          /\ Consistent({t[i].definition : i \in Declares(t, name)})
                          /\ Consistent(packings(name))
                     /\ \A i \in 1..Len(t) : t[i].entry = "enum" =>
                          \E j \in 1..(i - 1) : t[j].entry = "table" /\ t[j].name = t[i].name
                     /\ \A i, j \in Variables(t) :
                          t[i].handle = t[j].handle => t[i].encoding = t[j].encoding
           /\ r.ok =>
                /\ {named(s) : s \in 1..Len(r.scopes)} = scopeNames
                /\ \A s \in 1..Len(r.scopes) : r.scopes[s].packing = Given(packings(named(s)))
                /\ Len(r.variables) = Len(variables)
                /\ \A k \in 1..Len(variables) :
                     LET i == variables[k]
                         v == r.variables[k]
                     IN /\ v.name = t[i].name /\ named(v.parent) = Within(t, i)
                        /\ v.enum = Waiting(t, i, "enum") /\ v.vhdl = Waiting(t, i, "vhdl")
                        /\ r.signals[v.signal].handle = t[i].handle

-----------------------------------------------------------------------------
(* What the reads promise. *)

Ascending(ticks) == \A i \in 1..(Len(ticks) - 1) : ticks[i] <= ticks[i + 1]

\* A read delivers the changes of the window in order, up to the first that cannot be
\* decoded or the one after which the visitor stops, and reports which it was; records
\* out of order are never delivered (fsdb.rs, Reader::read_from).
FsdbReadExact ==
    Done("fsdb read") =>
        LET i == task.input
            r == answer[1]
            window == SelectSeq(i.records, LAMBDA x : x.tick \in i.start..i.end
                                                      /\ x.value # "no change")
            bad == {k \in 1..Len(window) : window[k].value = "invalid"}
            good == IF bad = {} THEN Len(window)
                    ELSE (CHOOSE k \in bad : \A j \in bad : k <= j) - 1
            ticks == [k \in 1..Len(i.records) |-> i.records[k].tick]
        IN /\ Ascending([k \in 1..Len(r.out) |-> r.out[k].tick])
           /\ \A k \in 1..Len(r.out) : r.out[k].tick \in i.start..i.end
           /\ Ascending(ticks) =>
                IF good >= i.limit
                THEN r.result = "stopped" /\ r.out = SubSeq(window, 1, i.limit)
                ELSE /\ r.result = IF bad = {} THEN "done" ELSE "error"
                     /\ r.out = SubSeq(window, 1, good)

\* A point read gives the value at the end of the last tick that is not later, and the
\* last tick whose end differs from the end of the tick before (ondas_fsdb_sample_bits).
FsdbSampleExact ==
    Done("fsdb sample") =>
        LET i == task.input
            h == i.records
            ticks == {h[k].tick : k \in 1..Len(h)} \cap 0..i.time
            end(t) == LET at == {k \in 1..Len(h) : h[k].tick = t}
                      IN Part(h[CHOOSE k \in at : \A j \in at : j <= k].value, i.part)
            latest(ts) == CHOOSE t \in ts : \A u \in ts : u <= t
            earlier(t) == {u \in ticks : u < t}
            changes == {t \in ticks : earlier(t) # {} /\ end(t) # end(latest(earlier(t)))}
        IN answer[1] = IF ticks = {} THEN None
                       ELSE [value |-> end(latest(ticks)),
                             changed |-> IF changes = {} THEN None ELSE latest(changes)]

\* Whatever fails, the SDK lock is never taken twice, every SDK call holds it, the
\* visitor never does, and what was opened or begun is ended and closed, once and in
\* that order (fsdb.rs, the order in which locals are dropped).
LockDiscipline ==
    Done("fsdb lock") =>
        LET calls == answer[1]
            count(s, n) == Cardinality({k \in 1..n : calls[k] \in s})
            held(n) == count({"lock"}, n) - count({"unlock"}, n)
            total(call) == count({call}, Len(calls))
        IN /\ \A n \in 1..Len(calls) :
                /\ held(n) \in {0, 1}
                /\ calls[n] = "visit" => held(n) = 0
                /\ calls[n] \notin {"visit", "unlock"} => held(n) = 1
                /\ count({"begin"}, n) - count({"end"}, n) \in {0, 1}
                /\ calls[n] = "close" => count({"begin"}, n) = count({"end"}, n)
           /\ held(Len(calls)) = 0
           /\ total("open") = total("close")

\* Candidate times ascend within the window, miss no change before the time at which
\* the visitor stops or of a read that succeeds, and never include a tick that holds a
\* value that cannot be read; a read only fails at such a value, which a visitor that
\* stops early never meets (fst.rs, read_candidate_times).
CandidatesExact ==
    Done("fst times") =>
        LET i == task.input
            r == answer[1]
            times == r.visited
            changes == UNION {ToSet(s.changes) : s \in ToSet(i.sections)}
            frames == {[time |-> s.start, value |-> s.frame] : s \in ToSet(i.sections)}
            window == i.start..i.end
        IN /\ \A k \in 1..(Len(times) - 1) : times[k] < times[k + 1]
           /\ ToSet(times) \subseteq window \cap {x.time : x \in changes \cup frames}
           /\ \A x \in changes \cup frames : x.value = "invalid" => x.time \notin ToSet(times)
           /\ r.result = "error" => \E x \in changes \cup frames : x.value = "invalid"
           /\ r.result = "stopped" <=> Len(times) = i.limit
           /\ LET told == {x.time : x \in changes} \cap window
              IN CASE r.result = "done" -> told \subseteq ToSet(times)
                   [] r.result = "stopped" -> {t \in told : t <= Last(times)} \subseteq ToSet(times)
                   [] OTHER -> TRUE

\* A WLF point read answers every projection as a chronological read of its signal
\* would, wherever the suffix starts and whichever projections fall back (worker.rs,
\* sample_bits): the value, the time of its last change, or Missing.
SampleExact ==
    Done("wlf sample") =>
        \A k \in 1..Len(answer[1]) :
            LET p == task.input.projections[k]
            IN answer[1][k] = Reference(task.input.history[p.base], p.part, task.input.time)

-----------------------------------------------------------------------------
(* What an SHM session promises. *)

\* A session is open exactly when the directory holds one design and every component
\* joins it or belongs to another; its components are joined by ascending number, the
\* base first, and no handle survives a failure (Session::Session).
SessionJoins ==
    Done("shm join") =>
        LET d == task.input
            r == answer[1]
            numbers == [k \in 1..Len(d.trns) |-> d.trns[k].number]
            base == {k \in 1..Len(d.trns) : numbers[k] = 0}
        IN /\ r.failed = ~(/\ d.dsns = 1 /\ base # {}
                           /\ IsInjective(numbers) /\ \A k \in 1..Len(numbers) : numbers[k] >= 0
                           /\ \A k \in base : d.trns[k].status = 1 \/ d.opens
                           /\ \A k \in 1..Len(d.trns) : d.trns[k].status # 3)
           /\ r.handle = ~r.failed
           /\ ~r.failed =>
                /\ ToSet(r.joined) = {c.number : c \in {x \in ToSet(d.trns) : x.status \in {1, 4}}}
                /\ \A k \in 1..(Len(r.joined) - 1) : r.joined[k] < r.joined[k + 1]

\* The variables of the objects in declaration order, and the way to an object.
RECURSIVE VariablesUnder(_, _), WayTo(_, _)
VariablesUnder(objs, h) ==
    FlattenSeq([k \in 1..Len(objs[h].children \o objs[h].variables) |->
        LET c == (objs[h].children \o objs[h].variables)[k]
        IN (IF objs[c].class \in {"var", "struct"} THEN <<c>> ELSE <<>>)
             \o VariablesUnder(objs, c)])
WayTo(objs, h) ==
    IF h = 0 THEN <<>>
    ELSE LET up == CHOOSE u \in (DOMAIN objs) \X {"children", "variables"} :
                       Contains(objs[u[1]][u[2]], h)
             place == CHOOSE k \in 1..Len(objs[up[1]][up[2]]) : objs[up[1]][up[2]][k] = h
         IN Append(WayTo(objs, up[1]), <<up[2], place, objs[h].name>>)

\* Whatever else a later session shows, a selection of any declarations gives exactly
\* the objects at the places and names they were imported from, of the same shape, and
\* fails only when one of them is not there (resolve_children, selected_declarations).
ShmRoutes ==
    Done("shm routes") =>
        LET old == task.input.old
            new == task.input.new
            r == answer[1]
            sources == VariablesUnder(old, 0)
            entries == SelectSeq([k \in 1..Len(r.original.out) |-> k],
                                 LAMBDA k : r.original.out[k].entry = 2)
            source(i) == sources[CHOOSE k \in 1..Len(entries) : entries[k] = i]
            same(i) == {h \in DOMAIN new \ {0} :
                          /\ WayTo(new, h) = WayTo(old, source(i))
                          /\ Described(new, h) = Described(old, source(i))}
            alike == \A g, h \in ToSet(sources) :
                        old[g].history = old[h].history => Compatible(old[g], old[h])
        IN /\ r.open.ok = alike
           /\ alike =>
                /\ Len(entries) = Len(sources) /\ Len(r.open.variables) = Len(sources)
                /\ Len(r.open.ids) = Cardinality({old[h].history : h \in ToSet(sources)})
                /\ \A ids \in DOMAIN r.selected :
                     /\ r.selected[ids].failed = \E i \in ids : same(i) = {}
                     /\ ~r.selected[ids].failed =>
                          \A i \in ids : r.selected[ids].objects[i] \in same(i)

-----------------------------------------------------------------------------
(* What handles promise: a handle denotes bits of the waveform's signals. *)

RECURSIVE Denote(_, _)
Denote(w, s) ==
    LET width == s.base.width
        whole == IF s.computed
                 THEN LET parts == w.definitions[s.index].parts
                      IN FlattenSeq([k \in 1..Len(parts) |-> Denote(w, parts[k])])
                 ELSE [k \in 1..width |-> <<s.index, width - k>>]
    IN SubSeq(whole, width - s.lsb - s.encoding.width + 1, width - s.lsb)
Lowest(bits, msb, lsb) == SubSeq(bits, Len(bits) - msb, Len(bits) - lsb)

\* Every handle a waveform gave out stays valid and denotes the bits it was made of:
\* the parts in order, the asked part of a handle by position or by HDL index; equal
\* parts give one definition and a failed call none (Signal::slice, BitRange::slice,
\* Waveform::concat).
HandlesMean ==
    task.of = "compose" =>
        /\ \A s \in handles : s.source = wave.source =>
              Validate(wave, s) /\ Len(Denote(wave, s)) = s.encoding.width
        /\ IsInjective([k \in 1..Len(wave.definitions) |-> wave.definitions[k].parts])
        /\ answer # <<>> =>
             LET c == answer[1].call
                 r == answer[1].result
             IN CASE c.of = "slice" ->
                       r.error = "none" /\ c.signal.source = wave.source =>
                           Denote(wave, r.signal) = Lowest(Denote(wave, c.signal), c.msb, c.lsb)
                  [] c.of = "hdl" ->
                       r.error = "none" /\ c.signal.source = wave.source =>
                           LET bits == Denote(wave, c.signal)
                               at(i) == Distance(i, c.range.msb) + 1
                           IN Denote(wave, r.signal) = SubSeq(bits, at(c.msb), at(c.lsb))
                  [] c.of = "concat" ->
                       /\ r.error = "none" => \A s \in r.signals :
                            Denote(wave, s) = FlattenSeq([k \in 1..Len(c.parts) |->
                                                            Denote(wave, c.parts[k])])
                       /\ (r.error = "none") =
                            /\ c.parts # <<>>
                            /\ \A k \in 1..Len(c.parts) :
                                 /\ c.parts[k].source = wave.source
                                 /\ c.parts[k].encoding.class = "bits"
                                 /\ c.parts[k].encoding.width > 0
                            /\ FoldSeq(LAMBDA s, n : s.encoding.width + n, 0, c.parts)
                                 <= MaxWidth
                  [] c.of = "plan" -> TRUE

\* What the slots of a plan hold once its computations ran in order.
SlotBits(w, plan) ==
    FoldLeft(LAMBDA bits, s :
        LET c == CHOOSE x \in ToSet(plan.computations) : x.slot = Len(bits) + 1
            whole == FlattenSeq([k \in 1..Len(c.inputs) |-> bits[c.inputs[k]]])
        IN Append(bits,
             IF ~s.computed THEN Denote(w, s)
             ELSE IF c.slice THEN Lowest(whole, s.lsb + s.encoding.width - 1, s.lsb)
             ELSE whole),
        <<>>, plan.retained)

\* A plan of valid handles gives every selected signal a slot that holds the bits it
\* denotes, every slot once, inputs before what is computed from them, and every base
\* once with all its slots (Plan::new).
PlanComputes ==
    Done("compose") /\ answer[1].call.of = "plan" =>
        LET signals == answer[1].call.signals
            plan == answer[1].result
            read == {k \in 1..Len(plan.retained) : ~plan.retained[k].computed}
        IN /\ (plan.error = "none") = \A k \in 1..Len(signals) :
                Validate(wave, signals[k]) /\ signals[k].encoding.class # "unsupported"
           /\ plan.error = "none" =>
                /\ IsInjective(plan.retained) /\ IsInjective(plan.bases)
                /\ \A c \in ToSet(plan.computations), k \in 1..2 :
                     k <= Len(c.inputs) => c.inputs[k] < c.slot
                /\ UNION {ToSet(plan.groups[b]) : b \in DOMAIN plan.groups} = read
                /\ \A b \in DOMAIN plan.groups : \A k \in ToSet(plan.groups[b]) :
                     Contains(plan.bases, Base(plan.retained[k]))
                /\ Len(plan.indices) = Len(signals)
                /\ \A k \in 1..Len(signals) :
                     SlotBits(wave, plan)[plan.indices[k]] = Denote(wave, signals[k])

-----------------------------------------------------------------------------
(* What the hierarchy promises. *)

FoundAs(items, r) ==
    /\ r.matches = Cardinality(items)
    /\ r.matches = 1 => {r.found} = items

\* A path finds the declarations that have exactly this path, and says how many; a
\* selector's slice is considered only when no variable has its whole spelling; children
\* come scopes first, each kind as declared (variable_path, scope_path, signal,
\* children_of).
LookupExact ==
    Done("lookup") =>
        LET h == task.input
            r == answer[1]
            has(path) == {v \in 1..Len(h.variables) :
                            Append(PathAt(h, h.variables[v].parent), h.variables[v].name) = path}
            below(seq, s) == SelectSeq([k \in 1..Len(seq) |-> k], LAMBDA k : seq[k].parent = s)
            variables(s) == below(h.variables, s)
        IN /\ \A p \in DOMAIN r.variables : FoundAs(has(p), r.variables[p])
           /\ \A p \in DOMAIN r.scopes :
                FoundAs({s \in 1..Len(h.scopes) : PathAt(h, s) = p}, r.scopes[p])
           /\ \A pq \in DOMAIN r.signals :
                r.signals[pq].path = IF has(pq[1]) # {} \/ pq[2] = <<>> THEN pq[1] ELSE pq[2]
           /\ \A s \in 1..Len(h.scopes) :
                r.children[s] = below(h.scopes, s)
                    \o [k \in 1..Len(variables(s)) |-> Len(h.scopes) + variables(s)[k]]

\* The canonical text of a path, and its SystemVerilog text when it has one, parse back
\* to the path; no canonical text reads as a slice, and a slice appended to either is
\* read as that slice of that path (HierarchyPath, path::parse, path::selector).
ParseInverts ==
    Done("path") =>
        LET path == task.input
            r == answer[1]
            is == [ok |-> TRUE, path |-> path]
            slice == [slice |-> TRUE, ok |-> TRUE, path |-> path, msb |-> <<"1">>,
                      lsb |-> <<"0">>]
        IN /\ r.shown = is /\ ~r.selector.slice /\ r.sliced = slice
           /\ ToVerilog(path) # <<>> => r.verilog = is /\ r.escaped = slice

-----------------------------------------------------------------------------
(* The same by what is asked. *)

\* Imports of FSDB and FST keep what was declared and refuse contradictions.
ImportsExact == FsdbImportExact /\ FstImportExact

\* Chronological reads of FSDB and candidate times of FST are exact up to a failure.
ReadsExact == FsdbReadExact /\ CandidatesExact

\* Point reads of FSDB and WLF equal chronological reads.
PointsExact == FsdbSampleExact /\ SampleExact

\* A later SHM session joins the same components and finds the imported objects.
RoutesExact == SessionJoins /\ ShmRoutes

\* Signal handles and the plans of their queries denote the bits they were made of.
HandlesExact == HandlesMean /\ PlanComputes

\* Names, as paths and as text, find the declarations they spell.
NamesExact == LookupExact /\ ParseInverts
==============================================================================
