----------------------------- MODULE MCAdapters ------------------------------
(* Inputs of the algorithms for TLC. *)
EXTENDS Adapters

SeqsUpTo(S, n) == UNION {[1..k -> S] : k \in 0..n}

FsdbScope(entry, kind, definition) ==
    [entry |-> entry, name |-> "a", kind |-> kind, definition |-> definition]
FsdbVar(name, id, bits) ==
    [entry |-> "var", name |-> name, id |-> id, type |-> "logic", bits |-> bits, bytes |-> 1]
FsdbEvent(name, bits) == [FsdbVar(name, 2, bits) EXCEPT !.type = "event"]
Up == [entry |-> "up"]
MCFsdbTrees ==
    SeqsUpTo({FsdbScope("scope", "module", None), FsdbScope("scope", "task", None),
              FsdbScope("composite", "module", None), Up, FsdbVar("v", 1, 1),
              FsdbVar("w", 1, 1), FsdbVar("v", 1, 2), FsdbVar("v", 0, 1)}, 4)
    \cup [1..6 -> {FsdbScope("scope", "module", None), FsdbScope("scope", "module", "d"),
                   FsdbScope("scope", "module", "e"), Up, FsdbVar("v", 1, 1)}]
    \cup SeqsUpTo({FsdbEvent("v", 1), FsdbEvent("v", 2), FsdbEvent("w", 2),
                   FsdbVar("v", 2, 1)}, 3)

MCFsdbRecords ==
    SeqsUpTo([tick : 0..2, value : {"a", "invalid", "no change"}], 3)

FstScopeOf(kind, definition) ==
    [entry |-> "scope", name |-> "a", kind |-> kind, definition |-> definition]
FstVar(name, handle, encoding) ==
    [entry |-> "var", name |-> name, handle |-> handle, encoding |-> encoding]
Attribute(entry, name) == [entry |-> entry, name |-> name]
MCFstTrees ==
    SeqsUpTo({FstScopeOf("module", None), FstScopeOf("task", None), Up, FstVar("v", 1, 1),
              FstVar("v", 1, 2), Attribute("vhdl", "s"), Attribute("pack", "p")}, 4)
    \cup [1..5 -> {Attribute("table", "t"), Attribute("enum", "t"), Attribute("vhdl", "s"),
                   FstScopeOf("module", None), Up, FstVar("v", 1, 1)}]
    \cup [1..6 -> {Attribute("pack", "p"), Attribute("pack", "q"),
                   FstScopeOf("module", None), Up}]

FstChanges(from, to) ==
    {c \in SeqsUpTo([time : from..to, value : {"a", "invalid"}], 2) :
        Ascending([k \in 1..Len(c) |-> c[k].time])}
MCFstBodies ==
    {<<[start |-> 0, frame |-> "a", changes |-> c]>> : c \in FstChanges(0, 3)}
    \cup {<<[start |-> 0, frame |-> "a", changes |-> c],
            [start |-> 2, frame |-> f, changes |-> d]>> :
              c \in FstChanges(0, 1), d \in FstChanges(2, 3), f \in {"a", "invalid"}}

MCShmDirectories ==
    [dsns : {1}, opens : BOOLEAN,
     trns : {t \in SeqsUpTo([number : -1..2, status : 1..4], 3) :
               \A i, j \in 1..Len(t) : i # j /\ t[i].number = 0 => t[j].number # 0}]
    \cup [dsns : {0, 2}, opens : {TRUE}, trns : {<<[number |-> 0, status |-> 1]>>}]

\* Objects 1..n, each below an earlier one or the root, in one of its enumerations.
\* Scopes and arrays are never variables, and only composites have members.
ShmShapes(n) ==
    {f \in [1..n -> [up : 0..(n - 1), in : {"children", "variables"},
                     class : {"scope", "array", "var", "struct"}]] :
        \A h \in 1..n :
            /\ f[h].up < h
            /\ f[h].class \in {"scope", "array"} =>
                 f[h].in = "children" /\ (f[h].up = 0 \/ f[f[h].up].class \in {"scope", "array"})
            /\ f[h].up # 0 => f[f[h].up].class # "var"}
ShmObjects(f, names, histories) ==
    LET below(h, property) ==
            SelectSeq([k \in 1..Len(f) |-> k],
                      LAMBDA k : f[k].up = h /\ f[k].in = property)
    IN [h \in 0..Len(f) |->
          [name |-> IF h = 0 THEN 0 ELSE names[h], class |-> IF h = 0 THEN "scope" ELSE f[h].class,
           children |-> below(h, "children"), variables |-> below(h, "variables"),
           encoding |-> 1, kind |-> 0, width |-> 1, history |-> IF h = 0 THEN 0 ELSE histories[h]]]
MCShmTrees ==
    {ShmObjects(f, <<1, 1>>, <<1, 2>>) : f \in ShmShapes(2)}
    \cup {ShmObjects(f, names, <<1, 2, 3>>) : f \in ShmShapes(3), names \in {<<1, 1, 1>>, <<1, 2, 1>>}}
    \cup {[ShmObjects(f, <<1, 2, 1>>, <<1, 2, 2>>) EXCEPT ![3].width = w] :
            f \in ShmShapes(3), w \in 1..2}

MCWaves ==
    {<<BitsOf(2), BitsOf(1)>>, <<BitsOf(1), BitsOf(0), Other("real"), Other("unsupported")>>}

MCTrees ==
    LET scopes == {s \in UNION {[1..n -> [parent : 0..2, name : 1..2]] : n \in 0..3} :
                     \A k \in 1..Len(s) : s[k].parent < k}
        variables(n) == SeqsUpTo([parent : {0, n}, name : 1..2, signal : {0, 1}], 2)
    IN UNION {{[scopes |-> s, variables |-> v] : v \in variables(Len(s))} : s \in scopes}

Chars == {"a", ".", "[", "]", ":", "1", Quote, Backslash, Space, Control}
MCTexts ==
    {<<n>> : n \in SeqsUpTo(Chars, 3)}
    \cup [1..2 -> SeqsUpTo(Chars, 1)]
    \cup {<<>>, <<<<"a", "[", "1", ":", "1", "]">>>>}
==============================================================================
