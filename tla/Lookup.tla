------------------------------- MODULE Lookup --------------------------------
(***************************************************************************)
(* Lookups in an immutable hierarchy: the linked lists of children, the    *)
(* name index over declarations, and the selectors a signal is asked for   *)
(* with.  Scopes and variables are sequences; a declaration is numbered    *)
(* scopes first; parent 0 is the root.  Names are numbers, for their order.*)
(***************************************************************************)
EXTENDS Integers, SequencesExt

\* declaration_key
Count(h) == Len(h.scopes) + Len(h.variables)
Key(h, item) ==
    IF item <= Len(h.scopes) THEN h.scopes[item] ELSE h.variables[item - Len(h.scopes)]

-----------------------------------------------------------------------------
(* Children. *)

\* ChildLinks::new: variables, then scopes, are prepended from the last one on.
ChildLinks(h) ==
    LET prepend(links, item) ==
            LET parent == Key(h, item).parent
            IN IF parent = 0 THEN links
               ELSE [first |-> [links.first EXCEPT ![parent] = item],
                     next |-> [links.next EXCEPT ![item] = links.first[parent]]]
        scopes == [i \in 1..Len(h.scopes) |-> i]
        variables == [i \in 1..Len(h.variables) |-> Len(h.scopes) + i]
    IN FoldLeft(prepend, [first |-> [s \in 1..Len(h.scopes) |-> 0],
                          next |-> [i \in 1..Count(h) |-> 0]],
                Reverse(scopes \o variables))

RECURSIVE Follow(_, _)
Follow(links, item) == IF item = 0 THEN <<>> ELSE <<item>> \o Follow(links, links.next[item])
ChildrenOf(h, scope) == LET links == ChildLinks(h) IN Follow(links, links.first[scope])

-----------------------------------------------------------------------------
(* The name index. *)

\* Declarations by parent (the root last), each parent's in the order of names.
Slot(h, parent) == IF parent = 0 THEN Len(h.scopes) + 1 ELSE parent
\* Mutation: a range begins one parent too late.
OffsetsLate(h) ==
    [slot \in 1..(Len(h.scopes) + 2) |->
        Len(SelectSeq([i \in 1..Count(h) |-> i],
                      LAMBDA i : Slot(h, Key(h, i).parent) <= slot))]
Offsets(h) ==
    [slot \in 1..(Len(h.scopes) + 2) |->
        Len(SelectSeq([i \in 1..Count(h) |-> i],
                      LAMBDA i : Slot(h, Key(h, i).parent) < slot))]
Declarations(h) ==
    FlattenSeq([slot \in 1..(Len(h.scopes) + 1) |->
        SortSeq(SelectSeq([i \in 1..Count(h) |-> i],
                          LAMBDA i : Slot(h, Key(h, i).parent) = slot),
                LAMBDA a, b : Key(h, a).name < Key(h, b).name)])

\* partition_point: the items before the first that fails a test true of a prefix.
Partition(items, Test(_)) ==
    LET failing == {k \in 1..Len(items) : ~Test(items[k])}
    IN IF failing = {} THEN Len(items)
       ELSE (CHOOSE k \in failing : \A j \in failing : k <= j) - 1

DeclarationsNamed(h, parent, name) ==
    LET offsets == Offsets(h)
        slot == Slot(h, parent)
        range == SubSeq(Declarations(h), offsets[slot] + 1, offsets[slot + 1])
        start == Partition(range, LAMBDA i : Key(h, i).name < name)
        tail == SubSeq(range, start + 1, Len(range))
    IN SubSeq(tail, 1, Partition(tail, LAMBDA i : Key(h, i).name = name))

-----------------------------------------------------------------------------
(* Paths. *)

NotFound == [found |-> 0, matches |-> 0]
Matched(items) ==
    IF items = <<>> THEN NotFound
    ELSE [found |-> IF Len(items) = 1 THEN items[1] ELSE 0, matches |-> Len(items)]

\* variable_path: parents component by component, then the variables named last.
VariablePath(h, path) ==
    LET named(parents, name) ==
            FlattenSeq([i \in 1..Len(parents) |-> DeclarationsNamed(h, parents[i], name)])
        scopes == FoldLeft(LAMBDA parents, name :
                      SelectSeq(named(parents, name), LAMBDA i : i <= Len(h.scopes)),
                      <<0>>, Front(path))
        items == SelectSeq(named(scopes, Last(path)), LAMBDA i : i > Len(h.scopes))
    IN IF path = <<>> THEN NotFound
       ELSE Matched([i \in 1..Len(items) |-> items[i] - Len(h.scopes)])

\* scope_path_at, scope_path: paths of scopes, from the scope to the root.
RECURSIVE PathAt(_, _)
PathAt(h, scope) ==
    IF scope = 0 THEN <<>>
    ELSE Append(PathAt(h, h.scopes[scope].parent), h.scopes[scope].name)
ScopePath(h, path) ==
    Matched(SelectSeq([s \in 1..Len(h.scopes) |-> s],
                      LAMBDA s : path # <<>> /\ h.scopes[s].name = Last(path)
                                 /\ PathAt(h, s) = path))

\* signal_path: a variable may have no signal.
SignalPath(h, path) ==
    LET v == VariablePath(h, path)
    IN CASE v.matches = 0 -> "not found"
         [] v.matches > 1 -> "ambiguous"
         [] OTHER -> IF h.variables[v.found].signal = 0 THEN "no signal" ELSE "signal"

\* Hierarchy::signal: the exact name first; a trailing slice only when nothing has it.
\* The selector's text, if it has a slice, also spells the name "sliced".
SignalSelector(h, path, sliced) ==
    LET exact == SignalPath(h, path)
    IN IF exact # "not found" \/ sliced = <<>> THEN [answer |-> exact, path |-> path]
       ELSE [answer |-> SignalPath(h, sliced), path |-> sliced]

\* aliases: the variables of a signal.
Aliases(h, signal) ==
    SelectSeq([v \in 1..Len(h.variables) |-> v], LAMBDA v : h.variables[v].signal = signal)
==============================================================================
