------------------------------ MODULE ShmImport ------------------------------
(***************************************************************************)
(* How the SHM reader finds its sources: the components of a database      *)
(* directory joined into one session, the import of the SDK's objects into *)
(* declarations and enumeration routes, and the routes followed again in   *)
(* a later session.  Objects are a function of handles; the root is 0.     *)
(***************************************************************************)
EXTENDS Integers, SequencesExt

-----------------------------------------------------------------------------
(* Session::Session *)

\* Mutation: components are joined in the order of the directory.
OrderedAsListed(trns) == trns
\* The TRN components by number; the base has number 0.
Ordered(trns) ==
    [i \in 1..Len(trns) |->
        CHOOSE c \in ToSet(trns) :
            LET below == {d \in ToSet(trns) : d.number < c.number
                                              \/ (d.number = c.number /\ d.status < c.status)}
                upto == {d \in ToSet(trns) : d.number < c.number
                                             \/ (d.number = c.number /\ d.status <= c.status)}
                count(s) == Len(SelectSeq(trns, LAMBDA d : d \in s))
            IN count(below) < i /\ i <= count(upto)]

\* Opening a component yields the shared handle (1), no match for this design (2, the
\* SDK's -140), another failure (3), or the handle once the design is anchored (4).  A
\* base that does not open is tried again after the directory itself has anchored it.
JoinStep(st, c) ==
    LET first == st.opened = 0
        anchored == ~first \/ c.status = 1 \/ st.directory
    IN CASE st.failed -> st
         [] ~st.failed /\ ~anchored -> [st EXCEPT !.failed = TRUE]
         [] ~st.failed /\ anchored /\ c.number = st.last -> [st EXCEPT !.failed = TRUE, !.handle = TRUE]
         [] OTHER -> [st EXCEPT !.opened = @ + 1, !.last = c.number, !.handle = TRUE,
                                !.joined = IF c.status \in {1, 4} THEN Append(@, c.number) ELSE @,
                                !.failed = c.status = 3]

\* The handle of a session that fails is closed.
OpenComponents(dir) ==
    LET trns == Ordered(dir.trns)
        done == FoldLeft(JoinStep, [opened |-> 0, last |-> -1, joined |-> <<>>,
                                    handle |-> FALSE, failed |-> FALSE,
                                    directory |-> dir.opens], trns)
        usable == dir.dsns = 1 /\ trns # <<>> /\ trns[1].number = 0
                    /\ \A i \in 1..Len(trns) : trns[i].number >= 0
    IN IF ~usable THEN [joined |-> <<>>, handle |-> FALSE, failed |-> TRUE]
       ELSE [joined |-> done.joined, handle |-> done.handle /\ ~done.failed,
             failed |-> done.failed]

-----------------------------------------------------------------------------
(* The import. *)

RECURSIVE ImportVariableShm(_, _, _, _, _), Hierarchy(_, _, _, _, _), Resolve(_, _, _, _, _)

\* A route step: the parent's node, the enumeration, the place in it and the name.
Node(parent, property, ordinal, name) ==
    [parent |-> parent, property |-> property, ordinal |-> ordinal, name |-> name]
RootNode == 0
Routed(acc, parent, property, ordinal, objs, h) ==
    [acc EXCEPT !.nodes = Append(@, Node(parent, property, ordinal, objs[h].name))]

\* describe_variable and the identity of its history: the first declaration with it.
Described(objs, h) ==
    [encoding |-> objs[h].encoding, width |-> objs[h].width, kind |-> objs[h].kind]
Compatible(a, b) == a.encoding = b.encoding /\ a.width = b.width
Declared(acc, objs, h, prefix, source) ==
    LET same == {i \in 1..Len(acc.out) : acc.out[i].entry = 2
                                         /\ acc.out[i].history = objs[h].history}
        id == IF same = {} THEN Len(acc.out) + 1 ELSE CHOOSE i \in same : \A j \in same : i <= j
        d == [entry |-> 2, name |-> Append(prefix, objs[h].name), id |-> id,
              history |-> objs[h].history, shape |-> Described(objs, h), source |-> source]
    IN IF same # {} /\ ~Compatible(acc.out[id].shape, d.shape) THEN [acc EXCEPT !.failed = TRUE]
       ELSE [acc EXCEPT !.out = Append(@, d)]

\* A composite variable is followed by its members, in both enumerations.
ImportVariableShm(acc, objs, h, prefix, source) ==
    LET own == Declared(acc, objs, h, prefix, source)
        name == Append(prefix, objs[h].name)
        members(a, property) ==
            FoldLeft(LAMBDA b, i :
                LET routed == Routed(b, source, property, i, objs, objs[h][property][i])
                IN ImportVariableShm(routed, objs, objs[h][property][i], name,
                                     Len(routed.nodes)),
                a, [i \in 1..Len(objs[h][property]) |-> i])
    IN IF acc.failed THEN acc
       ELSE IF objs[h].class # "struct" THEN own
       ELSE members(members(own, "children"), "variables")

\* hierarchy: child objects (scopes, arrays of scopes, variables), then variables.
Hierarchy(acc, objs, parent, node, array) ==
    LET child(a, i) ==
            LET h == objs[parent].children[i]
                routed == Routed(a, node, "children", i, objs, h)
                here == Len(routed.nodes)
                scope == [entry |-> 0, name |-> Append(array, objs[h].name), id |-> 0,
                          history |-> 0, shape |-> Described(objs, h), source |-> here]
                opened == [routed EXCEPT !.out = Append(@, scope)]
                inside == Hierarchy(opened, objs, h, here, <<>>)
            IN CASE objs[h].class \in {"var", "struct"} ->
                      ImportVariableShm(routed, objs, h, <<>>, here)
                 [] objs[h].class = "array" ->
                      Hierarchy(routed, objs, h, here, <<objs[h].name>>)
                 [] OTHER -> [inside EXCEPT !.out = Append(@, [scope EXCEPT !.entry = 1])]
        variable(a, i) ==
            LET h == objs[parent].variables[i]
                routed == Routed(a, node, "variables", i, objs, h)
            IN ImportVariableShm(routed, objs, h, <<>>, Len(routed.nodes))
        kids == FoldLeft(child, acc, [i \in 1..Len(objs[parent].children) |-> i])
    IN FoldLeft(variable, kids, [i \in 1..Len(objs[parent].variables) |-> i])

Imported(objs) ==
    Hierarchy([out |-> <<>>, nodes |-> <<>>, failed |-> FALSE], objs, 0, RootNode, <<>>)

\* Reader::open: the declarations folded into scopes and variables; one signal for
\* every identity.
ShmFold(st, d) ==
    CASE ~st.ok -> st
      [] st.ok /\ d.entry = 0 ->
           [st EXCEPT !.scopes = Append(@, [parent |-> Last(st.stack), name |-> d.name]),
                      !.stack = Append(@, Len(st.scopes) + 1)]
      [] st.ok /\ d.entry = 1 ->
           IF Len(st.stack) = 1 THEN [st EXCEPT !.ok = FALSE] ELSE [st EXCEPT !.stack = Front(@)]
      [] st.ok /\ d.entry = 2 ->
           [st EXCEPT !.ids = IF Contains(@, d.id) THEN @ ELSE Append(@, d.id),
                      !.variables = Append(@, [parent |-> Last(st.stack), name |-> d.name,
                                               id |-> d.id])]
ShmOpen(objs) ==
    LET imported == Imported(objs)
        done == FoldLeft(ShmFold, [scopes |-> <<>>, variables |-> <<>>, ids |-> <<>>,
                                   stack |-> <<0>>, ok |-> ~imported.failed], imported.out)
    IN [done EXCEPT !.ok = @ /\ done.stack = <<0>>]

-----------------------------------------------------------------------------
(* selected_declarations: the routes of the selected variables and their shared  *)
(* ancestors, followed in a new session.                                         *)

RECURSIVE Ancestors(_, _)
Ancestors(nodes, n) == IF n = RootNode THEN {} ELSE {n} \cup Ancestors(nodes, nodes[n].parent)

\* Mutation: each wanted object is counted from where the enumeration stands.
SkipsFromHere(ordinal, wanted) == ordinal + wanted
\* The objects an enumeration has passed once the wanted one is reached.
Skips(ordinal, wanted) == IF ordinal >= wanted THEN ordinal + 1 ELSE wanted

\* resolve_children: per enumeration one pass, the wanted objects in ascending order.
Resolve(objs, h, parent, wanted, nodes) ==
    LET mine == {n \in wanted : nodes[n].parent = parent}
        pass(property) ==
            LET asked == SelectSeq([n \in 1..Len(nodes) |-> n],
                                   LAMBDA n : n \in mine /\ nodes[n].property = property)
                step(st, n) ==
                    LET at == Skips(st.ordinal, nodes[n].ordinal)
                        seen == objs[h][property]
                    IN IF st.failed \/ at > Len(seen) THEN [st EXCEPT !.failed = TRUE]
                       ELSE IF objs[seen[at]].name # nodes[n].name
                       THEN [st EXCEPT !.failed = TRUE]
                       ELSE LET below == Resolve(objs, seen[at], n, wanted, nodes)
                            IN [ordinal |-> at, failed |-> below.failed,
                                found |-> st.found \cup {<<n, seen[at]>>} \cup below.found]
            IN FoldLeft(step, [ordinal |-> 0, failed |-> FALSE, found |-> {}], asked)
        first == pass("children")
        second == pass("variables")
    IN IF first.failed \/ (mine # {} /\ second.failed)
       THEN [failed |-> TRUE, found |-> {}]
       ELSE [failed |-> FALSE, found |-> first.found \cup second.found]

\* The objects of the selected identities in the objects of a later session, or a
\* refusal: a name on the way or the shape of a declaration is not what it was.
Selected(original, objs, ids) ==
    LET wanted == UNION {Ancestors(original.nodes, original.out[i].source) : i \in ids}
        resolved == Resolve(objs, 0, RootNode, wanted, original.nodes)
        object(i) == (CHOOSE p \in resolved.found : p[1] = original.out[i].source)[2]
    IN IF resolved.failed \/ \E i \in ids : Described(objs, object(i)) # original.out[i].shape
       THEN [failed |-> TRUE, objects |-> <<>>]
       ELSE [failed |-> FALSE, objects |-> [i \in ids |-> object(i)]]
==============================================================================
