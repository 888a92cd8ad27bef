----------------------------- MODULE MCGhwCache ------------------------------
(* The instance: five scalars in three groups of ranks, four signals. *)
EXTENDS GhwCache

Threads == Permutations(Openers)

MCActive == <<1, 2, 4, 5, 7>>
MCRecipes == [a |-> <<1>>, b |-> <<5, 4>>, c |-> <<7>>, d |-> <<2, 7>>]
MCSelections == {<<"b">>, <<"c", "a">>, <<"d", "c">>, <<"b", "d">>}

List(t, recs) == [time |-> t, recs |-> recs]
Snap(t, a) == [kind |-> "snapshot", lists |-> <<List(t, [r \in 0..4 |-> a[r + 1]])>>]
Cycle(lists) == [kind |-> "cycle", lists |-> lists]
Footer == <<[kind |-> "directory"], [kind |-> "tailer"]>>
R(ranks, v) == [r \in ranks |-> v]

\* Lists of one tick in two sections, frames a group misses, equal and unequal
\* distances between the frames of a group.
Ticks == <<Snap(0, <<0, 1, 0, 1, 0>>),
            Cycle(<<List(0, R({3}, 0)), List(1, R({0, 4}, 1)), List(1, R({}, 1)),
                    List(1, R({2, 4}, 0)), List(2, R({3, 4}, 1))>>),
            Cycle(<<List(2, R({1}, 0)), List(3, R({0, 1, 2, 3}, 1))>>)>>
Steady == Ticks \o Footer
\* One list more than the index and the cache have room for.
Long == Ticks \o <<Cycle(<<List(3, R({4}, 0))>>)>> \o Footer
\* Scalars that appear late, and no snapshot.
Late == <<Cycle(<<List(1, R({3}, 0)), List(1, R({1, 4}, 1)), List(2, R({2}, 1)),
                  List(3, R({0, 3}, 0))>>), Snap(3, <<1, 0, 1, 1, 0>>)>>
\* Its values differ and nothing else does.
Twin == <<Cycle(<<List(1, R({3}, 1)), List(1, R({1, 4}, 0)), List(2, R({2}, 0)),
                  List(3, R({0, 3}, 1))>>), Snap(3, <<0, 1, 0, 0, 1>>)>>
Damaged(tokens) == <<Snap(0, <<0, 0, 0, 0, 0>>), [kind |-> "raw", tokens |-> tokens]>>
MCBodies(f) ==
    IF f = 2 THEN {Twin}
    ELSE {Steady, Long, Late, Twin}
      \cup {Damaged(t) : t \in {<<CYC, 1, 1, 0, 2, 0, 3, 0, 0, -1, ECY>>,
                                <<CYC, 1, 1, 1, 0, -2>>, <<CYC, -1>>, <<DIR, 1, 0, EOD, SNP, 1>>}}

MCCuts(sections) ==
    LET n == Len(Whole(sections))
    IN {n} \cup (IF sections = Late THEN {n - 8, n - 1} ELSE {})
==============================================================================
