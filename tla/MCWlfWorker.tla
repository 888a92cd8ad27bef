---------------------------- MODULE MCWlfWorker ----------------------------
(***************************************************************************)
(* Small instances of WlfWorker.                                           *)
(***************************************************************************)
EXTENDS WlfWorker

Rec(t, s) == [tick |-> t, selection |-> s]

\* Two recordings of different resolution: one with a tick of two records, so
\* that a batch passes its quota inside it, and a short one.
TwoResolutions == [c \in {"long", "short"} |-> IF c = "long" THEN 1 ELSE 2]
TwoHistories ==
    [c \in {"long", "short"} |->
        IF c = "long"
        THEN <<Rec(0, 0), Rec(1, 0), Rec(1, 1), Rec(2, 1)>>
        ELSE <<Rec(0, 0)>>]

\* Three recordings, two of them of one resolution.
ThreeResolutions == [c \in {"a", "b", "z"} |-> IF c = "z" THEN 2 ELSE 1]
ShortHistories ==
    [c \in {"a", "b", "z"} |->
        IF c = "a" THEN <<Rec(0, 0), Rec(1, 0)>> ELSE <<Rec(0, 0)>>]

\* A whole recording; one tick, which is beyond the short one.
All == {[from |-> 0, to |-> 2]}
Ranges == {[from |-> 0, to |-> 2], [from |-> 1, to |-> 1]}
=============================================================================
