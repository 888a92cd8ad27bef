----------------------------- MODULE MCShmStream -----------------------------
(***************************************************************************)
(* A small instance of ShmStream: two readers of two histories.            *)
(***************************************************************************)
EXTENDS ShmStream, TLC

At(t, v) == [tick |-> t, state |-> "value", value |-> v]
Mark(t, s) == [tick |-> t, state |-> s, value |-> "none"]

KindOf == <<"bits", "event", "string">>

\* Values that repeat and change inside a tick, a gap at the start, a repeated
\* event, a string that is not ASCII.
Gapped ==
    << <<Mark(0, "absent"), At(1, "1"), At(1, "0"), At(2, "0")>>,
       <<Mark(0, "quiet"), At(1, "e"), At(1, "e"), At(2, "e")>>,
       <<At(0, "s"), At(2, "wide")>> >>

\* Values that come back, an event that overflows its count, a string that does
\* not decode at the end of its tick.
Overflowing ==
    << <<At(0, "1"), At(1, "0"), At(2, "1"), At(2, "0")>>,
       <<At(0, "e"), At(2, "e"), At(2, "e"), At(2, "e")>>,
       <<At(0, "s"), At(1, "t"), Mark(2, "bad")>> >>

\* A gap after a value ends the history.
Interrupted ==
    << <<At(0, "1"), At(1, "0"), Mark(2, "absent")>>, <<At(1, "e")>>, <<At(0, "s")>> >>

MCDatabases == {Gapped, Overflowing, Interrupted}

Interval(ids, from, end, resume) ==
    [ids |-> ids, from |-> from, end |-> end, resume |-> resume]

MCReads ==
    { Interval({1}, 2, 2, TRUE), Interval({1}, 2, 1, FALSE), Interval({1, 3}, 1, 2, FALSE),
      Interval({2, 3}, 0, 2, FALSE), Interval({2, 3}, 0, 1, FALSE) }

MCPoints ==
    { [ids |-> {1, 2, 3}, end |-> 2, prepare |-> FALSE],
      [ids |-> {2, 3}, end |-> 2, prepare |-> TRUE],
      [ids |-> {1}, end |-> 1, prepare |-> TRUE],
      [ids |-> {1}, end |-> 3, prepare |-> FALSE] }
=============================================================================
