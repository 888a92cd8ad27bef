------------------------------- MODULE VcdWalk -------------------------------
(***************************************************************************)
(* The body of a VCD file as the walk of ondas reads it.                   *)
(*                                                                         *)
(* A body is a sequence of tokens: timestamps, the opening and closing of  *)
(* dump blocks, comments, and value changes.  A token's index stands for   *)
(* its byte offset.  Header, token syntax and value digits are left out.   *)
(***************************************************************************)
EXTENDS Integers, Sequences, FiniteSets

CONSTANTS
    Signals,     \* identifier codes of the declared variables
    Declared,    \* signal -> "bits", "real" or "event" (Encoding after the header)
    MaxTick,     \* u64::MAX
    None

ASSUME WalkAssumption ==
    /\ Declared \in [Signals -> {"bits", "real", "event"}]
    /\ MaxTick \in Nat
    /\ None \notin Nat

\* Tokens.  "open" is $dumpvars, $dumpall, $dumpoff or $dumpon, "close" is
\* $end, "comment" is $comment, "bad" is a token no rule accepts.
TimeToken(n) == [tok |-> "time", time |-> n]
Mark(m) == [tok |-> m]
ValueToken(s, as, v) == [tok |-> "value", signal |-> s, as |-> as, value |-> v]

\* What the lexer lets through: timestamps are u64, identifiers are declared.
IsToken(t) ==
    /\ t.tok = "time" => t.time \in 0..MaxTick
    /\ t.tok = "value" => t.signal \in Signals /\ t.as \in {"bits", "real", "string"}

\* Mutant: a position forgets that it lies inside a dump block.
PositionMutant(offset, w) == [offset |-> offset, time |-> w.time, block |-> FALSE]

\* Position: where a walk can be resumed.
Position(offset, w) == [offset |-> offset, time |-> w.time, block |-> w.mode = "block"]

-----------------------------------------------------------------------------
(* walk_inner, one token at a time. *)

\* The locals of a walk that starts at position p, with the encodings known so
\* far.  `mode` is "block" inside a dump block and "text" inside a comment,
\* which ends at the next $end whatever the tokens before it look like.
StartWalk(p, encodings) ==
    [time |-> p.time, span |-> None, mode |-> IF p.block THEN "block" ELSE "body",
     status |-> "go", position |-> None, records |-> <<>>,
     encodings |-> encodings, seen |-> {}]

\* A walk that starts a chunk knows nothing of what precedes it.
AtStart(offset) == [offset |-> offset, time |-> 0, block |-> FALSE]

Fail(w) == [w EXCEPT !.status = "bad"]

\* A timestamp: never inside a block, never backwards, and the end of the walk
\* when it is beyond the requested tick.
Timestamp(w, offset, n, end) ==
    IF w.mode = "block" \/ n < w.time THEN Fail(w)
    ELSE IF n > end THEN [w EXCEPT !.status = "stop", !.position = Position(offset, w)]
    ELSE [w EXCEPT !.time = n,
                   !.span = [first |-> IF @ = None THEN n ELSE @.first, last |-> n]]

\* A command opens or closes a block, or starts a comment.
Command(w, m) ==
    CASE m = "open" /\ w.mode = "body" -> [w EXCEPT !.mode = "block"]
      [] m = "close" /\ w.mode = "block" -> [w EXCEPT !.mode = "body"]
      [] m = "comment" /\ w.mode = "body" -> [w EXCEPT !.mode = "text"]
      [] OTHER -> Fail(w)

\* The encoding of a signal at a record: opening a file (selected = None) turns
\* a variable declared real into a string when its first record is one.
EncodingAt(w, selected, s, as) ==
    IF selected = None /\ as = "string" /\ w.encodings[s] = "real" /\ s \notin w.seen
    THEN "string" ELSE w.encodings[s]

Accepts(encoding, as) ==
    IF encoding \in {"bits", "event"} THEN as = "bits" ELSE as = encoding

\* What reaches the visitor: selected signals, and of events only those outside
\* dump blocks, which repeat state and not occurrences.
Shown(w, selected, s) ==
    /\ selected # None
    /\ s \in selected
    /\ ~(w.mode = "block" /\ w.encodings[s] = "event")

\* A value change: it must fit the encoding; the selected ones are visited with
\* the position at which a later walk can resume.
ValueChange(w, offset, t, selected) ==
    LET encoding == EncodingAt(w, selected, t.signal, t.as)
        next == [w EXCEPT !.span = IF @ = None THEN [first |-> 0, last |-> 0] ELSE @,
                          !.encodings[t.signal] = encoding,
                          !.seen = IF selected = None THEN @ \cup {t.signal} ELSE @]
    IN IF ~Accepts(encoding, t.as) THEN Fail(w)
       ELSE IF Shown(w, selected, t.signal)
       THEN [next EXCEPT !.records = Append(@,
                [signal |-> t.signal, time |-> w.time, value |-> t.value,
                 position |-> Position(offset, w)])]
       ELSE next

\* One turn of the loop.
Turn(w, offset, t, selected, end) ==
    IF w.status # "go" THEN w
    ELSE IF w.mode = "text" THEN (IF t = Mark("close") THEN [w EXCEPT !.mode = "body"] ELSE w)
    ELSE CASE t.tok = "time" -> Timestamp(w, offset, t.time, end)
           [] t.tok = "value" -> ValueChange(w, offset, t, selected)
           [] OTHER -> Command(w, t.tok)

\* The end of the input at `offset`: an open block or comment is an error, and
\* the position is the end unless a timestamp stopped the walk.
EndWalk(w, offset) ==
    IF w.status # "go" THEN w
    ELSE IF w.mode # "body" THEN Fail(w)
    ELSE [w EXCEPT !.status = "end", !.position = Position(offset, w)]

\* The walk over body[p.offset .. stop - 1].
Walk(body, p, stop, encodings, selected, end) ==
    LET run[i \in p.offset..stop] ==
            IF i = p.offset THEN StartWalk(p, encodings)
            ELSE Turn(run[i - 1], i - 1, body[i - 1], selected, end)
    IN EndWalk(run[stop], stop)

Succeeded(w) == w.status \in {"stop", "end"}
=============================================================================
