------------------------------ MODULE PathText -------------------------------
(***************************************************************************)
(* Hierarchy paths as text: the parser of ordinary, quoted and escaped     *)
(* components, the canonical and the SystemVerilog spelling, and the       *)
(* trailing slice of a selector.  A text is a sequence of characters, of   *)
(* which only the classes the code tells apart exist: "a" stands for any   *)
(* other printable character, "n" for a control character.                 *)
(***************************************************************************)
EXTENDS Integers, SequencesExt

Quote == "\""
Backslash == "\\"
Space == " "
Control == "n"
Digits == {"0", "1"}
Invalid == [ok |-> FALSE, path |-> <<>>]

\* The JSON library: quotes, backslashes and control characters are escaped.
ToJson(name) ==
    <<Quote>> \o FlattenSeq([i \in 1..Len(name) |->
        IF name[i] \in {Quote, Backslash, Control} THEN <<Backslash, name[i]>>
        ELSE <<name[i]>>]) \o <<Quote>>

\* Characters up to the closing quote; nothing when it is missing or a control
\* character is not escaped.
JsonStep(st, c) ==
    CASE st.done \/ st.failed -> st
      [] ~st.done /\ ~st.failed /\ st.escaped ->
           [st EXCEPT !.escaped = FALSE, !.used = @ + 1, !.name = Append(@, c),
                      !.failed = c \notin {Quote, Backslash, Control}]
      [] OTHER ->
           CASE c = Backslash -> [st EXCEPT !.escaped = TRUE, !.used = @ + 1]
             [] c = Quote -> [st EXCEPT !.done = TRUE, !.used = @ + 1]
             [] c = Control -> [st EXCEPT !.failed = TRUE]
             [] OTHER -> [st EXCEPT !.used = @ + 1, !.name = Append(@, c)]
FromJson(text) ==
    FoldLeft(JsonStep, [name |-> <<>>, used |-> 1, escaped |-> FALSE,
                        done |-> FALSE, failed |-> FALSE], Tail(text))

-----------------------------------------------------------------------------
(* path::parse *)

\* The length of the longest prefix without a character of a set.
Run(text, stops) ==
    LET at == {i \in 1..Len(text) : text[i] \in stops}
    IN IF at = {} THEN Len(text) ELSE (CHOOSE i \in at : \A j \in at : i <= j) - 1
From(text, n) == SubSeq(text, n + 1, Len(text))
Component(ok, name, rest) == [ok |-> ok, name |-> name, rest |-> rest]

Quoted(text) ==
    LET json == FromJson(text)
    IN Component(json.done /\ ~json.failed, json.name, From(text, json.used))
Escaped(text) ==
    LET body == Tail(text)
        n == Run(body, {Space})
        after == From(body, n)
        spaces == CHOOSE k \in 0..Len(after) :
                      /\ \A i \in 1..k : after[i] = Space
                      /\ k < Len(after) => after[k + 1] # Space
    IN Component(n > 0 /\ n < Len(body) /\ \A i \in 1..n : body[i] # Control,
                 SubSeq(body, 1, n), From(after, spaces))
Ordinary(text) ==
    LET n == Run(text, {"."})
    IN Component(n > 0 /\ \A i \in 1..n : text[i] \notin {Space, Control, Quote, Backslash},
                 SubSeq(text, 1, n), From(text, n))

RECURSIVE ParseFrom(_, _)
ParseFrom(text, path) ==
    LET c == CASE text[1] = Quote -> Quoted(text)
               [] text[1] = Backslash -> Escaped(text)
               [] OTHER -> Ordinary(text)
        grown == Append(path, c.name)
    IN IF ~c.ok THEN Invalid
       ELSE IF c.rest = <<>> THEN [ok |-> TRUE, path |-> grown]
       ELSE IF c.rest[1] # "." \/ Len(c.rest) = 1 THEN Invalid
       ELSE ParseFrom(Tail(c.rest), grown)
Parse(text) == IF text = <<>> THEN [ok |-> TRUE, path |-> <<>>] ELSE ParseFrom(text, <<>>)

-----------------------------------------------------------------------------
(* Spellings. *)

\* Mutation: brackets do not ask for quotes.
NeedsQuotesPlain(name) ==
    name = <<>> \/ \E i \in 1..Len(name) :
                      name[i] \in {Space, Control, ".", Quote, Backslash}
NeedsQuotes(name) ==
    name = <<>> \/ \E i \in 1..Len(name) :
                      name[i] \in {Space, Control, ".", "[", "]", Quote, Backslash}

Joined(names) ==
    FlattenSeq([i \in 1..Len(names) |-> (IF i = 1 THEN <<>> ELSE <<".">>) \o names[i]])
Display(path) ==
    Joined([i \in 1..Len(path) |-> IF NeedsQuotes(path[i]) THEN ToJson(path[i]) ELSE path[i]])
ToVerilog(path) ==
    IF \E i \in 1..Len(path) : path[i] = <<>>
                               \/ \E k \in 1..Len(path[i]) : path[i][k] \in {Space, Control}
    THEN <<>>
    ELSE Joined([i \in 1..Len(path) |-> <<Backslash>> \o path[i] \o <<Space>>])

-----------------------------------------------------------------------------
(* path::selector *)

LastOf(text, c) ==
    LET at == {i \in 1..Len(text) : text[i] = c}
    IN IF at = {} THEN 0 ELSE CHOOSE i \in at : \A j \in at : j <= i

\* A selector without a slice, or whose prefix is not a path, has none; a slice whose
\* indices are not numbers is an error.
NoSlice == [slice |-> FALSE, ok |-> TRUE, path |-> <<>>, msb |-> <<>>, lsb |-> <<>>]
Selector(text) ==
    LET end == SubSeq(text, 1, Len(text) - 1)
        start == LastOf(end, "[")
        inside == From(end, start)
        colon == Run(inside, {":"}) + 1
        prefix == Parse(SubSeq(text, 1, start - 1))
        msb == SubSeq(inside, 1, colon - 1)
        lsb == From(inside, colon)
        number(n) == n # <<>> /\ ToSet(n) \subseteq Digits
    IN IF text = <<>> \/ Last(text) # "]" \/ start = 0 \/ colon > Len(inside) \/ ~prefix.ok
       THEN NoSlice
       ELSE [slice |-> TRUE, ok |-> number(msb) /\ number(lsb), path |-> prefix.path,
             msb |-> msb, lsb |-> lsb]
==============================================================================
