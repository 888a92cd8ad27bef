---------------------------- MODULE MCVcdParallel ----------------------------
(***************************************************************************)
(* Small instances of VcdParallel: all bodies of bounded length over a     *)
(* pool of tokens, or a few bodies for the runs with threads.              *)
(***************************************************************************)
EXTENDS VcdParallel

CONSTANT
    MaxTokens   \* bound: tokens in a body

A(v) == ValueToken("A", "bits", v)
B(v) == ValueToken("B", "bits", v)

\* What opening has to get right: blocks, comments, encodings, order.
OpenPool ==
    {TimeToken(1), TimeToken(2), Mark("open"), Mark("close"), Mark("comment"),
     A("0"), ValueToken("R", "real", "1"), ValueToken("R", "string", "1")}

\* What a merged prefix has to get right: values and change times across cuts.
PrefixPool ==
    {TimeToken(1), TimeToken(2), TimeToken(3), A("0"), A("1")}

\* What resuming has to get right: dump blocks and events.
BlockPool ==
    {TimeToken(1), TimeToken(2), Mark("open"), Mark("close"), A("0"),
     ValueToken("E", "bits", "1")}

\* Bodies that can be cut at all, ending with a tick that no read asks for.
CutBodies(pool, length) ==
    {Append(b, TimeToken(3)) :
        b \in {c \in UNION {[1..n -> pool] : n \in 2..length} :
                 \E i \in 2..Len(c) : c[i].tok = "time"}}

AllBodies ==
    CutBodies(PrefixPool, MaxTokens)
        \cup CutBodies(OpenPool, MaxTokens - 1) \cup CutBodies(BlockPool, MaxTokens - 1)

\* A tick split by a cut, a chunk without selected records, a chunk that fills
\* its channel.
StreamBodies ==
    { <<A("0"), TimeToken(1), A("1"), TimeToken(1), A("0"), A("1"), TimeToken(2), A("1")>>,
      <<TimeToken(1), A("1"), A("0"), A("1"), TimeToken(2), B("1"), TimeToken(3), A("1")>>,
      <<A("0"), TimeToken(1), A("1"), A("0"), A("1"), A("0"), A("1"), A("0"), A("1")>> }

OnlyA == {{"A"}}
AandE == {{"A"}, {"A", "E"}}
DeclaredAll ==
    [s \in {"A", "E", "R"} |->
        CASE s = "A" -> "bits" [] s = "E" -> "event" [] OTHER -> "real"]
DeclaredBits == [s \in {"A", "B"} |-> "bits"]
=============================================================================
