------------------------------ MODULE GhwCache -------------------------------
(***************************************************************************)
(* Opening GHW files on several threads, and reading them.  A complete     *)
(* checked parse is parked in one process-wide slot; an open of identical  *)
(* bytes takes it instead of parsing.  The slot's mutex is held for one    *)
(* look or one replacement at a time, so another open may act between an   *)
(* open's steps; so may a writer that appends to a file.                   *)
(***************************************************************************)
EXTENDS GhwBody

CONSTANTS
    None,
    Openers,        \* the threads that open
    Files,          \* the files
    Bodies(_),      \* bound: the bodies a file may have
    Cuts(_),        \* bound: where a body may end while it is written
    Selections,     \* bound: the signals of a read
    Ends,           \* bound: the end of a read
    CacheLimit,     \* CACHE_BYTES, in tokens
    MaxOpens        \* bound: opens of a behaviour

VARIABLES
    body,           \* the sections of each file, once completely written
    size,           \* the tokens of it that the file holds
    slot,           \* Cache::slot, the content of the parked source
    open,           \* the state of each thread's open
    answer,         \* the last read
    opens

vars == <<body, size, slot, open, answer, opens>>

-----------------------------------------------------------------------------
(* The content of a file. *)

Ranks(recs) == SelectSeq([r \in 1..Len(Active) |-> r], LAMBDA r : r - 1 \in DOMAIN recs)
Changes(recs) ==
    LET ranks == Ranks(recs)
    IN FlattenSeq([i \in 1..Len(ranks) |->
           <<ranks[i] - (IF i = 1 THEN 0 ELSE ranks[i - 1]), recs[ranks[i] - 1]>>]) \o <<0>>
Tokens(section) ==
    LET lists == section.lists
    IN CASE section.kind = "snapshot" ->
              <<SNP, lists[1].time>>
                \o [r \in 1..Len(Active) |-> lists[1].recs[r - 1]] \o <<ESN>>
         [] section.kind = "cycle" ->
              <<CYC, lists[1].time>> \o Changes(lists[1].recs)
                \o FlattenSeq([i \in 1..(Len(lists) - 1) |->
                      <<lists[i + 1].time - lists[i].time>> \o Changes(lists[i + 1].recs)])
                \o <<-1, ECY>>
         [] section.kind = "directory" -> <<DIR, 1, 1, 5, EOD>>
         [] section.kind = "tailer" -> <<TAI, 1, 0>>
         [] section.kind = "raw" -> section.tokens
Whole(sections) == FlattenSeq([i \in 1..Len(sections) |-> Tokens(sections[i])])
Prefix(sections, n) == SubSeq(Whole(sections), 1, n)
Content(f) == [of |-> body[f], size |-> size[f]]
Bytes(content) == Prefix(content.of, content.size)

-----------------------------------------------------------------------------

Idle == [pc |-> "idle", file |-> None, purpose |-> "waveform", parked |-> None,
         length |-> 0, since |-> 0, validated |-> None, fault |-> FALSE]
Nothing == [by |-> None]

GhwInit ==
    /\ body \in [Files -> UNION {Bodies(f) : f \in Files}]
    /\ \A f \in Files : body[f] \in Bodies(f)
    /\ size \in [Files -> UNION {Cuts(body[f]) : f \in Files}]
    /\ \A f \in Files : size[f] \in Cuts(body[f])
    /\ slot = None
    /\ open = [o \in Openers |-> Idle]
    /\ answer = Nothing
    /\ opens = 0

Step(o, record) ==
    /\ open' = [open EXCEPT ![o] = record]
    /\ answer' = Nothing
    /\ UNCHANGED <<body, size, opens>>

\* open_with: the identity of the parked source, if there is one.
Open(o) ==
    \E f \in Files, purpose \in {"waveform", "metadata"} :
        /\ open[o].pc = "idle" /\ opens < MaxOpens
        /\ open' = [open EXCEPT ![o] =
             [Idle EXCEPT !.pc = IF slot = None THEN "parse" ELSE "scan",
                          !.file = f, !.purpose = purpose, !.parked = slot,
                          !.since = size[f]]]
        /\ answer' = Nothing /\ opens' = opens + 1
        /\ UNCHANGED <<body, size, slot>>

\* Another length is a miss without a scan; so is a scan that fails.
ScanInput(o) ==
    \E readable \in BOOLEAN :
        /\ open[o].pc = "scan"
        /\ Step(o, [open[o] EXCEPT !.pc =
             IF /\ size[open[o].file] = open[o].parked.size
                /\ readable
                /\ Bytes(Content(open[o].file)) = Bytes(open[o].parked)
             THEN "take" ELSE "parse"])
        /\ UNCHANGED slot

\* Mutation: the identity is not compared again.
TakeAny(o) ==
    LET matches == slot # None
    IN /\ open[o].pc = "take"
       /\ Step(o, [open[o] EXCEPT !.pc = IF matches THEN "reuse" ELSE "parse",
                                  !.validated = IF matches THEN slot ELSE None])
       /\ UNCHANGED slot

\* Cache::take_matching: the slot may have been replaced or cleared since.
TakeMatching(o) ==
    LET matches == slot # None /\ Bytes(slot) = Bytes(open[o].parked)
    IN /\ open[o].pc = "take"
       /\ Step(o, [open[o] EXCEPT !.pc = IF matches THEN "reuse" ELSE "parse",
                                  !.validated = IF matches THEN slot ELSE None])
       /\ UNCHANGED slot

\* A reader over the current input, when its length is still the parked one.
Reuse(o) ==
    LET hit == size[open[o].file] = open[o].parked.size
        metadata == open[o].purpose = "metadata"
    IN /\ open[o].pc = "reuse"
       /\ IF hit THEN Step(o, IF metadata THEN Idle ELSE [open[o] EXCEPT !.pc = "open"])
          ELSE Step(o, [open[o] EXCEPT !.pc = "parse", !.validated = None])
       /\ slot' = IF hit /\ metadata THEN None ELSE slot

\* parse: the length is taken first, then the whole input is read and checked.
ParseBegin(o) ==
    /\ open[o].pc = "parse"
    /\ Step(o, [open[o] EXCEPT !.pc = "walk", !.length = size[open[o].file]])
    /\ UNCHANGED slot

Infinite == 1000000
Parsed(content) == Walk(Bytes(content), Infinite)
ParseWalk(o) ==
    LET content == Content(open[o].file)
    IN /\ open[o].pc = "walk"
       /\ Step(o, IF Parsed(content).result = "ok"
                  THEN [open[o] EXCEPT !.pc = "park", !.validated = content]
                  ELSE [open[o] EXCEPT !.pc = "failed"])
       /\ UNCHANGED slot

\* Only a parse that read exactly the input's length has an identity; a metadata
\* request parks nothing and releases what is parked.
Proven(o) == open[o].validated.size = open[o].length
Park(o) ==
    LET metadata == open[o].purpose = "metadata"
    IN /\ open[o].pc = "park"
       /\ Step(o, IF metadata THEN Idle ELSE [open[o] EXCEPT !.pc = "open"])
       /\ slot' = CASE metadata -> None
                    [] ~metadata /\ Proven(o) /\ open[o].validated.size <= CacheLimit ->
                         open[o].validated
                    [] OTHER -> slot

\* An input that fails to seek or to read ends the open.
IoError(o) ==
    /\ open[o].pc \in {"scan", "reuse", "parse", "walk"}
    /\ Step(o, [open[o] EXCEPT !.pc = "failed", !.fault = TRUE])
    /\ UNCHANGED slot

\* Reader::read
ReadSignals(o) ==
    \E signals \in Selections, end \in Ends :
        LET v == open[o].validated
            index == BuildIndex(Parsed(v).events)
        IN /\ open[o].pc = "open" /\ answer = Nothing
           /\ answer' = [by |-> o, signals |-> signals, end |-> end,
                  got |-> Read(Bytes(Content(open[o].file)), index, signals, end)]
           /\ UNCHANGED <<body, size, slot, open, opens>>

Close(o) ==
    /\ open[o].pc \in {"open", "failed"}
    /\ Step(o, Idle)
    /\ UNCHANGED slot

\* The writer of a file completes it.
Grow(f) ==
    /\ size[f] < Len(Whole(body[f]))
    /\ size' = [size EXCEPT ![f] = Len(Whole(body[f]))]
    /\ answer' = Nothing
    /\ UNCHANGED <<body, slot, open, opens>>

GhwNext ==
    \/ \E o \in Openers :
           Open(o) \/ ScanInput(o) \/ TakeMatching(o) \/ Reuse(o) \/ ParseBegin(o)
             \/ ParseWalk(o) \/ Park(o) \/ IoError(o) \/ ReadSignals(o) \/ Close(o)
    \/ \E f \in Files : Grow(f)

GhwSpec == GhwInit /\ [][GhwNext]_vars

-----------------------------------------------------------------------------
(* What the reader promises, from the sections themselves. *)

\* The content ends with a section and no section of it is damaged.
Valid(content) ==
    \E k \in 0..Len(content.of) :
        /\ content.size = Len(Whole(SubSeq(content.of, 1, k)))
        /\ \A i \in 1..k : content.of[i].kind # "raw"

Lists(content) ==
    LET sections == content.of
        held == SelectSeq([k \in 1..Len(sections) |-> k],
                    LAMBDA k : Len(Whole(SubSeq(sections, 1, k))) <= content.size
                               /\ sections[k].kind \in {"snapshot", "cycle"})
    IN FlattenSeq([i \in 1..Len(held) |-> sections[held[i]].lists])

Rank(id) == (CHOOSE r \in 1..Len(Active) : Active[r] = id) - 1
Expected(content, signals, end) ==
    LET lists == Lists(content)
        writes(id, t) == {i \in 1..Len(lists) : lists[i].time <= t
                                                /\ Rank(id) \in DOMAIN lists[i].recs}
        last(id, t) == CHOOSE i \in writes(id, t) : \A j \in writes(id, t) : j <= i
        ticks == {lists[i].time : i \in 1..Len(lists)}
        ids(s) == ToSet(Recipes[s])
    IN {[signal |-> s, time |-> t,
         value |-> [p \in 1..Len(Recipes[s]) |->
             lists[last(Recipes[s][p], t)].recs[Rank(Recipes[s][p])]]] :
        <<s, t>> \in
        {st \in ToSet(signals) \X {t \in ticks : t <= end} :
            /\ \A id \in ids(st[1]) : writes(id, st[2]) # {}
            /\ \E id \in ids(st[1]) :
                  \E i \in writes(id, st[2]) : lists[i].time = st[2]}}

\* The last report of each signal at each tick.
Net(out) ==
    {out[i] : i \in {i \in 1..Len(out) : \A j \in (i + 1)..Len(out) :
                        out[j].signal # out[i].signal \/ out[j].time # out[i].time}}

\* A completed open holds a complete, undamaged source that begins the thread's own
\* file and is no older than the open itself, whatever other opens parked, replaced
\* or cleared meanwhile; so is what is parked.  An open fails without an I/O error
\* only for a content that is damaged.
OpenTrue ==
    /\ slot # None => Valid(slot) /\ slot.size <= CacheLimit
    /\ \A o \in Openers :
         LET me == open[o]
         IN /\ me.pc \in {"park", "open"} =>
                 /\ Valid(me.validated) /\ me.since <= me.validated.size
                 /\ IsPrefix(Bytes(me.validated), Whole(body[me.file]))
            /\ me.pc = "failed" /\ ~me.fault =>
                 \E n \in {me.since, size[me.file]} :
                     ~Valid([of |-> body[me.file], size |-> n])

\* A read of an unchanged file reports, at every tick, exactly the selected signals
\* that a list of the tick touches and whose scalars are all known, with their last
\* values; whether the index or the walker answers cannot be told.
ReadExact ==
    answer # Nothing =>
        LET v == open[answer.by].validated
        IN size[open[answer.by].file] = v.size =>
             Net(answer.got.out) = Expected(v, answer.signals, answer.end)

\* Every report of a tick precedes its Tick and follows the Tick before; ticks ascend.
TicksClose ==
    answer # Nothing =>
        LET out == answer.got.out
            ticks == answer.got.ticks
        IN /\ \A i \in 1..(Len(ticks) - 1) : ticks[i].at < ticks[i + 1].at
           /\ \A i \in 1..Len(out) : \E k \in 1..Len(ticks) :
                /\ ticks[k].at = out[i].time /\ i <= ticks[k].after
                /\ k > 1 => ticks[k - 1].after < i

\* A read reports what the source defines, tick by tick, by index as by walk.
ReportsExact == ReadExact /\ TicksClose
==============================================================================
