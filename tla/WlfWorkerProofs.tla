--------------------------- MODULE WlfWorkerProofs ---------------------------
(***************************************************************************)
(* Proofs about the WLF worker, for any number of readers, files,          *)
(* recordings and windows, whatever the SDK, the file system, writers and  *)
(* visitors do.                                                            *)
(***************************************************************************)
EXTENDS WlfWorker, LeastElement, SequenceTheorems, TLAPS

-----------------------------------------------------------------------------
(* The invariant: the shape of the state. *)

Live == {"opened", "ready", "asking", "visiting", "ending", "closing"}
OpenSteps == {"hash", "reset", "stat", "native", "identity", "import"}

\* A file f and its reader's thread k belong together.
ReaderShape(f, k) ==
    /\ k.pc \in Live => f # None
    /\ f # None /\ f.query # None /\ f.native # None => f.native.scan \in Scan
    /\ k.pc # "visiting" => k.batch = None
    /\ k.pc = "visiting" => k.batch \in Batch
    /\ k.pc \in {"asking", "visiting"} => k.window # None /\ f.query # None
    /\ k.window # None => k.window.from <= k.window.to

\* The owner that an open has in hand.
Holding(j) ==
    \/ j.step \in {"hash", "identity", "import"}
    \/ j.step = "reset" /\ j.owner # None

\* A job j for the reader with file f and thread k.
JobShape(j, f, k) ==
    /\ k.pc = "waiting"
    /\ j.kind = "open" => /\ j.step \in OpenSteps /\ j.path \in Paths
                          /\ Holding(j) => j.owner \in Owner
    /\ j.kind # "open" => /\ j.step \in {"file", "run"} /\ f # None
                          /\ j.kind \in {"begin", "next"} => k.window # None
                          /\ j.kind = "next" => f.query # None
                          /\ j.step = "run" => f.native # None

-----------------------------------------------------------------------------
(* The invariant: owners and what they were opened from. *)

\* An owner that is still reusable never failed, and an identity is that of the
\* content it was opened for.
OwnerInv(o) ==
    /\ o.reusable => ~o.failed
    /\ o.identity # None => o.identity.recording = o.recording

\* The native owner of an undisturbed file has its content.
FileInv(f, dsk) ==
    f # None =>
        /\ f.resolution = ResolutionOf[f.recording]
        /\ f.native # None => OwnerInv(f.native)
        /\ f.native # None /\ dsk[f.path].recording = f.recording =>
              f.native.recording = f.recording

\* Without writers every file is undisturbed, and its owner has the resolution
\* that is selected.
Agrees(f, dsk, inSdk, selected) ==
    ~Overlap /\ f # None =>
        /\ dsk[f.path].recording = f.recording
        /\ f.native # None => ResolutionOf[f.native.recording] = inSdk
                              /\ selected = inSdk

\* What an open knows about its file: the stamps it has met tell their contents
\* apart, and the owner in hand is of a content it has met.
OpenInv(j, dsk, inSdk) ==
    /\ dsk[j.path] \in j.seen
    /\ \A d, e \in j.seen : d.stamp = e.stamp => d = e
    /\ ~Overlap => j.seen = {dsk[j.path]}
    /\ j.step = "hash" => j.owner.identity # None
    /\ j.step \in {"native", "identity"} => \E e \in j.seen : e.stamp = j.before
    /\ j.step = "identity" /\ dsk[j.path].stamp = j.before =>
          j.owner.recording = dsk[j.path].recording
    /\ Holding(j) =>
          /\ OwnerInv(j.owner)
          /\ j.step # "hash" => \E d \in j.seen : d.recording = j.owner.recording
          /\ ~Overlap => ResolutionOf[j.owner.recording] = inSdk

IdleInv(i, fs, inSdk) ==
    i # None =>
        /\ OwnerInv(i.owner)
        /\ ~i.owner.failed
        /\ i.owner.scan = None
        /\ \A r \in Readers : fs[r] = None
        /\ ~Overlap => ResolutionOf[i.owner.recording] = inSdk

-----------------------------------------------------------------------------
(* The invariant: what a traversal has handed over and what comes next. *)

Piece(c, i, j) == SubSeq(History[c], i, j)
Start(c, w) == FirstFrom(c, w.from)
Stop(c, w) == FirstFrom(c, w.to + 1)

\* A batch may end after position j of the range: at a whole tick.
TickEnds(c, w, j) ==
    j = Start(c, w) - 1 \/ j = Stop(c, w) - 1
        \/ History[c][j].tick < History[c][j + 1].tick

\* A scan holds the records i..j of the range; q, the next record to transfer,
\* is not before i, and the rest of the range begins after j.
ScanHolds(c, w, s, q, i, j) ==
    /\ Start(c, w) <= i /\ i <= j + 1 /\ j < Stop(c, w) /\ i <= q
    /\ s.buffer = Piece(c, i, j)
    /\ TickEnds(c, w, j)
    /\ ~s.finished => FirstFrom(c, s.from) = j + 1
    /\ s.finished /\ ~s.broken => j + 1 = Stop(c, w)

ScanAt(c, w, s, q) ==
    /\ s.to = w.to
    /\ \E i, j \in 0..(Len(History[c]) + 1) : ScanHolds(c, w, s, q, i, j)

\* The query of a file continues with record q of its range.
Asked(f, w, q) ==
    /\ f.query # None
    /\ f.query.from = w.from /\ f.query.to = w.to
    /\ f.query.last = IF q = Start(f.recording, w) THEN None
                      ELSE History[f.recording][q - 1]
    /\ f.native # None => ScanAt(f.recording, w, f.native.scan, q)

\* The records rs are those of the range from p up to, not including, q.
Covers(c, w, rs, p, q) ==
    /\ Start(c, w) <= p /\ p <= q /\ q <= Stop(c, w)
    /\ rs = Piece(c, p, q - 1)

Reached(f, k) == Start(f.recording, k.window) + Len(k.got)

BatchInv(f, k, b, p) ==
    LET q == p + Len(b.records)
    IN /\ Covers(f.recording, k.window, b.records, p, q)
       /\ ~b.error => /\ b.finished => q = Stop(f.recording, k.window)
                      /\ b.records # <<>> => TickEnds(f.recording, k.window, q - 1)
                      /\ Asked(f, k.window, q)

TraversalInv(f, k, dsk) ==
    /\ k.pc \in {"asking", "visiting"} => ~k.complete
    /\ f # None /\ k.window # None /\ dsk[f.path].recording = f.recording =>
          /\ Covers(f.recording, k.window, k.got, Start(f.recording, k.window), Reached(f, k))
          /\ k.complete => Reached(f, k) = Stop(f.recording, k.window)
          /\ k.pc = "asking" => Asked(f, k.window, Reached(f, k))
          /\ k.pc = "visiting" => BatchInv(f, k, k.batch, Reached(f, k))

JobTraversalInv(j, f, k, dsk) ==
    /\ j.kind \in {"begin", "next"} => ~k.complete
    /\ j.kind = "begin" => k.got = <<>>
    /\ j.kind = "next" /\ dsk[f.path].recording = f.recording =>
          LET q == Reached(f, k) + Len(j.records)
          IN /\ Covers(f.recording, k.window, j.records, Reached(f, k), q)
             /\ Asked(f, k.window, q)

-----------------------------------------------------------------------------

ReaderInv(f, k, dsk, inSdk, selected) ==
    /\ ReaderShape(f, k)
    /\ FileInv(f, dsk)
    /\ Agrees(f, dsk, inSdk, selected)
    /\ TraversalInv(f, k, dsk)

JobInv(j, fs, ks, dsk, inSdk) ==
    /\ JobShape(j, fs[j.reader], ks[j.reader])
    /\ j.kind = "open" =>
          /\ OpenInv(j, dsk, inSdk)
          /\ j.step \notin {"hash", "reset"} =>
                \A r \in Readers : fs[r] # None => fs[r].native = None
    /\ j.kind # "open" => JobTraversalInv(j, fs[j.reader], ks[j.reader], dsk)

\* The inductive invariant.
Inv ==
    /\ TypeOK
    /\ \A r \in Readers : ReaderInv(files[r], callers[r], disk, sdk, resolution)
    /\ job # None => JobInv(job, files, callers, disk, sdk)
    /\ job # None /\ job.kind = "open" => idle = None
    /\ IdleInv(idle, files, sdk)

-----------------------------------------------------------------------------
(* Positions in a recording. *)

LEMMA HistoryFacts ==
    ASSUME NEW c \in Recordings
    PROVE  /\ History[c] \in Seq(Record) /\ Len(History[c]) \in Nat
           /\ \A i \in 1..Len(History[c]) :
                 /\ History[c][i] \in Record /\ History[c][i] # None
                 /\ History[c][i].tick \in Nat /\ History[c][i].selection \in Nat
           /\ \A i, j \in 1..Len(History[c]) :
                 i < j => Before(History[c][i], History[c][j])
           /\ \A i, j \in 1..Len(History[c]) :
                 i <= j => History[c][i].tick <= History[c][j].tick
<1>1. History[c] \in Seq(Record) /\ Len(History[c]) \in Nat
  BY WlfAssumption
<1>2. \A i \in 1..Len(History[c]) : History[c][i] \in Record
  BY <1>1
<1>3. \A i \in 1..Len(History[c]) :
         /\ History[c][i] # None
         /\ History[c][i].tick \in Nat /\ History[c][i].selection \in Nat
  BY <1>2, NoneAssumption DEF Record
<1>4. \A i, j \in 1..Len(History[c]) : i < j => Before(History[c][i], History[c][j])
  BY WlfAssumption
<1>5. \A i, j \in 1..Len(History[c]) :
         i <= j => History[c][i].tick <= History[c][j].tick
  BY <1>1, <1>3, <1>4 DEF Before
<1> QED BY <1>1, <1>2, <1>3, <1>4, <1>5

\* FirstFrom divides a recording at tick t.
LEMMA FirstFromFacts ==
    ASSUME NEW c \in Recordings, NEW t \in Nat
    PROVE  /\ FirstFrom(c, t) \in 1..(Len(History[c]) + 1)
           /\ \A i \in 1..(FirstFrom(c, t) - 1) : History[c][i].tick < t
           /\ \A i \in FirstFrom(c, t)..Len(History[c]) : History[c][i].tick >= t
<1> DEFINE h == History[c]
           T == {n \in 1..(Len(h) + 1) : n <= Len(h) => h[n].tick >= t}
           Good(n) == /\ n > 1 => h[n - 1].tick < t
                      /\ n <= Len(h) => h[n].tick >= t
<1>0. /\ Len(h) \in Nat
      /\ \A i \in 1..Len(h) : h[i].tick \in Nat
      /\ \A i, j \in 1..Len(h) : i <= j => h[i].tick <= h[j].tick
  BY HistoryFacts
<1> HIDE DEF h
<1>1. PICK n \in T : \A m \in T : n <= m
  <2>1. T \subseteq Nat /\ Len(h) + 1 \in T
    BY <1>0
  <2> HIDE DEF T
  <2> QED BY <2>1, LeastNat
<1>2. n \in 1..(Len(h) + 1) /\ Good(n)
  <2>1. n > 1 => n - 1 \notin T
    BY <1>0, <1>1
  <2>2. n > 1 => n - 1 \in 1..Len(h)
    BY <1>0, <1>1
  <2> QED BY <1>0, <1>1, <2>1, <2>2
<1>3. FirstFrom(c, t) = CHOOSE m \in 1..(Len(h) + 1) : Good(m)
  BY DEF FirstFrom, h
<1>4. FirstFrom(c, t) \in 1..(Len(h) + 1) /\ Good(FirstFrom(c, t))
  <2> HIDE DEF Good
  <2> QED BY <1>2, <1>3
<1> DEFINE f == FirstFrom(c, t)
<1> HIDE DEF f
<1>5. f \in 1..(Len(h) + 1) /\ Good(f)
  BY <1>4 DEF f
<1>6. \A i \in 1..(f - 1) : h[i].tick < t
  <2> SUFFICES ASSUME NEW i \in 1..(f - 1) PROVE h[i].tick < t
    OBVIOUS
  <2>1. i \in 1..Len(h) /\ f - 1 \in 1..Len(h) /\ i <= f - 1
    BY <1>0, <1>5
  <2> QED BY <1>0, <1>5, <2>1
<1>7. \A i \in f..Len(h) : h[i].tick >= t
  <2> SUFFICES ASSUME NEW i \in f..Len(h) PROVE h[i].tick >= t
    OBVIOUS
  <2>1. i \in 1..Len(h) /\ f \in 1..Len(h) /\ f <= i
    BY <1>0, <1>5
  <2> QED BY <1>0, <1>5, <2>1
<1> QED BY <1>5, <1>6, <1>7 DEF f, h

\* The position is the only one with a smaller tick before it and none at it.
LEMMA FirstFromUnique ==
    ASSUME NEW c \in Recordings, NEW t \in Nat, NEW n \in 1..(Len(History[c]) + 1),
           n > 1 => History[c][n - 1].tick < t,
           n <= Len(History[c]) => History[c][n].tick >= t
    PROVE  FirstFrom(c, t) = n
<1> DEFINE f == FirstFrom(c, t)
           h == History[c]
<1>1. /\ f \in 1..(Len(h) + 1)
      /\ \A i \in 1..(f - 1) : h[i].tick < t
      /\ \A i \in f..Len(h) : h[i].tick >= t
      /\ Len(h) \in Nat /\ \A i \in 1..Len(h) : h[i].tick \in Nat
  BY FirstFromFacts, HistoryFacts
<1> HIDE DEF f, h
<1>2. n \in 1..(Len(h) + 1) /\ (n > 1 => h[n - 1].tick < t) /\ (n <= Len(h) => h[n].tick >= t)
  BY DEF h
<1>3. CASE f < n
  <2>1. n - 1 \in f..Len(h) /\ n - 1 \in 1..Len(h) /\ n > 1
    BY <1>1, <1>2, <1>3
  <2> QED BY <1>1, <1>2, <2>1
<1>4. CASE f > n
  <2>1. n \in 1..(f - 1) /\ n \in 1..Len(h)
    BY <1>1, <1>2, <1>4
  <2> QED BY <1>1, <1>2, <2>1
<1> QED BY <1>1, <1>2, <1>3, <1>4 DEF f

LEMMA FirstFromMonotonic ==
    ASSUME NEW c \in Recordings, NEW t \in Nat, NEW u \in Nat, t <= u
    PROVE  FirstFrom(c, t) <= FirstFrom(c, u)
<1> DEFINE f == FirstFrom(c, t)
           g == FirstFrom(c, u)
           h == History[c]
<1>1. /\ f \in 1..(Len(h) + 1) /\ g \in 1..(Len(h) + 1)
      /\ \A i \in 1..(f - 1) : h[i].tick < t
      /\ \A i \in g..Len(h) : h[i].tick >= u
      /\ Len(h) \in Nat /\ \A i \in 1..Len(h) : h[i].tick \in Nat
  BY FirstFromFacts, HistoryFacts
<1> HIDE DEF f, g, h
<1> SUFFICES ASSUME g < f PROVE FALSE
  BY <1>1 DEF f, g
<1>2. g \in 1..(f - 1) /\ g \in g..Len(h) /\ g \in 1..Len(h)
  BY <1>1
<1> QED BY <1>1, <1>2

\* The range of a window.
LEMMA RangeFacts ==
    ASSUME NEW c \in Recordings, NEW w, w.from \in Nat, w.to \in Nat, w.from <= w.to
    PROVE  /\ Start(c, w) \in 1..(Len(History[c]) + 1)
           /\ Stop(c, w) \in 1..(Len(History[c]) + 1)
           /\ Start(c, w) <= Stop(c, w)
<1>1. w.to + 1 \in Nat /\ w.from <= w.to + 1
  OBVIOUS
<1> QED BY <1>1, FirstFromFacts, FirstFromMonotonic DEF Start, Stop

\* A piece of a recording.
LEMMA PieceFacts ==
    ASSUME NEW c \in Recordings, NEW i \in 1..(Len(History[c]) + 1),
           NEW j \in 0..Len(History[c]), i <= j + 1
    PROVE  /\ Piece(c, i, j) \in Seq(Record)
           /\ Len(Piece(c, i, j)) = j - i + 1
           /\ \A n \in 1..(j - i + 1) : Piece(c, i, j)[n] = History[c][i + n - 1]
           /\ Piece(c, i, j) = <<>> <=> i = j + 1
<1>1. \A k \in i..j : History[c][k] \in Record
  BY HistoryFacts
<1>2. /\ SubSeq(History[c], i, j) \in Seq(Record)
      /\ Len(SubSeq(History[c], i, j)) = IF i <= j THEN j - i + 1 ELSE 0
      /\ \A n \in 1..(j - i + 1) : SubSeq(History[c], i, j)[n] = History[c][i + n - 1]
  BY <1>1, SubSeqProperties, i \in Int, j \in Int
<1>3. Len(SubSeq(History[c], i, j)) = j - i + 1
  BY <1>2
<1>4. SubSeq(History[c], i, j) = <<>> <=> Len(SubSeq(History[c], i, j)) = 0
  BY <1>2, EmptySeq
<1> QED BY <1>2, <1>3, <1>4 DEF Piece

\* Two sequences of records that agree everywhere are equal.
LEMMA SamePiece ==
    ASSUME NEW c \in Recordings, NEW i \in 1..(Len(History[c]) + 1),
           NEW j \in 0..Len(History[c]), i <= j + 1,
           NEW s \in Seq(Record), Len(s) = j - i + 1,
           \A n \in 1..(j - i + 1) : s[n] = History[c][i + n - 1]
    PROVE  s = Piece(c, i, j)
<1>1. /\ Piece(c, i, j) \in Seq(Record) /\ Len(Piece(c, i, j)) = Len(s)
      /\ \A n \in 1..Len(s) : Piece(c, i, j)[n] = s[n]
  BY PieceFacts
<1> QED BY <1>1, SeqEqual

LEMMA PieceTail ==
    ASSUME NEW c \in Recordings, NEW i \in 1..Len(History[c]),
           NEW j \in i..Len(History[c])
    PROVE  /\ Head(Piece(c, i, j)) = History[c][i]
           /\ Tail(Piece(c, i, j)) = Piece(c, i + 1, j)
BY HistoryFacts, HeadTailOfSubSeq DEF Piece

LEMMA PieceAppend ==
    ASSUME NEW c \in Recordings, NEW i \in 1..Len(History[c]),
           NEW j \in (i - 1)..(Len(History[c]) - 1)
    PROVE  Append(Piece(c, i, j), History[c][j + 1]) = Piece(c, i, j + 1)
<1>0. Len(History[c]) \in Nat /\ i \in 1..(Len(History[c]) + 1) /\ j \in 0..Len(History[c])
      /\ i <= j + 1 /\ j + 1 \in 1..Len(History[c]) /\ History[c][j + 1] \in Record
  BY HistoryFacts
<1>1. /\ Piece(c, i, j) \in Seq(Record) /\ Len(Piece(c, i, j)) = j - i + 1
      /\ \A n \in 1..(j - i + 1) : Piece(c, i, j)[n] = History[c][i + n - 1]
  BY <1>0, PieceFacts
<1> DEFINE s == Append(Piece(c, i, j), History[c][j + 1])
<1> DEFINE l == Len(Piece(c, i, j))
<1>2. /\ s \in Seq(Record) /\ Len(s) = l + 1
      /\ \A n \in 1..l : s[n] = Piece(c, i, j)[n]
      /\ s[l + 1] = History[c][j + 1]
  <2>1. ASSUME NEW q \in Seq(Record), NEW x \in Record
        PROVE  /\ Append(q, x) \in Seq(Record) /\ Len(Append(q, x)) = Len(q) + 1
               /\ \A n \in 1..Len(q) : Append(q, x)[n] = q[n]
               /\ Append(q, x)[Len(q) + 1] = x
    BY AppendProperties
  <2> QED BY <1>0, <1>1, <2>1, Zenon
<1> HIDE DEF s
<1>3. \A n \in 1..((j + 1) - i + 1) : s[n] = History[c][i + n - 1]
  <2> SUFFICES ASSUME NEW n \in 1..((j + 1) - i + 1) PROVE s[n] = History[c][i + n - 1]
    OBVIOUS
  <2>1. CASE n \in 1..(j - i + 1)
    BY <1>1, <1>2, <2>1
  <2>2. CASE n = l + 1
    BY <1>0, <1>1, <1>2, <2>2
  <2> QED BY <1>0, <1>1, <2>1, <2>2
<1>4. s = Piece(c, i, j + 1)
  <2>1. Len(s) = (j + 1) - i + 1 /\ i <= (j + 1) + 1 /\ j + 1 \in 0..Len(History[c])
    BY <1>0, <1>1, <1>2
  <2> QED BY <1>0, <1>2, <1>3, <2>1, SamePiece
<1> QED BY <1>4 DEF s

LEMMA PieceConcat ==
    ASSUME NEW c \in Recordings, NEW i \in 1..(Len(History[c]) + 1),
           NEW j \in (i - 1)..Len(History[c]), NEW k \in j..Len(History[c])
    PROVE  Piece(c, i, j) \o Piece(c, j + 1, k) = Piece(c, i, k)
BY HistoryFacts, ConcatAdjacentSubSeq DEF Piece

\* The first n records of a piece.
LEMMA PiecePrefix ==
    ASSUME NEW c \in Recordings, NEW i \in 1..(Len(History[c]) + 1),
           NEW j \in 0..Len(History[c]), i <= j + 1, NEW n \in 0..(j - i + 1)
    PROVE  SubSeq(Piece(c, i, j), 1, n) = Piece(c, i, i + n - 1)
<1> DEFINE s == SubSeq(Piece(c, i, j), 1, n)
<1>0. Len(History[c]) \in Nat
  BY HistoryFacts
<1>1. /\ Piece(c, i, j) \in Seq(Record) /\ Len(Piece(c, i, j)) = j - i + 1
      /\ \A m \in 1..(j - i + 1) : Piece(c, i, j)[m] = History[c][i + m - 1]
  BY PieceFacts
<1>2. \A m \in 1..n : Piece(c, i, j)[m] \in Record
  BY <1>0, <1>1, ElementOfSeq
<1>3. /\ s \in Seq(Record) /\ Len(s) = n
      /\ \A m \in 1..n : s[m] = Piece(c, i, j)[m]
  BY <1>0, <1>2, SubSeqProperties, 1 \in Int, n \in Int
<1> HIDE DEF s
<1>4. s = Piece(c, i, i + n - 1)
  <2>1. i + n - 1 \in 0..Len(History[c]) /\ i <= (i + n - 1) + 1 /\ n = (i + n - 1) - i + 1
    BY <1>0
  <2>2. \A m \in 1..n : m \in 1..(j - i + 1)
    BY <1>0
  <2>3. \A m \in 1..n : s[m] = History[c][i + m - 1]
    BY <1>1, <1>3, <2>2
  <2> QED BY <1>3, <2>1, <2>3, SamePiece
<1> QED BY <1>4 DEF s

-----------------------------------------------------------------------------
(* The shim's scan. *)

LEMMA BoundariesType ==
    ASSUME NEW u \in Seq(Record)
    PROVE  /\ Boundaries(u) \subseteq 0..Len(u) /\ Len(u) \in Boundaries(u)
           /\ \A n \in Boundaries(u) :
                 n < Len(u) => n >= 1 /\ u[n].tick < u[n + 1].tick
<1>1. Len(u) \in Nat
  OBVIOUS
<1> QED BY <1>1 DEF Boundaries

\* A batch ends at a boundary.
LEMMA BatchLenFacts ==
    ASSUME NEW u \in Seq(Record), NEW quota \in Nat
    PROVE  BatchLen(u, quota) \in Boundaries(u)
<1> DEFINE B == Boundaries(u)
           l == Len(u)
           T == {n \in B : n = l \/ n >= quota}
<1>1. l \in Nat /\ B \subseteq 0..l /\ l \in B
  BY BoundariesType
<1> HIDE DEF B, l
<1>2. PICK n \in T : \A m \in T : n <= m
  <2>1. \A m \in B : m \in Nat
    BY <1>1
  <2>2. T \subseteq Nat
    BY <2>1
  <2>3. l \in T
    BY <1>1
  <2> HIDE DEF T
  <2> QED BY <2>2, <2>3, LeastNat
<1>3. n \in B /\ (n = l \/ n >= quota) /\ \A k \in B : k < n => k < quota
  BY <1>1, <1>2
<1>4. \E m \in B : /\ m = l \/ m >= quota
                   /\ \A k \in B : k < m => k < quota
  BY <1>3
<1>5. BatchLen(u, quota) = CHOOSE m \in B : /\ m = l \/ m >= quota
                                            /\ \A k \in B : k < m => k < quota
  BY DEF BatchLen, B, l
<1> QED BY <1>4, <1>5 DEF B

LEMMA InRangeType ==
    ASSUME NEW c \in Recordings, NEW w, w.from \in Nat, w.to \in Nat
    PROVE  InRange(c, w) \in Seq(Record)
<1> DEFINE a == FirstFrom(c, w.from)
           e == FirstFrom(c, w.to + 1)
<1>1. a \in 1..(Len(History[c]) + 1) /\ e \in 1..(Len(History[c]) + 1)
  <2>1. w.to + 1 \in Nat
    OBVIOUS
  <2> QED BY <2>1, FirstFromFacts
<1>2. Len(History[c]) \in Nat /\ \A i \in 1..Len(History[c]) : History[c][i] \in Record
  BY HistoryFacts
<1>3. InRange(c, w) = SubSeq(History[c], a, e - 1)
  BY DEF InRange
<1> HIDE DEF a, e
<1>4. \A i \in a..(e - 1) : History[c][i] \in Record
  BY <1>1, <1>2
<1> QED BY <1>1, <1>3, <1>4, SubSeqProperties, a \in Int, e - 1 \in Int

\* The scans that reading on leaves are scans.
LEMMA ScanTypes ==
    ASSUME NEW c \in Recordings, NEW s \in Scan
    PROVE  /\ Refilled(c, s) \in Scan
           /\ \A n \in Boundaries(InRange(c, s)) \cup {0} : Broken(c, s, n) \in Scan
           /\ s.buffer # <<>> => [s EXCEPT !.buffer = Tail(@)] \in Scan
<1> DEFINE u == InRange(c, s)
           n == BatchLen(u, s.quota)
<1>0. s.from \in Nat /\ s.to \in Nat /\ s.quota \in Nat /\ s.buffer \in Seq(Record)
  BY DEF Scan
<1>1. u \in Seq(Record)
  BY <1>0, InRangeType
<1>2. n \in Boundaries(u) /\ Boundaries(u) \subseteq 0..Len(u) /\ Len(u) \in Nat
  <2> HIDE DEF u
  <2>1. n \in Boundaries(u)
    BY <1>0, <1>1, BatchLenFacts
  <2>2. Boundaries(u) \subseteq 0..Len(u)
    BY <1>1, BoundariesType
  <2> QED BY <1>1, <2>1, <2>2
<1>3. \A m \in 0..Len(u) : SubSeq(u, 1, m) \in Seq(Record)
  <2> SUFFICES ASSUME NEW m \in 0..Len(u) PROVE SubSeq(u, 1, m) \in Seq(Record)
    OBVIOUS
  <2>1. \A i \in 1..m : u[i] \in Record
    BY <1>1, <1>2, ElementOfSeq
  <2> QED BY <2>1, SubSeqProperties, 1 \in Int, m \in Int
<1>4. n < Len(u) => u[n + 1].tick \in Nat
  <2>1. n < Len(u) => u[n + 1] \in Record
    BY <1>1, <1>2, ElementOfSeq
  <2> QED BY <2>1 DEF Record
<1>5. Refilled(c, s) \in Scan
  <2> DEFINE from == IF n < Len(u) THEN u[n + 1].tick ELSE s.from
             quota == IF n > 0 THEN FullBatch ELSE s.quota
             b == SubSeq(u, 1, n)
  <2>1. from \in Nat /\ quota \in Nat /\ b \in Seq(Record)
    BY <1>0, <1>2, <1>3, <1>4, WlfAssumption
  <2>2. Refilled(c, s) = [s EXCEPT !.buffer = b, !.from = from,
                                   !.finished = (n = Len(u)), !.quota = quota]
    BY DEF Refilled
  <2> HIDE DEF from, quota, b, n, u
  <2> QED BY <2>1, <2>2 DEF Scan
<1>6. ASSUME NEW m \in Boundaries(u) \cup {0} PROVE Broken(c, s, m) \in Scan
  <2>1. m \in 0..Len(u)
    BY <1>2
  <2>2. SubSeq(u, 1, m) \in Seq(Record)
    BY <1>3, <2>1
  <2> QED BY <2>2 DEF Scan, Broken
<1>7. s.buffer # <<>> => [s EXCEPT !.buffer = Tail(@)] \in Scan
  <2>1. s.buffer # <<>> => Tail(s.buffer) \in Seq(Record)
    BY <1>0, HeadTailProperties
  <2> QED BY <2>1 DEF Scan
<1> QED BY <1>5, <1>6, <1>7

\* What a window of a query or of a caller has.
RangeOf(w) == w.from \in Nat /\ w.to \in Nat /\ w.from <= w.to

\* Reading on keeps a scan in its range, whether the SDK fails or not.
LEMMA RefillHolds ==
    ASSUME NEW c \in Recordings, NEW w, RangeOf(w), NEW s \in Scan, NEW q \in Nat,
           ScanAt(c, w, s, q), s.buffer = <<>>, ~s.finished
    PROVE  /\ ScanAt(c, w, Refilled(c, s), q)
           /\ \A n \in Boundaries(InRange(c, s)) \cup {0} :
                 ScanAt(c, w, Broken(c, s, n), q)
<1> DEFINE h == History[c]
           e == Stop(c, w)
           b == Start(c, w)
           u == InRange(c, s)
<1>0. /\ Len(h) \in Nat /\ b \in 1..(Len(h) + 1) /\ e \in 1..(Len(h) + 1) /\ b <= e
      /\ \A i \in 1..Len(h) : h[i].tick \in Nat
  BY HistoryFacts, RangeFacts DEF RangeOf
<1>1. PICK i, j \in 0..(Len(h) + 1) : ScanHolds(c, w, s, q, i, j)
  BY DEF ScanAt
<1>2. /\ b <= i /\ i <= j + 1 /\ j < e /\ i <= q /\ s.buffer = Piece(c, i, j)
      /\ TickEnds(c, w, j) /\ FirstFrom(c, s.from) = j + 1
  BY <1>1 DEF ScanHolds
<1>3. i = j + 1 /\ j + 1 \in 1..(Len(h) + 1) /\ j \in 0..Len(h)
  <2>1. i \in 1..(Len(h) + 1) /\ j \in 0..Len(h)
    BY <1>0, <1>1, <1>2
  <2>2. i = j + 1
    BY <1>2, <2>1, PieceFacts
  <2> QED BY <2>1, <2>2
<1> DEFINE m == e - 1 - j
<1>4. u = Piece(c, j + 1, e - 1)
  <2>1. s.to = w.to
    BY DEF ScanAt
  <2> QED BY <1>2, <2>1 DEF InRange, Piece, Stop
<1>5. /\ u \in Seq(Record) /\ Len(u) = m /\ m \in Nat
      /\ \A n \in 1..m : u[n] = h[j + n]
  <2>1. e - 1 \in 0..Len(h) /\ j + 1 <= (e - 1) + 1 /\ (e - 1) - (j + 1) + 1 = m /\ m \in Nat
    BY <1>0, <1>1, <1>2
  <2>2. /\ Piece(c, j + 1, e - 1) \in Seq(Record)
        /\ Len(Piece(c, j + 1, e - 1)) = m
        /\ \A n \in 1..m : Piece(c, j + 1, e - 1)[n] = h[j + 1 + n - 1]
    <3> DEFINE a == j + 1
               z == e - 1
    <3>1. a \in 1..(Len(h) + 1) /\ z \in 0..Len(h) /\ a <= z + 1 /\ z - a + 1 = m
      BY <1>3, <2>1
    <3> HIDE DEF a, z, m
    <3>2. /\ Piece(c, a, z) \in Seq(Record)
          /\ Len(Piece(c, a, z)) = z - a + 1
          /\ \A n \in 1..(z - a + 1) : Piece(c, a, z)[n] = h[a + n - 1]
      BY <3>1, PieceFacts
    <3> QED BY <3>1, <3>2 DEF a, z
  <2>3. \A n \in 1..m : j + 1 + n - 1 = j + n
    BY <1>1, <2>1
  <2> QED BY <1>4, <2>1, <2>2, <2>3
<1>6. \A n \in 0..m : SubSeq(u, 1, n) = Piece(c, j + 1, j + n)
  <2> SUFFICES ASSUME NEW n \in 0..m PROVE SubSeq(u, 1, n) = Piece(c, j + 1, j + n)
    OBVIOUS
  <2>1. /\ e - 1 \in 0..Len(h) /\ j + 1 <= (e - 1) + 1 /\ n \in 0..((e - 1) - (j + 1) + 1)
        /\ (j + 1) + n - 1 = j + n
    BY <1>0, <1>1, <1>2
  <2>2. SubSeq(Piece(c, j + 1, e - 1), 1, n) = Piece(c, j + 1, (j + 1) + n - 1)
    BY <1>3, <2>1, PiecePrefix
  <2> QED BY <1>4, <2>1, <2>2
<1>7. \A n \in Boundaries(u) \cup {0} :
         n \in 0..m /\ TickEnds(c, w, j + n) /\ j + n \in 0..Len(h) /\ j + n < e
  <2> SUFFICES ASSUME NEW n \in Boundaries(u) \cup {0}
               PROVE  n \in 0..m /\ TickEnds(c, w, j + n) /\ j + n \in 0..Len(h) /\ j + n < e
    OBVIOUS
  <2>1. n \in 0..m
    BY <1>5, BoundariesType
  <2> HIDE DEF h, e
  <2>2. j + n \in 0..Len(h) /\ j + n < e
    BY <1>0, <1>1, <1>2, <2>1
  <2>3. CASE n = 0
    <3>1. j + n = j
      BY <1>1, <2>3
    <3> QED BY <1>2, <2>1, <2>2, <3>1
  <2>4. CASE n = m
    <3>1. j + n = e - 1
      BY <1>0, <1>1, <2>4
    <3> QED BY <2>1, <2>2, <3>1 DEF TickEnds, e
  <2>5. CASE n # 0 /\ n # m
    <3>1. n \in Boundaries(u) /\ n < Len(u)
      BY <1>5, <2>1, <2>5
    <3>2. u[n].tick < u[n + 1].tick
      BY <1>5, <3>1, BoundariesType
    <3>3. n \in 1..m /\ n + 1 \in 1..m /\ j + (n + 1) = (j + n) + 1
      BY <1>1, <1>5, <2>1, <2>5
    <3>4. h[j + n].tick < h[(j + n) + 1].tick
      BY <1>5, <3>2, <3>3
    <3> QED BY <2>1, <2>2, <3>4 DEF TickEnds, h
  <2> QED BY <2>3, <2>4, <2>5
<1>8. ASSUME NEW n \in Boundaries(u) \cup {0} PROVE ScanAt(c, w, Broken(c, s, n), q)
  <2> DEFINE x == Broken(c, s, n)
  <2>1. x.buffer = Piece(c, j + 1, j + n) /\ x.finished /\ x.broken /\ x.to = w.to
    BY <1>6, <1>7, <1>8 DEF Broken, ScanAt, Scan
  <2> HIDE DEF x
  <2>2. ScanHolds(c, w, x, q, j + 1, j + n)
    BY <1>0, <1>2, <1>3, <1>7, <1>8, <2>1 DEF ScanHolds
  <2>3. j + 1 \in 0..(Len(h) + 1) /\ j + n \in 0..(Len(h) + 1)
    BY <1>0, <1>3, <1>7, <1>8
  <2>4. ScanAt(c, w, x, q)
    BY <2>1, <2>2, <2>3 DEF ScanAt
  <2> QED BY <2>4 DEF x
<1>9. ScanAt(c, w, Refilled(c, s), q)
  <2> DEFINE n == BatchLen(u, s.quota)
             x == Refilled(c, s)
  <2>1. n \in Boundaries(u)
    <3> HIDE DEF u
    <3> QED BY <1>5, BatchLenFacts DEF Scan
  <2>2. n < m => h[j + n].tick < h[(j + n) + 1].tick /\ u[n + 1] = h[(j + n) + 1] /\ n >= 1
    <3> HIDE DEF n, u
    <3>1. n < Len(u) => n >= 1 /\ u[n].tick < u[n + 1].tick
      BY <1>5, <2>1, BoundariesType
    <3>2. n \in 0..m
      BY <1>7, <2>1
    <3> HIDE DEF m
    <3>3. n < m => n \in 1..m /\ n + 1 \in 1..m /\ j + (n + 1) = (j + n) + 1
      BY <1>1, <1>5, <3>1, <3>2
    <3> QED BY <1>5, <3>1, <3>3
  <2>3. /\ x.buffer = SubSeq(u, 1, n) /\ x.to = w.to /\ x.broken = s.broken
        /\ x.finished = (n = Len(u))
        /\ x.from = IF n < Len(u) THEN u[n + 1].tick ELSE s.from
    BY DEF Refilled, ScanAt, Scan
  <2> HIDE DEF n, u, x
  <2>4. n \in 0..m /\ TickEnds(c, w, j + n) /\ j + n \in 0..Len(h) /\ j + n < e
    BY <1>7, <2>1
  <2>5. x.buffer = Piece(c, j + 1, j + n)
    BY <1>6, <2>3, <2>4
  <2>6. n < m => FirstFrom(c, x.from) = j + n + 1
    <3> SUFFICES ASSUME n < m PROVE FirstFrom(c, x.from) = (j + n) + 1
      BY <1>1, <2>4
    <3>1. x.from = h[(j + n) + 1].tick
      BY <1>5, <2>2, <2>3
    <3>2. (j + n) + 1 \in 1..Len(h) /\ (j + n) \in 1..Len(h)
      BY <1>0, <1>1, <2>2, <2>4
    <3>3. x.from \in Nat /\ (j + n) + 1 \in 1..(Len(h) + 1)
      BY <1>0, <3>1, <3>2
    <3>4. h[((j + n) + 1) - 1].tick < x.from /\ h[(j + n) + 1].tick >= x.from
      <4>1. ((j + n) + 1) - 1 = j + n
        BY <3>2
      <4> QED BY <2>2, <3>1, <3>3, <4>1
    <3> QED BY <3>3, <3>4, FirstFromUnique
  <2>7. ScanHolds(c, w, x, q, j + 1, j + n)
    <3>1. b <= j + 1 /\ j + 1 <= (j + n) + 1 /\ j + n < e /\ j + 1 <= q
      BY <1>1, <1>2, <1>3, <2>4
    <3>2. ~x.finished => n < m
      <4>1. ~x.finished => n # m
        BY <1>5, <2>3
      <4> HIDE DEF m
      <4> QED BY <1>5, <2>4, <4>1
    <3>3. x.finished => j + n + 1 = e
      <4>1. x.finished => n = m
        <5> HIDE DEF m
        <5> QED BY <1>5, <2>3
      <4> QED BY <1>0, <1>1, <4>1
    <3> QED BY <2>4, <2>5, <2>6, <3>1, <3>2, <3>3 DEF ScanHolds
  <2>8. j + 1 \in 0..(Len(h) + 1) /\ j + n \in 0..(Len(h) + 1)
    BY <1>0, <1>3, <2>4
  <2>9. ScanAt(c, w, x, q)
    BY <2>3, <2>7, <2>8 DEF ScanAt
  <2> QED BY <2>9 DEF x
<1> QED BY <1>8, <1>9

\* A query starts at the beginning of its range.
LEMMA BeginHolds ==
    ASSUME NEW o \in Owner, NEW w, RangeOf(w), NEW v, v.from = w.from, v.to = w.to
    PROVE  /\ BeginNative(o, v) \in Owner /\ BeginNative(o, v).scan \in Scan
           /\ BeginNative(o, v).recording = o.recording
           /\ BeginNative(o, v).identity = o.identity
           /\ BeginNative(o, v).reusable = o.reusable
           /\ BeginNative(o, v).failed = o.failed
           /\ \A q \in Nat : q >= Start(o.recording, w) =>
                 ScanAt(o.recording, w, BeginNative(o, v).scan, q)
<1> DEFINE c == o.recording
           h == History[c]
           e == Stop(c, w)
           b == Start(c, w)
           s == [from |-> v.from, to |-> v.to, buffer |-> <<>>, quota |-> FirstBatch,
                 finished |-> v.from > LastTick(c), broken |-> FALSE]
<1>1. c \in Recordings
  BY DEF Owner
<1>2. /\ Len(h) \in Nat /\ b \in 1..(Len(h) + 1) /\ e \in 1..(Len(h) + 1) /\ b <= e
      /\ \A i \in 1..Len(h) : h[i].tick \in Nat
      /\ \A i \in b..Len(h) : h[i].tick >= w.from
  BY <1>1, HistoryFacts, RangeFacts, FirstFromFacts DEF RangeOf, Start
<1>3. BeginNative(o, v) = [o EXCEPT !.scan = s]
  BY DEF BeginNative
<1>4. LastTick(c) = IF Len(h) = 0 THEN 0 ELSE h[Len(h)].tick
  <2>1. h = <<>> <=> Len(h) = 0
    BY <1>1, HistoryFacts, EmptySeq
  <2> QED BY <2>1 DEF LastTick
<1>5. s \in Scan
  <2>1. FirstBatch \in Nat /\ <<>> \in Seq(Record) /\ (v.from > LastTick(c)) \in BOOLEAN
        /\ v.from \in Nat /\ v.to \in Nat
    BY WlfAssumption DEF RangeOf
  <2> QED BY <2>1 DEF Scan
<1>6. v.from > LastTick(c) => b = e
  <2>1. CASE Len(h) = 0
    BY <1>2, <2>1
  <2>2. CASE Len(h) # 0
    <3>1. Len(h) \in 1..Len(h) /\ (b <= Len(h) => Len(h) \in b..Len(h))
      BY <1>2, <2>2
    <3>2. h[Len(h)].tick \in Nat /\ w.from \in Nat
      BY <1>2, <3>1 DEF RangeOf
    <3>3. v.from > LastTick(c) => ~(b <= Len(h))
      BY <1>2, <1>4, <2>2, <3>1, <3>2
    <3> QED BY <1>2, <3>3
  <2> QED BY <2>1, <2>2
<1>7. Piece(c, b, b - 1) = <<>>
  <2>1. b - 1 \in 0..Len(h) /\ b <= (b - 1) + 1 /\ b = (b - 1) + 1
    BY <1>2
  <2> QED BY <1>1, <1>2, <2>1, PieceFacts
<1>8. ASSUME NEW q \in Nat, q >= b PROVE ScanAt(c, w, s, q)
  <2>1. b <= b /\ b <= (b - 1) + 1 /\ b - 1 < e /\ b <= q /\ TickEnds(c, w, b - 1)
    BY <1>2, <1>8 DEF TickEnds
  <2>2. FirstFrom(c, s.from) = (b - 1) + 1
    BY <1>2 DEF Start
  <2>3. s.finished => (b - 1) + 1 = e
    <3>1. s.finished => b = e
      BY <1>6
    <3> QED BY <1>2, <3>1
  <2>4. s.buffer = Piece(c, b, b - 1)
    BY <1>7
  <2>5. ScanHolds(c, w, s, q, b, b - 1)
    BY <2>1, <2>2, <2>3, <2>4 DEF ScanHolds
  <2>6. b \in 0..(Len(h) + 1) /\ b - 1 \in 0..(Len(h) + 1) /\ s.to = w.to
    BY <1>2
  <2> QED BY <2>5, <2>6 DEF ScanAt
<1>9. /\ BeginNative(o, v) \in Owner /\ BeginNative(o, v).scan = s
      /\ BeginNative(o, v).recording = o.recording
      /\ BeginNative(o, v).identity = o.identity
      /\ BeginNative(o, v).reusable = o.reusable
      /\ BeginNative(o, v).failed = o.failed
  <2> HIDE DEF s
  <2> QED BY <1>3, <1>5 DEF Owner, Optional
<1> QED BY <1>5, <1>8, <1>9

\* A record was transferred when it is before the next one.
LEMMA TransferredBefore ==
    ASSUME NEW c \in Recordings, NEW b \in 1..(Len(History[c]) + 1),
           NEW q \in b..(Len(History[c]) + 1), NEW i \in b..Len(History[c]),
           NEW last, last = IF q = b THEN None ELSE History[c][q - 1]
    PROVE  (last # None /\ ~Before(last, History[c][i])) <=> i < q
<1> DEFINE h == History[c]
<1>0. /\ Len(h) \in Nat
      /\ \A k \in 1..Len(h) : h[k] # None /\ h[k].tick \in Nat /\ h[k].selection \in Nat
      /\ \A k, l \in 1..Len(h) : k < l => Before(h[k], h[l])
  BY HistoryFacts
<1> HIDE DEF h
<1>1. CASE q = b
  BY <1>0, <1>1 DEF h
<1>2. CASE q # b
  <2>1. q - 1 \in 1..Len(h) /\ i \in 1..Len(h) /\ last = h[q - 1]
    BY <1>0, <1>2 DEF h
  <2>2. CASE i > q - 1
    BY <1>0, <2>1, <2>2 DEF h
  <2>3. CASE i <= q - 1
    <3>1. i = q - 1 \/ Before(h[i], h[q - 1])
      BY <1>0, <2>1, <2>3
    <3>2. ~Before(h[q - 1], h[i])
      <4>1. /\ h[i].tick \in Nat /\ h[i].selection \in Nat
            /\ h[q - 1].tick \in Nat /\ h[q - 1].selection \in Nat
        BY <1>0, <2>1
      <4> QED BY <3>1, <4>1 DEF Before
    <3> QED BY <1>0, <2>1, <2>3, <3>2 DEF h
  <2> QED BY <2>1, <2>2, <2>3
<1> QED BY <1>1, <1>2

\* The next record of the batch that was read.
LEMMA PopHolds ==
    ASSUME NEW c \in Recordings, NEW w, RangeOf(w), NEW s \in Scan, NEW q \in Nat,
           ScanAt(c, w, s, q), s.buffer # <<>>,
           NEW t, t = [s EXCEPT !.buffer = Tail(@)]
    PROVE  \E i \in Start(c, w)..(Stop(c, w) - 1) :
              /\ Head(s.buffer) = History[c][i] /\ i <= q
              /\ i < q => ScanAt(c, w, t, q)
              /\ i = q => ScanAt(c, w, t, q + 1)
              /\ Len(s.buffer) = 1 => /\ TickEnds(c, w, i)
                                      /\ s.finished /\ ~s.broken => i + 1 = Stop(c, w)
<1> DEFINE h == History[c]
           e == Stop(c, w)
           b == Start(c, w)
<1>0. Len(h) \in Nat /\ b \in 1..(Len(h) + 1) /\ e \in 1..(Len(h) + 1) /\ b <= e
  BY HistoryFacts, RangeFacts DEF RangeOf
<1>1. PICK i, j \in 0..(Len(h) + 1) : ScanHolds(c, w, s, q, i, j)
  BY DEF ScanAt
<1>2. /\ b <= i /\ i <= j + 1 /\ j < e /\ i <= q /\ s.buffer = Piece(c, i, j)
      /\ TickEnds(c, w, j)
      /\ ~s.finished => FirstFrom(c, s.from) = j + 1
      /\ s.finished /\ ~s.broken => j + 1 = e
  BY <1>1 DEF ScanHolds
<1>3. i \in 1..Len(h) /\ j \in i..Len(h) /\ Len(s.buffer) = j - i + 1
  <2>1. i \in 1..(Len(h) + 1) /\ j \in 0..Len(h)
    BY <1>0, <1>1, <1>2
  <2>2. Len(s.buffer) = j - i + 1 /\ i # j + 1
    BY <1>2, <2>1, PieceFacts
  <2> QED BY <1>2, <2>1, <2>2
<1>4. Head(s.buffer) = h[i] /\ Tail(s.buffer) = Piece(c, i + 1, j)
  BY <1>2, <1>3, PieceTail
<1>5. /\ t.buffer = Piece(c, i + 1, j) /\ t.to = s.to /\ t.from = s.from
      /\ t.finished = s.finished /\ t.broken = s.broken
  BY <1>4 DEF Scan
<1>6. \A p \in Nat : i + 1 <= p => ScanAt(c, w, t, p)
  <2> SUFFICES ASSUME NEW p \in Nat, i + 1 <= p PROVE ScanAt(c, w, t, p)
    OBVIOUS
  <2>1. ScanHolds(c, w, t, p, i + 1, j)
    <3>1. b <= i + 1 /\ i + 1 <= j + 1
      BY <1>0, <1>2, <1>3
    <3> QED BY <1>2, <1>5, <3>1 DEF ScanHolds
  <2>2. i + 1 \in 0..(Len(h) + 1) /\ j \in 0..(Len(h) + 1)
    BY <1>0, <1>3
  <2> QED BY <1>5, <2>1, <2>2 DEF ScanAt
<1>7. (i < q => ScanAt(c, w, t, q)) /\ (i = q => ScanAt(c, w, t, q + 1))
  <2>1. q + 1 \in Nat /\ (i < q => i + 1 <= q) /\ (i = q => i + 1 <= q + 1)
    BY <1>3
  <2> QED BY <1>6, <2>1
<1>8. Len(s.buffer) = 1 => j = i
  BY <1>3
<1>9. i \in b..(e - 1)
  BY <1>0, <1>2, <1>3
<1> QED BY <1>2, <1>4, <1>7, <1>8, <1>9

\* Nothing is left of a range that was read to its end.
LEMMA FinishedHolds ==
    ASSUME NEW c \in Recordings, NEW w, RangeOf(w), NEW s \in Scan, NEW q \in Nat,
           ScanAt(c, w, s, q), s.buffer = <<>>, s.finished, ~s.broken
    PROVE  q >= Stop(c, w)
<1> DEFINE h == History[c]
           e == Stop(c, w)
           b == Start(c, w)
<1>0. Len(h) \in Nat /\ b \in 1..(Len(h) + 1) /\ e \in 1..(Len(h) + 1) /\ b <= e
  BY HistoryFacts, RangeFacts DEF RangeOf
<1>1. PICK i, j \in 0..(Len(h) + 1) : ScanHolds(c, w, s, q, i, j)
  BY DEF ScanAt
<1>2. /\ b <= i /\ i <= j + 1 /\ j < e /\ i <= q /\ s.buffer = Piece(c, i, j) /\ j + 1 = e
  BY <1>1 DEF ScanHolds
<1>3. i = j + 1
  <2>1. i \in 1..(Len(h) + 1) /\ j \in 0..Len(h)
    BY <1>0, <1>1, <1>2
  <2> QED BY <1>2, <2>1, PieceFacts
<1> QED BY <1>0, <1>1, <1>2, <1>3

-----------------------------------------------------------------------------
(* Parts of a step that many actions share. *)

\* A file and a thread that does not read and has no batch in hand.
LEMMA Resting ==
    ASSUME NEW f \in Optional(File), NEW k \in Caller,
           NEW g \in Optional(File), NEW l \in Caller, NEW dsk,
           ReaderShape(f, k), TraversalInv(f, k, dsk),
           f = None <=> g = None,
           g # None => g.path = f.path /\ g.recording = f.recording,
           g # None /\ g.query # None /\ g.native # None => g.native.scan \in Scan,
           l.window = k.window, l.got = k.got, l.complete = k.complete,
           l.batch = None, l.pc \notin {"asking", "visiting"},
           l.pc \in Live => g # None
    PROVE  ReaderShape(g, l) /\ TraversalInv(g, l, dsk)
<1>1. ReaderShape(g, l)
  BY DEF ReaderShape
<1>2. TraversalInv(g, l, dsk)
  BY DEF TraversalInv, Reached
<1> QED BY <1>1, <1>2

\* Owner p is owner o, perhaps with another scan, perhaps tainted.
SameOwner(o, p) ==
    /\ p.recording = o.recording /\ p.identity = o.identity
    /\ p.reusable => o.reusable /\ p.failed = o.failed

LEMMA OwnerKept ==
    ASSUME NEW f, NEW g, NEW dsk, NEW inSdk, NEW selected,
           FileInv(f, dsk), Agrees(f, dsk, inSdk, selected), f # None,
           g # None => /\ g.path = f.path /\ g.recording = f.recording
                       /\ g.resolution = f.resolution
                       /\ g.native # None => f.native # None /\ SameOwner(f.native, g.native)
    PROVE  FileInv(g, dsk) /\ Agrees(g, dsk, inSdk, selected)
BY DEF FileInv, Agrees, SameOwner, OwnerInv

\* Closing the native owner of a file keeps what its reader relies on, whatever
\* is selected afterwards.
LEMMA SuspendedReader ==
    ASSUME NEW f \in File, NEW k \in Caller, NEW dsk, NEW inSdk, NEW selected,
           NEW i, NEW s, ReaderInv(f, k, dsk, inSdk, selected)
    PROVE  ReaderInv([f EXCEPT !.native = None], k, dsk, i, s)
<1> DEFINE g == [f EXCEPT !.native = None]
<1>1. /\ g.path = f.path /\ g.recording = f.recording /\ g.resolution = f.resolution
      /\ g.native = None /\ g.query = f.query /\ f # None
      /\ g \in File /\ g # None
  <2>1. g \in File
    BY DEF File, Optional
  <2> QED BY <2>1, NoneAssumption DEF File
<1> HIDE DEF g
<1>2. ReaderShape(f, k) /\ FileInv(f, dsk) /\ Agrees(f, dsk, inSdk, selected)
      /\ TraversalInv(f, k, dsk)
  BY DEF ReaderInv
<1>3. ReaderShape(g, k)
  BY <1>1, <1>2 DEF ReaderShape
<1>4. FileInv(g, dsk) /\ Agrees(g, dsk, i, s)
  BY <1>1, <1>2 DEF FileInv, Agrees
<1>5. \A q : Asked(f, k.window, q) => Asked(g, k.window, q)
  BY <1>1 DEF Asked
<1>6. Reached(f, k) = Reached(g, k)
  BY <1>1 DEF Reached
<1>7. \A p : BatchInv(f, k, k.batch, p) => BatchInv(g, k, k.batch, p)
  BY <1>1, <1>5 DEF BatchInv
<1>8. TraversalInv(g, k, dsk)
  BY <1>1, <1>2, <1>5, <1>6, <1>7 DEF TraversalInv
<1>9. ReaderInv(g, k, dsk, i, s)
  BY <1>3, <1>4, <1>8 DEF ReaderInv
<1> QED BY <1>9 DEF g

LEMMA SuspendedHolds ==
    ASSUME Inv
    PROVE  /\ Suspended \in [Readers -> Optional(File)]
           /\ \A r \in Readers :
                 /\ Suspended[r] = None <=> files[r] = None
                 /\ Suspended[r] # None => /\ Suspended[r] = [files[r] EXCEPT !.native = None]
                                           /\ Suspended[r].native = None
           /\ \A r \in Readers : \A i, s :
                 ReaderInv(Suspended[r], callers[r], disk, i, s)
<1>1. /\ files \in [Readers -> Optional(File)] /\ callers \in [Readers -> Caller]
      /\ \A r \in Readers : ReaderInv(files[r], callers[r], disk, sdk, resolution)
  BY DEF Inv, TypeOK
<1>2. \A r \in Readers : files[r] # None => files[r] \in File
  BY <1>1 DEF Optional
<1>3. \A f \in File : /\ [f EXCEPT !.native = None] \in File
                      /\ [f EXCEPT !.native = None] # None
                      /\ [f EXCEPT !.native = None].native = None
  <2> SUFFICES ASSUME NEW f \in File PROVE /\ [f EXCEPT !.native = None] \in File
                      /\ [f EXCEPT !.native = None] # None
                      /\ [f EXCEPT !.native = None].native = None
    OBVIOUS
  <2>1. [f EXCEPT !.native = None] \in File
    BY DEF File, Optional
  <2> QED BY <2>1, NoneAssumption DEF File
<1>4. \A r \in Readers :
         Suspended[r] = IF files[r] = None THEN None ELSE [files[r] EXCEPT !.native = None]
  BY DEF Suspended
<1>5. \A r \in Readers :
         /\ Suspended[r] = None <=> files[r] = None
         /\ Suspended[r] # None => /\ Suspended[r] = [files[r] EXCEPT !.native = None]
                                   /\ Suspended[r].native = None /\ Suspended[r] \in File
  <2> TAKE r \in Readers
  <2>1. CASE files[r] = None
    BY <1>4, <2>1
  <2>2. CASE files[r] # None
    <3>1. Suspended[r] = [files[r] EXCEPT !.native = None] /\ files[r] \in File
      BY <1>2, <1>4, <2>2
    <3> QED BY <1>3, <2>2, <3>1
  <2> QED BY <2>1, <2>2
<1>6. Suspended \in [Readers -> Optional(File)]
  <2>1. \A r \in Readers : Suspended[r] \in Optional(File)
    BY <1>5 DEF Optional
  <2>2. Suspended = [r \in Readers |-> Suspended[r]]
    BY DEF Suspended
  <2> QED BY <2>1, <2>2
<1>7. ASSUME NEW r \in Readers, NEW i, NEW s
      PROVE  ReaderInv(Suspended[r], callers[r], disk, i, s)
  <2>1. CASE files[r] = None
    <3>1. Suspended[r] = None
      BY <1>5, <2>1
    <3>2. ReaderInv(None, callers[r], disk, sdk, resolution)
      BY <1>1, <2>1
    <3> QED BY <3>1, <3>2 DEF ReaderInv, ReaderShape, FileInv, Agrees, TraversalInv
  <2>2. CASE files[r] # None
    <3>1. files[r] \in File /\ callers[r] \in Caller
      BY <1>1, <1>2, <2>2
    <3>2. ReaderInv([files[r] EXCEPT !.native = None], callers[r], disk, i, s)
      BY <1>1, <3>1, SuspendedReader
    <3> QED BY <1>4, <2>2, <3>2
  <2> QED BY <2>1, <2>2
<1> QED BY <1>5, <1>6, <1>7

\* A step of reader r that leaves the other readers alone, or after their owners
\* were closed.
LEMMA ReaderStep ==
    ASSUME Inv, NEW r \in Readers, NEW fs \in [Readers -> Optional(File)],
           NEW f \in Optional(File), NEW k \in Caller,
           files' = [fs EXCEPT ![r] = f], callers' = [callers EXCEPT ![r] = k],
           disk' = disk, rewrites' = rewrites,
           sdk' \in Optional(Resolutions), resolution' \in Optional(Resolutions),
           idle' \in Optional(Idle), job' \in Optional(Job),
           \A x \in Readers \ {r} : ReaderInv(fs[x], callers[x], disk, sdk', resolution'),
           ReaderInv(f, k, disk, sdk', resolution'),
           job' # None => JobInv(job', files', callers', disk, sdk'),
           job' # None /\ job'.kind = "open" => idle' = None,
           IdleInv(idle', files', sdk')
    PROVE  Inv'
<1>1. callers \in [Readers -> Caller] /\ disk \in [Paths -> OnDisk] /\ rewrites \in 0..MaxRewrites
  BY DEF Inv, TypeOK
<1>2. TypeOK'
  <2>1. files' \in [Readers -> Optional(File)] /\ callers' \in [Readers -> Caller]
    BY <1>1
  <2> QED BY <1>1, <2>1 DEF TypeOK
<1>3. ASSUME NEW x \in Readers
      PROVE  ReaderInv(files'[x], callers'[x], disk', sdk', resolution')
  <2>1. CASE x = r
    BY <1>1, <2>1
  <2>2. CASE x # r
    BY <1>1, <2>2
  <2> QED BY <2>1, <2>2
<1> QED BY <1>2, <1>3 DEF Inv

\* The facts about a state that the steps start from.
LEMMA InvFacts ==
    ASSUME Inv
    PROVE  /\ disk \in [Paths -> OnDisk] /\ rewrites \in 0..MaxRewrites
           /\ sdk \in Optional(Resolutions) /\ resolution \in Optional(Resolutions)
           /\ files \in [Readers -> Optional(File)] /\ callers \in [Readers -> Caller]
           /\ idle \in Optional(Idle) /\ job \in Optional(Job)
           /\ job # None => job \in Job /\ job.reader \in Readers
           /\ \A r \in Readers :
                 /\ callers[r] \in Caller /\ files[r] \in Optional(File)
                 /\ ReaderInv(files[r], callers[r], disk, sdk, resolution)
                 /\ ReaderShape(files[r], callers[r]) /\ FileInv(files[r], disk)
                 /\ Agrees(files[r], disk, sdk, resolution)
                 /\ TraversalInv(files[r], callers[r], disk)
                 /\ callers[r].pc \in Live => files[r] \in File
                 /\ files[r] # None => idle = None /\ files[r] \in File
                 /\ job # None /\ callers[r].pc # "waiting" => job.reader # r
           /\ IdleInv(idle, files, sdk)
<1>1. TypeOK
  BY DEF Inv
<1>2. job # None => job \in Job /\ job.reader \in Readers
  BY <1>1 DEF TypeOK, Optional, Job
<1>3. job # None => callers[job.reader].pc = "waiting"
  BY DEF Inv, JobInv, JobShape
<1>4. ASSUME NEW r \in Readers
      PROVE  /\ callers[r] \in Caller /\ files[r] \in Optional(File)
             /\ ReaderInv(files[r], callers[r], disk, sdk, resolution)
             /\ ReaderShape(files[r], callers[r]) /\ FileInv(files[r], disk)
             /\ Agrees(files[r], disk, sdk, resolution)
             /\ TraversalInv(files[r], callers[r], disk)
             /\ callers[r].pc \in Live => files[r] \in File
             /\ files[r] # None => idle = None /\ files[r] \in File
             /\ job # None /\ callers[r].pc # "waiting" => job.reader # r
  <2>1. callers[r] \in Caller /\ files[r] \in Optional(File)
    BY <1>1 DEF TypeOK
  <2>2. ReaderInv(files[r], callers[r], disk, sdk, resolution)
    BY DEF Inv
  <2>3. /\ ReaderShape(files[r], callers[r]) /\ FileInv(files[r], disk)
        /\ Agrees(files[r], disk, sdk, resolution)
        /\ TraversalInv(files[r], callers[r], disk)
    BY <2>2 DEF ReaderInv
  <2>4. callers[r].pc \in Live => files[r] # None
    BY <2>3 DEF ReaderShape
  <2>5. files[r] # None => idle = None /\ files[r] \in File
    BY <2>1 DEF Inv, IdleInv, Optional
  <2> QED BY <1>3, <2>1, <2>2, <2>3, <2>4, <2>5
<1> QED BY <1>1, <1>2, <1>4 DEF Inv, TypeOK

-----------------------------------------------------------------------------
(* Records that cover a part of a range. *)

LEMMA CoversFacts ==
    ASSUME NEW c \in Recordings, NEW w, RangeOf(w), NEW rs, NEW p \in Int, NEW q \in Int,
           Covers(c, w, rs, p, q)
    PROVE  /\ p \in 1..(Len(History[c]) + 1) /\ q \in p..(Len(History[c]) + 1)
           /\ rs \in Seq(Record) /\ Len(rs) = q - p
           /\ Len(History[c]) \in Nat /\ Start(c, w) \in 1..(Len(History[c]) + 1)
           /\ \A n \in 1..(q - p) : rs[n] = History[c][p + n - 1]
<1>1. /\ Len(History[c]) \in Nat /\ Start(c, w) \in 1..(Len(History[c]) + 1)
      /\ Stop(c, w) \in 1..(Len(History[c]) + 1)
  BY HistoryFacts, RangeFacts DEF RangeOf
<1>2. Start(c, w) <= p /\ p <= q /\ q <= Stop(c, w) /\ rs = Piece(c, p, q - 1)
  BY DEF Covers
<1>3. p \in 1..(Len(History[c]) + 1) /\ q \in p..(Len(History[c]) + 1)
  BY <1>1, <1>2
<1> DEFINE z == q - 1
<1>4. z \in 0..Len(History[c]) /\ p <= z + 1 /\ z - p + 1 = q - p
  BY <1>1, <1>3
<1> HIDE DEF z
<1>5. Piece(c, p, z) \in Seq(Record) /\ Len(Piece(c, p, z)) = z - p + 1
      /\ \A n \in 1..(z - p + 1) : Piece(c, p, z)[n] = History[c][p + n - 1]
  BY <1>3, <1>4, PieceFacts
<1>6. rs \in Seq(Record) /\ Len(rs) = q - p
      /\ \A n \in 1..(q - p) : rs[n] = History[c][p + n - 1]
  BY <1>2, <1>4, <1>5 DEF z
<1> QED BY <1>1, <1>3, <1>6

LEMMA CoversNothing ==
    ASSUME NEW c \in Recordings, NEW w, RangeOf(w), NEW p \in Start(c, w)..Stop(c, w)
    PROVE  Covers(c, w, <<>>, p, p)
<1>1. /\ Len(History[c]) \in Nat /\ Start(c, w) \in 1..(Len(History[c]) + 1)
      /\ Stop(c, w) \in 1..(Len(History[c]) + 1)
  BY HistoryFacts, RangeFacts DEF RangeOf
<1>2. p \in 1..(Len(History[c]) + 1) /\ p - 1 \in 0..Len(History[c]) /\ p = (p - 1) + 1
      /\ p <= (p - 1) + 1
  BY <1>1
<1>3. Piece(c, p, p - 1) = <<>>
  BY <1>2, PieceFacts
<1> QED BY <1>1, <1>3 DEF Covers

LEMMA CoversMore ==
    ASSUME NEW c \in Recordings, NEW w, RangeOf(w), NEW rs, NEW us,
           NEW b \in Int, NEW p \in Int, NEW q \in Int,
           Covers(c, w, rs, b, p), Covers(c, w, us, p, q)
    PROVE  Covers(c, w, rs \o us, b, q) /\ Len(rs \o us) = Len(rs) + Len(us)
<1>1. /\ b \in 1..(Len(History[c]) + 1) /\ p \in b..(Len(History[c]) + 1)
      /\ q \in p..(Len(History[c]) + 1) /\ Len(History[c]) \in Nat
      /\ rs \in Seq(Record) /\ us \in Seq(Record)
  BY CoversFacts
<1>2. /\ Start(c, w) <= b /\ q <= Stop(c, w)
      /\ rs = Piece(c, b, p - 1) /\ us = Piece(c, p, q - 1)
  BY DEF Covers
<1>3. p - 1 \in (b - 1)..Len(History[c]) /\ q - 1 \in (p - 1)..Len(History[c]) /\ p = (p - 1) + 1
  BY <1>1
<1>4. Piece(c, b, p - 1) \o Piece(c, (p - 1) + 1, q - 1) = Piece(c, b, q - 1)
  BY <1>1, <1>3, PieceConcat
<1>5. Len(rs \o us) = Len(rs) + Len(us)
  BY <1>1
<1> QED BY <1>1, <1>2, <1>3, <1>4, <1>5 DEF Covers

LEMMA CoversPrefix ==
    ASSUME NEW c \in Recordings, NEW w, RangeOf(w), NEW rs,
           NEW p \in Int, NEW q \in Int, Covers(c, w, rs, p, q), NEW n \in 0..Len(rs)
    PROVE  Covers(c, w, SubSeq(rs, 1, n), p, p + n)
<1>1. /\ p \in 1..(Len(History[c]) + 1) /\ q \in p..(Len(History[c]) + 1)
      /\ Len(History[c]) \in Nat /\ Len(rs) = q - p
  BY CoversFacts
<1>2. Start(c, w) <= p /\ q <= Stop(c, w) /\ rs = Piece(c, p, q - 1)
      /\ Stop(c, w) \in 1..(Len(History[c]) + 1)
  BY RangeFacts DEF Covers, RangeOf
<1>3. q - 1 \in 0..Len(History[c]) /\ p <= (q - 1) + 1 /\ n \in 0..((q - 1) - p + 1)
  BY <1>1
<1>4. SubSeq(rs, 1, n) = Piece(c, p, p + n - 1)
  BY <1>1, <1>2, <1>3, PiecePrefix
<1>5. p <= p + n /\ p + n <= Stop(c, w)
  BY <1>1, <1>2
<1> QED BY <1>2, <1>4, <1>5 DEF Covers

\* One more record of the range.
LEMMA CoversNext ==
    ASSUME NEW c \in Recordings, NEW w, RangeOf(w), NEW rs,
           NEW p \in Int, NEW q \in Int, Covers(c, w, rs, p, q), q < Stop(c, w)
    PROVE  Covers(c, w, Append(rs, History[c][q]), p, q + 1)
<1>1. /\ p \in 1..(Len(History[c]) + 1) /\ q \in p..(Len(History[c]) + 1)
      /\ Len(History[c]) \in Nat
  BY CoversFacts
<1>2. Start(c, w) <= p /\ q <= Stop(c, w) /\ rs = Piece(c, p, q - 1)
      /\ Stop(c, w) \in 1..(Len(History[c]) + 1)
  BY RangeFacts DEF Covers, RangeOf
<1>3. p \in 1..Len(History[c]) /\ q - 1 \in (p - 1)..(Len(History[c]) - 1) /\ (q - 1) + 1 = q
      /\ (q + 1) - 1 = q
  BY <1>1, <1>2
<1>4. Append(Piece(c, p, q - 1), History[c][(q - 1) + 1]) = Piece(c, p, (q - 1) + 1)
  BY <1>3, PieceAppend
<1> QED BY <1>1, <1>2, <1>3, <1>4 DEF Covers

-----------------------------------------------------------------------------
(* The initial state and the steps of the callers' threads. *)

LEMMA ClosedFacts ==
    /\ Closed \in Caller /\ Closed.pc = "closed" /\ Closed.window = None
    /\ Closed.batch = None /\ ~Closed.complete
    /\ \A dsk, i, s : ReaderInv(None, Closed, dsk, i, s)
<1>1. /\ Closed \in Caller /\ Closed.pc = "closed" /\ Closed.window = None
      /\ Closed.batch = None /\ ~Closed.complete
  <2>1. <<>> \in Seq(Record)
    OBVIOUS
  <2> QED BY <2>1 DEF Closed, Caller, Optional
<1> QED BY <1>1 DEF ReaderInv, ReaderShape, FileInv, Agrees, TraversalInv, Live

LEMMA InitInv == Init => Inv
<1> SUFFICES ASSUME Init PROVE Inv
  OBVIOUS
<1>1. TypeOK
  <2>1. rewrites \in 0..MaxRewrites
    BY WlfAssumption DEF Init
  <2>2. files \in [Readers -> Optional(File)] /\ callers \in [Readers -> Caller]
    BY ClosedFacts DEF Init, Optional
  <2> QED BY <2>1, <2>2 DEF Init, TypeOK, Optional
<1>2. \A r \in Readers : ReaderInv(files[r], callers[r], disk, sdk, resolution)
  BY ClosedFacts DEF Init
<1>3. job = None /\ IdleInv(idle, files, sdk)
  BY DEF Init, IdleInv
<1> QED BY <1>1, <1>2, <1>3 DEF Inv

\* A step of a thread outside the worker.
LEMMA ThreadStep ==
    ASSUME Inv, NEW r \in Readers, callers[r].pc # "waiting", NEW k \in Caller,
           ReaderInv(files[r], k, disk, sdk, resolution),
           callers' = [callers EXCEPT ![r] = k],
           UNCHANGED <<disk, rewrites, sdk, files, resolution, idle, job>>
    PROVE  Inv'
<1>1. job # None => /\ job.reader \in Readers /\ job.reader # r
                    /\ JobInv(job, files, callers, disk, sdk)
  BY InvFacts DEF Inv
<1>2. callers \in [Readers -> Caller]
  BY InvFacts
<1>3. job' # None => JobInv(job', files', callers', disk, sdk')
  <2> SUFFICES ASSUME job # None PROVE JobInv(job, files, callers', disk, sdk)
    OBVIOUS
  <2>1. callers'[job.reader] = callers[job.reader]
    BY <1>1, <1>2
  <2> QED BY <1>1, <2>1 DEF JobInv
<1>4. files' = [files EXCEPT ![r] = files[r]] /\ files[r] \in Optional(File)
  BY InvFacts
<1>5. job' # None /\ job'.kind = "open" => idle' = None
  BY DEF Inv
<1> QED BY <1>3, <1>4, <1>5, InvFacts, ReaderStep

LEMMA ValidateStep ==
    ASSUME Inv, NEW r \in Readers, Validate(r)
    PROVE  Inv'
<1>1. PICK k \in {[callers[r] EXCEPT !.pc = "ready", !.allow = TRUE],
                  [callers[r] EXCEPT !.pc = "closing"]} :
         callers' = [callers EXCEPT ![r] = k]
  <2>1. callers \in [Readers -> Caller]
    BY InvFacts
  <2> QED BY <2>1 DEF Validate
<1>2. callers[r].pc = "opened" /\ callers[r] \in Caller
  BY InvFacts DEF Validate
<1>3. callers[r].batch = None
  BY <1>2, InvFacts DEF ReaderShape
<1>4. /\ k \in Caller /\ k.window = callers[r].window /\ k.got = callers[r].got
      /\ k.complete = callers[r].complete /\ k.batch = None /\ k.pc \in {"ready", "closing"}
  BY <1>2, <1>3 DEF Caller
<1>5. files[r] \in File /\ files[r] # None /\ files[r] \in Optional(File)
  BY <1>2, InvFacts, NoneAssumption DEF Live
<1>6. ReaderShape(files[r], k) /\ TraversalInv(files[r], k, disk)
  <2>1. files[r].query # None /\ files[r].native # None => files[r].native.scan \in Scan
    BY <1>5, InvFacts DEF ReaderShape
  <2>2. ReaderShape(files[r], callers[r]) /\ TraversalInv(files[r], callers[r], disk)
    BY InvFacts
  <2> QED BY <1>2, <1>4, <1>5, <2>1, <2>2, Resting
<1>7. ReaderInv(files[r], k, disk, sdk, resolution)
  BY <1>6, InvFacts DEF ReaderInv
<1> QED BY <1>1, <1>2, <1>4, <1>7, ThreadStep DEF Validate

\* The range of a caller that has one.
LEMMA CallerRange ==
    ASSUME NEW f, NEW k \in Caller, ReaderShape(f, k), k.window # None
    PROVE  RangeOf(k.window) /\ k.window \in Window
BY DEF RangeOf, ReaderShape, Caller, Optional, Window

\* A caller that takes the first n records of the batch in hand.
LEMMA TakeRecords ==
    ASSUME NEW f \in File, NEW k \in Caller, ReaderShape(f, k), k.pc = "visiting",
           NEW n \in 0..Len(k.batch.records)
    PROVE  LET got == k.got \o SubSeq(k.batch.records, 1, n) IN
           /\ k.window # None /\ k.batch \in Batch /\ got \in Seq(Record)
           /\ Covers(f.recording, k.window, k.got, Start(f.recording, k.window), Reached(f, k))
              /\ BatchInv(f, k, k.batch, Reached(f, k)) =>
                 LET q == Reached(f, k) + n
                 IN /\ Covers(f.recording, k.window, got, Start(f.recording, k.window), q)
                    /\ Start(f.recording, k.window) + Len(got) = q
<1> DEFINE c == f.recording
           w == k.window
           b == k.batch
           x == Start(c, w)
           p == Reached(f, k)
           us == SubSeq(b.records, 1, n)
           got == k.got \o us
<1>1. w # None /\ b \in Batch /\ RangeOf(w) /\ c \in Recordings
  BY CallerRange DEF ReaderShape, File
<1>2. k.got \in Seq(Record) /\ b.records \in Seq(Record)
  BY <1>1 DEF Caller, Batch
<1>3. us \in Seq(Record) /\ Len(us) = n
  <2>1. n \in Nat /\ Len(b.records) \in Nat
    BY <1>2
  <2>2. \A i \in 1..n : b.records[i] \in Record
    BY <1>2, <2>1, ElementOfSeq
  <2> HIDE DEF b
  <2> QED BY <2>1, <2>2, SubSeqProperties, 1 \in Int, n \in Int
<1>4. got \in Seq(Record) /\ Len(got) = Len(k.got) + n
  <2>1. got = k.got \o us
    OBVIOUS
  <2> HIDE DEF us
  <2>2. \A y, z \in Seq(Record) : y \o z \in Seq(Record) /\ Len(y \o z) = Len(y) + Len(z)
    BY ConcatProperties
  <2> HIDE DEF got
  <2>3. got \in Seq(Record) /\ Len(got) = Len(k.got) + Len(us)
    BY <1>2, <1>3, <2>1, <2>2
  <2> QED BY <1>3, <2>3
<1>5. x \in Int /\ p \in Int /\ p = x + Len(k.got)
  <2>1. x \in 1..(Len(History[c]) + 1) /\ Len(History[c]) \in Nat
    BY <1>1, RangeFacts, HistoryFacts DEF RangeOf
  <2> QED BY <1>2, <2>1 DEF Reached
<1>6. ASSUME Covers(c, w, k.got, x, p), BatchInv(f, k, b, p)
      PROVE  Covers(c, w, got, x, p + n) /\ x + Len(got) = p + n
  <2>1. Covers(c, w, b.records, p, p + Len(b.records)) /\ p + Len(b.records) \in Int
    BY <1>2, <1>5, <1>6 DEF BatchInv
  <2>2. Covers(c, w, us, p, p + n)
    <3> HIDE DEF c, w, b, x, p
    <3> QED BY <1>1, <1>5, <2>1, CoversPrefix DEF b
  <2>3. p + n \in Int
    BY <1>5
  <2>4. Covers(c, w, k.got \o us, x, p + n)
    <3> HIDE DEF c, w, b, x, p, us
    <3> QED BY <1>1, <1>5, <1>6, <2>2, <2>3, CoversMore
  <2>5. x + Len(got) = p + n
    <3>1. Len(k.got) \in Nat /\ Len(b.records) \in Nat
      BY <1>2
    <3>2. n \in Int
      BY <3>1
    <3> HIDE DEF x, p
    <3> HIDE DEF got
    <3> QED BY <1>4, <1>5, <3>1, <3>2
  <2> QED BY <2>4, <2>5
<1> QED BY <1>1, <1>4, <1>6

LEMMA VisitStep ==
    ASSUME Inv, NEW r \in Readers, Visit(r)
    PROVE  Inv'
<1> DEFINE f == files[r]
           k == callers[r]
           b == k.batch
           got == k.got \o b.records
           l == [k EXCEPT !.got = @ \o b.records, !.batch = None,
                          !.complete = b.finished /\ ~b.error,
                          !.pc = IF b.error \/ b.finished THEN "ending" ELSE "asking"]
<1>1. callers' = [callers EXCEPT ![r] = l]
  <2>1. callers \in [Readers -> Caller]
    BY InvFacts
  <2> QED BY <2>1 DEF Visit
<1>2. k.pc = "visiting" /\ k \in Caller /\ ReaderShape(f, k) /\ TraversalInv(f, k, disk)
  BY InvFacts DEF Visit
<1>3. f \in File /\ f # None
  BY <1>2, InvFacts, NoneAssumption DEF Live
<1>4. b \in Batch /\ k.window # None /\ f.query # None /\ b.records \in Seq(Record)
  BY <1>2 DEF ReaderShape, Batch
<1>5. SubSeq(b.records, 1, Len(b.records)) = b.records /\ Len(b.records) \in 0..Len(b.records)
  BY <1>4, SubSeqFull
<1>6. /\ got \in Seq(Record)
      /\ Covers(f.recording, k.window, k.got, Start(f.recording, k.window), Reached(f, k))
         /\ BatchInv(f, k, b, Reached(f, k)) =>
            LET q == Reached(f, k) + Len(b.records)
            IN /\ Covers(f.recording, k.window, got, Start(f.recording, k.window), q)
               /\ Start(f.recording, k.window) + Len(got) = q
  <2> DEFINE n == Len(b.records)
  <2>1. n \in 0..Len(k.batch.records) /\ got = k.got \o SubSeq(k.batch.records, 1, n)
    BY <1>5
  <2> HIDE DEF f, k, n, got
  <2>2. k = callers[r] /\ b = k.batch
    BY DEF k
  <2> QED BY <1>2, <1>3, <2>1, TakeRecords DEF n
<1>7. /\ l \in Caller /\ l.got = got /\ l.batch = None /\ l.window = k.window
      /\ l.complete = (b.finished /\ ~b.error)
      /\ l.pc = IF b.error \/ b.finished THEN "ending" ELSE "asking"
  <2> HIDE DEF k, b
  <2>1. b \in Batch /\ k.got \o b.records \in Seq(Record)
    BY <1>4, <1>6
  <2> QED BY <1>2, <2>1 DEF Caller, Batch, Optional
<1> HIDE DEF f, k, b, got, l
<1>8. ReaderShape(f, l)
  BY <1>2, <1>3, <1>4, <1>7 DEF ReaderShape
<1>9. TraversalInv(f, l, disk)
  <2>1. l.pc \in {"asking", "visiting"} => ~l.complete
    BY <1>7
  <2>2. ASSUME disk[f.path].recording = f.recording
        PROVE  /\ Covers(f.recording, l.window, l.got, Start(f.recording, l.window), Reached(f, l))
               /\ l.complete => Reached(f, l) = Stop(f.recording, l.window)
               /\ l.pc = "asking" => Asked(f, l.window, Reached(f, l))
    <3> DEFINE q == Reached(f, k) + Len(b.records)
    <3>1. /\ Covers(f.recording, k.window, k.got, Start(f.recording, k.window), Reached(f, k))
          /\ BatchInv(f, k, b, Reached(f, k))
      BY <1>2, <1>3, <1>4, <2>2 DEF TraversalInv, b
    <3>2. /\ Covers(f.recording, k.window, got, Start(f.recording, k.window), q)
          /\ Start(f.recording, k.window) + Len(got) = q
      BY <1>6, <3>1
    <3>3. Reached(f, l) = q
      BY <1>7, <3>2 DEF Reached
    <3>4. ~b.error => /\ b.finished => q = Stop(f.recording, k.window)
                      /\ Asked(f, k.window, q)
      BY <3>1 DEF BatchInv
    <3> HIDE DEF q
    <3> QED BY <1>7, <3>2, <3>3, <3>4
  <2>3. l.pc # "visiting"
    BY <1>7
  <2> QED BY <2>1, <2>2, <2>3 DEF TraversalInv
<1>10. ReaderInv(f, l, disk, sdk, resolution)
  BY <1>8, <1>9, InvFacts DEF ReaderInv, f
<1> QED BY <1>1, <1>2, <1>7, <1>10, ThreadStep DEF Visit, f, k

LEMMA VisitStopsStep ==
    ASSUME Inv, NEW r \in Readers, VisitStops(r)
    PROVE  Inv'
<1> DEFINE f == files[r]
           k == callers[r]
           b == k.batch
<1>0. PICK n \in 1..Len(b.records), panics \in BOOLEAN :
         callers' = [callers EXCEPT
                ![r].got = @ \o SubSeq(b.records, 1, n),
                ![r].batch = None, ![r].panicking = panics, ![r].pc = "ending"]
  BY DEF VisitStops
<1> DEFINE got == k.got \o SubSeq(b.records, 1, n)
           l == [k EXCEPT !.got = @ \o SubSeq(b.records, 1, n), !.batch = None,
                          !.panicking = panics, !.pc = "ending"]
<1>1. callers' = [callers EXCEPT ![r] = l]
  <2>1. callers \in [Readers -> Caller]
    BY InvFacts
  <2> QED BY <1>0, <2>1
<1>2. k.pc = "visiting" /\ k \in Caller /\ ReaderShape(f, k) /\ TraversalInv(f, k, disk)
  BY InvFacts DEF VisitStops
<1>3. f \in File /\ f # None
  BY <1>2, InvFacts, NoneAssumption DEF Live
<1>4. b \in Batch /\ k.window # None /\ b.records \in Seq(Record)
  BY <1>2 DEF ReaderShape, Batch
<1>5. n \in 0..Len(b.records)
  BY <1>0, <1>4
<1>6. /\ got \in Seq(Record)
      /\ Covers(f.recording, k.window, k.got, Start(f.recording, k.window), Reached(f, k))
         /\ BatchInv(f, k, b, Reached(f, k)) =>
            LET q == Reached(f, k) + n
            IN /\ Covers(f.recording, k.window, got, Start(f.recording, k.window), q)
               /\ Start(f.recording, k.window) + Len(got) = q
  <2>1. n \in 0..Len(k.batch.records) /\ got = k.got \o SubSeq(k.batch.records, 1, n)
    BY <1>5
  <2> HIDE DEF f, k, got
  <2> QED BY <1>2, <1>3, <2>1, TakeRecords
<1>7. /\ l \in Caller /\ l.got = got /\ l.batch = None /\ l.window = k.window
      /\ l.complete = k.complete /\ l.pc = "ending"
  <2> HIDE DEF k, b
  <2>1. k.got \o SubSeq(b.records, 1, n) \in Seq(Record)
    BY <1>6
  <2> QED BY <1>2, <2>1 DEF Caller, Optional
<1> HIDE DEF f, k, b, got, l
<1>8. ReaderShape(f, l)
  BY <1>2, <1>3, <1>4, <1>7 DEF ReaderShape
<1>9. TraversalInv(f, l, disk)
  <2>1. ~l.complete
    BY <1>2, <1>7 DEF TraversalInv
  <2>2. ASSUME disk[f.path].recording = f.recording
        PROVE  Covers(f.recording, l.window, l.got, Start(f.recording, l.window), Reached(f, l))
    <3> DEFINE q == Reached(f, k) + n
    <3>1. /\ Covers(f.recording, k.window, k.got, Start(f.recording, k.window), Reached(f, k))
          /\ BatchInv(f, k, b, Reached(f, k))
      BY <1>2, <1>3, <1>4, <2>2 DEF TraversalInv, b
    <3>2. /\ Covers(f.recording, k.window, got, Start(f.recording, k.window), q)
          /\ Start(f.recording, k.window) + Len(got) = q
      BY <1>6, <3>1
    <3>3. Reached(f, l) = q
      BY <1>7, <3>2 DEF Reached
    <3> HIDE DEF q
    <3> QED BY <1>7, <3>2, <3>3
  <2> QED BY <1>7, <2>1, <2>2 DEF TraversalInv
<1>10. ReaderInv(f, l, disk, sdk, resolution)
  BY <1>8, <1>9, InvFacts DEF ReaderInv, f
<1> QED BY <1>1, <1>2, <1>7, <1>10, ThreadStep DEF VisitStops, f, k

\* A reader sends a job for the file it has.
LEMMA SubmitStep ==
    ASSUME Inv, NEW r \in Readers, NEW kind \in {"begin", "sample", "next"},
           Submit(kind, r), NEW k \in Caller, k.pc = "waiting",
           callers' = [callers EXCEPT ![r] = k],
           files[r] \in File,
           ReaderInv(files[r], k, disk, sdk, resolution),
           kind \in {"begin", "next"} => k.window # None /\ ~k.complete,
           kind = "begin" => k.got = <<>>,
           kind = "next" =>
              /\ files[r].query # None
              /\ disk[files[r].path].recording = files[r].recording =>
                    /\ Covers(files[r].recording, k.window, <<>>, Reached(files[r], k),
                              Reached(files[r], k))
                    /\ Asked(files[r], k.window, Reached(files[r], k)),
           UNCHANGED <<disk, rewrites, sdk, files, resolution, idle>>
    PROVE  Inv'
<1> DEFINE j == [kind |-> kind, reader |-> r, step |-> "file", path |-> None,
                 owner |-> None, before |-> None, seen |-> {}, records |-> <<>>]
<1>1. /\ j \in Job /\ job' = j /\ j.kind = kind /\ j.reader = r /\ j.step = "file"
      /\ j.records = <<>>
  <2>1. <<>> \in Seq(Record) /\ {} \in SUBSET OnDisk
    OBVIOUS
  <2> QED BY <2>1 DEF Submit, Job, Optional
<1> HIDE DEF j
<1>2. callers'[r] = k /\ files[r] # None
  BY InvFacts, NoneAssumption
<1>3. JobShape(j, files[r], k)
  BY <1>1, <1>2 DEF JobShape
<1>4. JobTraversalInv(j, files[r], k, disk)
  <2>1. kind = "next" => Reached(files[r], k) \in Int
    <3> SUFFICES ASSUME kind = "next" PROVE Reached(files[r], k) \in Int
      OBVIOUS
    <3>1. RangeOf(k.window) /\ files[r].recording \in Recordings /\ Len(k.got) \in Nat
      BY CallerRange DEF ReaderInv, File, Caller
    <3>2. Start(files[r].recording, k.window) \in Int
      <4>1. Start(files[r].recording, k.window) \in 1..(Len(History[files[r].recording]) + 1)
            /\ Len(History[files[r].recording]) \in Nat
        BY <3>1, RangeFacts, HistoryFacts DEF RangeOf
      <4> QED BY <4>1
    <3> QED BY <3>1, <3>2 DEF Reached
  <2>2. Len(<<>>) = 0
    OBVIOUS
  <2>3. kind = "next" => Reached(files[r], k) + Len(j.records) = Reached(files[r], k)
    <3>1. Len(j.records) = 0
      BY <1>1, <2>2
    <3> QED BY <2>1, <3>1
  <2> QED BY <1>1, <2>3 DEF JobTraversalInv
<1>5. JobInv(j, files, callers', disk, sdk)
  BY <1>1, <1>2, <1>3, <1>4 DEF JobInv
<1>6. files' = [files EXCEPT ![r] = files[r]] /\ files[r] \in Optional(File) /\ j \in Optional(Job)
  BY <1>1, InvFacts DEF Optional
<1> QED BY <1>1, <1>5, <1>6, InvFacts, ReaderStep

LEMMA BeginReadStep ==
    ASSUME Inv, NEW r \in Readers, NEW w \in Windows, BeginRead(r, w)
    PROVE  Inv'
<1> DEFINE f == files[r]
           k == [callers[r] EXCEPT !.pc = "waiting", !.window = w, !.got = <<>>,
                                   !.complete = FALSE]
<1>1. callers' = [callers EXCEPT ![r] = k] /\ callers[r] \in Caller /\ callers[r].pc = "ready"
  <2>1. callers \in [Readers -> Caller]
    BY InvFacts
  <2> QED BY <2>1 DEF BeginRead
<1>2. callers[r].batch = None
  BY <1>1, InvFacts DEF ReaderShape
<1>3. f \in File /\ f # None
  BY <1>1, InvFacts, NoneAssumption DEF Live
<1>4. w \in Window /\ RangeOf(w) /\ w # None
  BY WlfAssumption, NoneAssumption DEF Window, RangeOf
<1>5. /\ k \in Caller /\ k.pc = "waiting" /\ k.window = w /\ k.got = <<>> /\ ~k.complete
      /\ k.batch = None
  <2>1. <<>> \in Seq(Record)
    OBVIOUS
  <2> QED BY <1>1, <1>2, <1>4, <2>1 DEF Caller, Optional
<1> HIDE DEF k
<1>6. ReaderShape(f, k)
  <2>1. f.query # None /\ f.native # None => f.native.scan \in Scan
    BY <1>3, InvFacts DEF ReaderShape
  <2> QED BY <1>3, <1>4, <1>5, <2>1 DEF ReaderShape, RangeOf
<1>7. TraversalInv(f, k, disk)
  <2> DEFINE c == f.recording
  <2>1. c \in Recordings
    BY <1>3 DEF File
  <2>2. Start(c, w) \in Start(c, w)..Stop(c, w) /\ Start(c, w) \in Int
    <3>1. /\ Start(c, w) \in 1..(Len(History[c]) + 1) /\ Stop(c, w) \in 1..(Len(History[c]) + 1)
          /\ Start(c, w) <= Stop(c, w) /\ Len(History[c]) \in Nat
      BY <1>4, <2>1, RangeFacts, HistoryFacts DEF RangeOf
    <3> QED BY <3>1
  <2>3. Covers(c, w, <<>>, Start(c, w), Start(c, w))
    BY <1>4, <2>1, <2>2, CoversNothing
  <2>4. Reached(f, k) = Start(c, w)
    <3>1. Len(k.got) = 0
      BY <1>5
    <3> QED BY <1>5, <2>2, <3>1 DEF Reached
  <2> QED BY <1>5, <2>3, <2>4 DEF TraversalInv
<1>8. ReaderInv(f, k, disk, sdk, resolution)
  BY <1>6, <1>7, InvFacts DEF ReaderInv
<1> QED BY <1>1, <1>3, <1>4, <1>5, <1>8, SubmitStep DEF BeginRead

LEMMA SampleBitsStep ==
    ASSUME Inv, NEW r \in Readers, SampleBits(r)
    PROVE  Inv'
<1> DEFINE f == files[r]
           k == [callers[r] EXCEPT !.pc = "waiting"]
<1>1. callers' = [callers EXCEPT ![r] = k] /\ callers[r] \in Caller /\ callers[r].pc = "ready"
  <2>1. callers \in [Readers -> Caller]
    BY InvFacts
  <2> QED BY <2>1 DEF SampleBits
<1>2. callers[r].batch = None
  BY <1>1, InvFacts DEF ReaderShape
<1>3. f \in File /\ f # None /\ f \in Optional(File)
  BY <1>1, InvFacts, NoneAssumption DEF Live
<1>4. /\ k \in Caller /\ k.pc = "waiting" /\ k.window = callers[r].window
      /\ k.got = callers[r].got /\ k.complete = callers[r].complete /\ k.batch = None
  BY <1>1, <1>2 DEF Caller
<1> HIDE DEF k
<1>5. ReaderShape(f, k) /\ TraversalInv(f, k, disk)
  <2>1. f.query # None /\ f.native # None => f.native.scan \in Scan
    BY <1>3, InvFacts DEF ReaderShape
  <2>2. ReaderShape(f, callers[r]) /\ TraversalInv(f, callers[r], disk)
    BY InvFacts
  <2> QED BY <1>1, <1>3, <1>4, <2>1, <2>2, Resting DEF Live
<1>6. ReaderInv(f, k, disk, sdk, resolution)
  BY <1>5, InvFacts DEF ReaderInv
<1> QED BY <1>1, <1>3, <1>4, <1>6, SubmitStep DEF SampleBits

LEMMA NextBatchStep ==
    ASSUME Inv, NEW r \in Readers, NextBatch(r)
    PROVE  Inv'
<1> DEFINE f == files[r]
           k == [callers[r] EXCEPT !.pc = "waiting"]
<1>1. callers' = [callers EXCEPT ![r] = k] /\ callers[r] \in Caller /\ callers[r].pc = "asking"
  <2>1. callers \in [Readers -> Caller]
    BY InvFacts
  <2> QED BY <2>1 DEF NextBatch
<1>2. callers[r].batch = None /\ callers[r].window # None /\ f.query # None
  BY <1>1, InvFacts DEF ReaderShape
<1>3. f \in File /\ f # None /\ f \in Optional(File)
  BY <1>1, InvFacts, NoneAssumption DEF Live
<1>4. /\ k \in Caller /\ k.pc = "waiting" /\ k.window = callers[r].window
      /\ k.got = callers[r].got /\ k.complete = callers[r].complete /\ k.batch = None
  BY <1>1, <1>2 DEF Caller
<1> HIDE DEF k
<1>5. ReaderShape(f, callers[r]) /\ TraversalInv(f, callers[r], disk)
  BY InvFacts
<1>6. ReaderShape(f, k) /\ TraversalInv(f, k, disk)
  <2>1. f.query # None /\ f.native # None => f.native.scan \in Scan
    BY <1>3, InvFacts DEF ReaderShape
  <2> QED BY <1>1, <1>3, <1>4, <1>5, <2>1, Resting DEF Live
<1>7. ReaderInv(f, k, disk, sdk, resolution)
  BY <1>6, InvFacts DEF ReaderInv
<1>8. ~k.complete
  BY <1>1, <1>4, <1>5 DEF TraversalInv
<1>9. ASSUME disk[f.path].recording = f.recording
      PROVE  /\ Covers(f.recording, k.window, <<>>, Reached(f, k), Reached(f, k))
             /\ Asked(f, k.window, Reached(f, k))
  <2>1. Reached(f, k) = Reached(f, callers[r])
    BY <1>4 DEF Reached
  <2>2. /\ Covers(f.recording, k.window, k.got, Start(f.recording, k.window), Reached(f, k))
        /\ Asked(f, k.window, Reached(f, k))
    BY <1>1, <1>2, <1>3, <1>4, <1>5, <1>9, <2>1 DEF TraversalInv
  <2>3. f.recording \in Recordings /\ RangeOf(k.window) /\ Len(k.got) \in Nat
    BY <1>2, <1>3, <1>4, <1>6, CallerRange DEF File, Caller
  <2> DEFINE c == f.recording
             w == k.window
             p == Reached(f, k)
  <2>4. /\ Start(c, w) \in 1..(Len(History[c]) + 1) /\ Stop(c, w) \in 1..(Len(History[c]) + 1)
        /\ Len(History[c]) \in Nat
    BY <2>3, RangeFacts, HistoryFacts DEF RangeOf
  <2>5. p \in Start(c, w)..Stop(c, w)
    BY <2>2, <2>3, <2>4 DEF Covers, Reached
  <2> HIDE DEF c, w, p
  <2>6. Covers(c, w, <<>>, p, p)
    BY <2>3, <2>5, CoversNothing DEF c, w
  <2> QED BY <2>2, <2>6 DEF c, w, p
<1> QED BY <1>1, <1>2, <1>3, <1>4, <1>7, <1>8, <1>9, SubmitStep DEF NextBatch

LEMMA OpenStep ==
    ASSUME Inv, NEW r \in Readers, NEW p \in Paths, Open(r, p)
    PROVE  Inv'
<1> DEFINE f == files[r]
           k == [callers[r] EXCEPT !.pc = "waiting"]
           j == [kind |-> "open", reader |-> r, path |-> p,
                 step |-> IF Candidate(p) THEN "hash" ELSE "reset",
                 owner |-> IF Candidate(p) THEN idle.owner ELSE None,
                 before |-> None, seen |-> {disk[p]}, records |-> <<>>]
<1>1. /\ callers' = [callers EXCEPT ![r] = k] /\ callers[r] \in Caller
      /\ callers[r].pc = "closed" /\ job' = j /\ idle' = None
      /\ files' = [files EXCEPT ![r] = f]
      /\ disk' = disk /\ rewrites' = rewrites /\ sdk' = sdk /\ resolution' = resolution
  <2>1. callers \in [Readers -> Caller] /\ files \in [Readers -> Optional(File)]
    BY InvFacts
  <2> QED BY <2>1 DEF Open
<1>2. callers[r].batch = None
  BY <1>1, InvFacts DEF ReaderShape
<1>3. /\ k \in Caller /\ k.pc = "waiting" /\ k.window = callers[r].window
      /\ k.got = callers[r].got /\ k.complete = callers[r].complete /\ k.batch = None
  BY <1>1, <1>2 DEF Caller
<1> HIDE DEF k
<1>4. ReaderShape(f, k) /\ TraversalInv(f, k, disk)
  <2>1. f # None /\ f.query # None /\ f.native # None => f.native.scan \in Scan
    BY InvFacts DEF ReaderShape
  <2>2. ReaderShape(f, callers[r]) /\ TraversalInv(f, callers[r], disk) /\ f \in Optional(File)
    BY InvFacts
  <2> QED BY <1>1, <1>3, <2>1, <2>2, Resting DEF Live
<1>5. ReaderInv(f, k, disk, sdk, resolution)
  BY <1>4, InvFacts DEF ReaderInv
<1>6. Candidate(p) => /\ idle \in Idle /\ idle.owner \in Owner /\ OwnerInv(idle.owner)
                      /\ idle.owner.identity # None
                      /\ ~Overlap => ResolutionOf[idle.owner.recording] = sdk
  <2> SUFFICES ASSUME Candidate(p)
               PROVE  /\ idle \in Idle /\ idle.owner \in Owner /\ OwnerInv(idle.owner)
                      /\ idle.owner.identity # None
                      /\ ~Overlap => ResolutionOf[idle.owner.recording] = sdk
    OBVIOUS
  <2>1. idle # None /\ idle.owner.identity # None
    BY DEF Candidate
  <2>2. idle \in Idle /\ IdleInv(idle, files, sdk)
    BY <2>1, InvFacts DEF Optional
  <2>3. idle.owner \in Owner
    BY <2>2 DEF Idle
  <2> QED BY <2>1, <2>2, <2>3 DEF IdleInv
<1>7. disk[p] \in OnDisk
  BY InvFacts
<1>8. /\ j \in Job /\ j.kind = "open" /\ j.reader = r /\ j.path = p /\ j.seen = {disk[p]}
      /\ \/ j.step = "hash" /\ Candidate(p) /\ j.owner = idle.owner
         \/ j.step = "reset" /\ j.owner = None
  <2> DEFINE o == IF Candidate(p) THEN idle.owner ELSE None
             st == IF Candidate(p) THEN "hash" ELSE "reset"
  <2>1. o \in Optional(Owner) /\ st \in {"hash", "reset"}
        /\ <<>> \in Seq(Record) /\ {disk[p]} \in SUBSET OnDisk
    BY <1>6, <1>7 DEF Optional
  <2>2. \/ st = "hash" /\ Candidate(p) /\ o = idle.owner
        \/ st = "reset" /\ o = None
    <3>1. CASE Candidate(p)
      BY <3>1
    <3>2. CASE ~Candidate(p)
      BY <3>2
    <3> QED BY <3>1, <3>2
  <2>3. j = [kind |-> "open", reader |-> r, path |-> p, step |-> st, owner |-> o,
             before |-> None, seen |-> {disk[p]}, records |-> <<>>]
    OBVIOUS
  <2> HIDE DEF o, st, j
  <2>4. j \in Job
    <3>1. p \in Optional(Paths) /\ None \in Optional(Stamps)
      BY DEF Optional
    <3> QED BY <2>1, <2>3, <3>1 DEF Job
  <2> QED BY <2>2, <2>3, <2>4
<1> HIDE DEF j
<1>9. JobShape(j, f, k)
  BY <1>3, <1>6, <1>8 DEF JobShape, OpenSteps, Holding
<1>10. OpenInv(j, disk, sdk)
  BY <1>6, <1>8 DEF OpenInv, Holding
<1>11. JobInv(j, files', callers', disk, sdk)
  <2>1. callers'[r] = k /\ files'[r] = f
    BY <1>1, InvFacts
  <2> QED BY <1>8, <1>9, <1>10, <2>1 DEF JobInv
<1>12. IdleInv(None, files', sdk)
  BY DEF IdleInv
<1>13. j \in Optional(Job) /\ None \in Optional(Idle) /\ f \in Optional(File)
  BY <1>8, InvFacts DEF Optional
<1> HIDE DEF f
<1> QED BY <1>1, <1>3, <1>5, <1>11, <1>12, <1>13, InvFacts, ReaderStep

LEMMA EndNativeFacts ==
    ASSUME NEW o \in Optional(Owner)
    PROVE  /\ EndNative(o) \in Optional(Owner)
           /\ o = None <=> EndNative(o) = None
           /\ o # None => SameOwner(o, EndNative(o)) /\ EndNative(o).scan = None
                          /\ EndNative(o).failed = o.failed
<1>1. CASE o = None
  BY <1>1 DEF EndNative, Optional
<1>2. CASE o # None
  <2>1. o \in Owner
    BY <1>2 DEF Optional
  <2>2. [o EXCEPT !.scan = None] \in Owner
    BY <2>1 DEF Owner, Optional
  <2>3. [o EXCEPT !.scan = None] # None
    BY <2>2, NoneAssumption
  <2> QED BY <1>2, <2>1, <2>2, <2>3 DEF EndNative, Owner, Optional, SameOwner
<1> QED BY <1>1, <1>2

LEMMA EndTraversalStep ==
    ASSUME Inv, NEW r \in Readers, EndTraversal(r)
    PROVE  Inv'
<1> DEFINE f == files[r]
           g == [f EXCEPT !.native = EndNative(@), !.query = None]
           k == [callers[r] EXCEPT
                   !.pc = IF callers[r].panicking THEN "closing" ELSE "ready",
                   !.batch = None]
<1>1. /\ callers' = [callers EXCEPT ![r] = k] /\ callers[r] \in Caller
      /\ callers[r].pc = "ending" /\ files' = [files EXCEPT ![r] = g]
      /\ job = None /\ job' = None /\ idle' = idle
      /\ disk' = disk /\ rewrites' = rewrites /\ sdk' = sdk /\ resolution' = resolution
  <2>1. callers \in [Readers -> Caller] /\ files \in [Readers -> Optional(File)]
    BY InvFacts
  <2> QED BY <2>1 DEF EndTraversal, Free
<1>2. f \in File /\ f # None
  BY <1>1, InvFacts, NoneAssumption DEF Live
<1>3. f.native \in Optional(Owner)
  BY <1>2 DEF File
<1>4. /\ g \in File /\ g.path = f.path /\ g.recording = f.recording
      /\ g.resolution = f.resolution /\ g.query = None /\ g.native = EndNative(f.native)
  BY <1>2, <1>3, EndNativeFacts DEF File, Optional
<1>5. /\ k \in Caller /\ k.pc \in {"ready", "closing"} /\ k.window = callers[r].window
      /\ k.got = callers[r].got /\ k.complete = callers[r].complete /\ k.batch = None
  BY <1>1 DEF Caller, Optional
<1> HIDE DEF k, g
<1>6. g # None /\ g \in Optional(File) /\ f \in Optional(File)
  BY <1>2, <1>4, NoneAssumption DEF Optional
<1>7. ReaderShape(g, k) /\ TraversalInv(g, k, disk)
  <2>1. ReaderShape(f, callers[r]) /\ TraversalInv(f, callers[r], disk)
    BY InvFacts
  <2> QED BY <1>1, <1>2, <1>4, <1>5, <1>6, <2>1, Resting
<1>8. FileInv(g, disk) /\ Agrees(g, disk, sdk, resolution)
  <2>1. FileInv(f, disk) /\ Agrees(f, disk, sdk, resolution)
    BY InvFacts
  <2>2. g.native # None => f.native # None /\ SameOwner(f.native, g.native)
    BY <1>3, <1>4, EndNativeFacts
  <2> QED BY <1>2, <1>4, <2>1, <2>2, OwnerKept
<1>9. ReaderInv(g, k, disk, sdk, resolution)
  BY <1>7, <1>8 DEF ReaderInv
<1>10. idle = None /\ IdleInv(idle, files', sdk) /\ None \in Optional(Job)
  BY <1>2, InvFacts DEF IdleInv, Optional
<1> HIDE DEF f
<1> QED BY <1>1, <1>5, <1>6, <1>9, <1>10, InvFacts, ReaderStep

LEMMA CloseStep ==
    ASSUME Inv, NEW r \in Readers, Close(r)
    PROVE  Inv'
<1> DEFINE f == files[r]
           i == [path |-> f.path, resolution |-> f.resolution, owner |-> EndNative(f.native)]
<1>1. /\ callers' = [callers EXCEPT ![r] = Closed] /\ files' = [files EXCEPT ![r] = None]
      /\ job = None /\ job' = None /\ callers[r].pc \in {"ready", "closing"}
      /\ idle' = IF Parks(r) THEN i ELSE idle
  BY DEF Close, Free
<1>2. f \in File /\ f # None /\ idle = None
  BY <1>1, InvFacts, NoneAssumption DEF Live
<1>3. FileInv(f, disk) /\ Agrees(f, disk, sdk, resolution)
  BY InvFacts
<1>4. Parks(r) => i \in Idle /\ IdleInv(i, files', sdk)
  <2> SUFFICES ASSUME Parks(r) PROVE i \in Idle /\ IdleInv(i, files', sdk)
    OBVIOUS
  <2>1. /\ f.native # None /\ f.native.reusable
        /\ \A other \in Readers \ {r} : files[other] = None
    BY DEF Parks
  <2>2. f.native \in Owner /\ f.native \in Optional(Owner)
    BY <1>2, <2>1 DEF File, Optional
  <2> DEFINE o == EndNative(f.native)
  <2>3. /\ o \in Owner /\ o.scan = None /\ o.failed = f.native.failed
        /\ SameOwner(f.native, o)
    BY <2>1, <2>2, EndNativeFacts DEF Optional
  <2> HIDE DEF o
  <2>4. i \in Idle /\ i.owner = o
    BY <1>2, <2>3 DEF Idle, File, o
  <2>5. OwnerInv(o) /\ ~o.failed
    BY <1>2, <1>3, <2>1, <2>3 DEF FileInv, OwnerInv, SameOwner
  <2>6. ~Overlap => ResolutionOf[o.recording] = sdk
    BY <1>2, <1>3, <2>1, <2>3 DEF Agrees, SameOwner
  <2>7. \A x \in Readers : files'[x] = None
    BY <1>1, <2>1, InvFacts
  <2> QED BY <2>3, <2>4, <2>5, <2>6, <2>7 DEF IdleInv
<1> HIDE DEF i
<1>5. idle' \in Optional(Idle) /\ IdleInv(idle', files', sdk) /\ None \in Optional(Job)
      /\ None \in Optional(File)
  BY <1>1, <1>2, <1>4 DEF IdleInv, Optional
<1>6. Closed \in Caller /\ ReaderInv(None, Closed, disk, sdk, resolution)
  BY ClosedFacts
<1> QED BY <1>1, <1>5, <1>6, InvFacts, ReaderStep DEF Close

-----------------------------------------------------------------------------
(* The steps of an open. *)

\* What is selected does not concern a file without an owner.
LEMMA NoOwner ==
    ASSUME NEW f, NEW k, NEW dsk, NEW i, NEW s, NEW i2, NEW s2,
           ReaderInv(f, k, dsk, i, s), f # None => f.native = None
    PROVE  ReaderInv(f, k, dsk, i2, s2)
BY DEF ReaderInv, Agrees

LEMMA OpeningFacts ==
    ASSUME Inv, NEW step \in OpenSteps, Opening(step)
    PROVE  /\ job \in Job /\ job.kind = "open" /\ job.step = step /\ job.reader \in Readers
           /\ job.path \in Paths /\ OpenInv(job, disk, sdk) /\ idle = None
           /\ Holding(job) => job.owner \in Owner
           /\ callers[job.reader].pc = "waiting"
           /\ disk[job.path] \in OnDisk
           /\ step \notin {"hash", "reset"} =>
                 \A r \in Readers : \A i, s :
                    /\ files[r] # None => files[r].native = None
                    /\ ReaderInv(files[r], callers[r], disk, i, s)
<1>1. job # None /\ job.kind = "open" /\ job.step = step
  BY DEF Opening
<1>2. JobInv(job, files, callers, disk, sdk) /\ idle = None
  BY <1>1 DEF Inv
<1>3. /\ JobShape(job, files[job.reader], callers[job.reader]) /\ OpenInv(job, disk, sdk)
      /\ step \notin {"hash", "reset"} => \A r \in Readers : files[r] # None => files[r].native = None
  BY <1>1, <1>2 DEF JobInv
<1>4. job.path \in Paths /\ (Holding(job) => job.owner \in Owner)
      /\ callers[job.reader].pc = "waiting"
  BY <1>1, <1>3 DEF JobShape
<1>5. disk[job.path] \in OnDisk /\ job \in Job /\ job.reader \in Readers
  BY <1>1, <1>4, InvFacts
<1>6. ASSUME step \notin {"hash", "reset"}, NEW r \in Readers, NEW i, NEW s
      PROVE  ReaderInv(files[r], callers[r], disk, i, s)
  BY <1>3, <1>6, InvFacts, NoOwner
<1> QED BY <1>1, <1>2, <1>3, <1>4, <1>5, <1>6

\* An open goes on.
LEMMA OpenGoesOn ==
    ASSUME Inv, NEW step \in OpenSteps, Opening(step), NEW j \in Job, job' = j,
           j.kind = "open", j.reader = job.reader, j.path = job.path, j.step \in OpenSteps,
           Holding(j) => j.owner \in Owner, OpenInv(j, disk, sdk'),
           files' \in [Readers -> Optional(File)],
           files'[j.reader] \in Optional(File),
           \A x \in Readers : ReaderInv(files'[x], callers[x], disk, sdk', resolution'),
           j.step \notin {"hash", "reset"} =>
              \A x \in Readers : files'[x] # None => files'[x].native = None,
           sdk' \in Optional(Resolutions), resolution' \in Optional(Resolutions),
           UNCHANGED <<disk, rewrites, idle, callers>>
    PROVE  Inv'
<1> DEFINE r == j.reader
<1>1. /\ r \in Readers /\ j.path \in Paths /\ idle = None /\ callers[r].pc = "waiting"
  BY OpeningFacts
<1> HIDE DEF r
<1>2. JobShape(j, files'[r], callers[r])
  BY <1>1 DEF JobShape
<1>3. JobInv(j, files', callers', disk, sdk')
  BY <1>1, <1>2 DEF JobInv, r
<1>4. IdleInv(idle', files', sdk') /\ j \in Optional(Job) /\ idle' \in Optional(Idle)
  BY <1>1 DEF IdleInv, Optional
<1>5. TypeOK'
  BY <1>1, <1>4, InvFacts DEF TypeOK
<1>6. \A x \in Readers : ReaderInv(files'[x], callers'[x], disk', sdk', resolution')
  OBVIOUS
<1>7. JobInv(job', files', callers', disk', sdk') /\ IdleInv(idle', files', sdk') /\ idle' = None
  BY <1>1, <1>3, <1>4
<1> QED BY <1>5, <1>6, <1>7 DEF Inv

\* An open ends without a file.
LEMMA OpenGivesUp ==
    ASSUME Inv, NEW step \in OpenSteps \ {"hash", "reset"}, Opening(step),
           Reply(job.reader, Closed),
           sdk' \in Optional(Resolutions), resolution' \in Optional(Resolutions),
           UNCHANGED <<disk, rewrites, files, idle>>
    PROVE  Inv'
<1> DEFINE r == job.reader
           f == files[r]
<1>1. /\ r \in Readers /\ idle = None
      /\ \A x \in Readers : ReaderInv(files[x], callers[x], disk, sdk', resolution')
  BY OpeningFacts
<1>2. job' = None /\ callers' = [callers EXCEPT ![r] = Closed] /\ Closed \in Caller
  BY ClosedFacts DEF Reply
<1> HIDE DEF r
<1>3. f \in Optional(File) /\ files' = [files EXCEPT ![r] = f]
  BY <1>1, InvFacts
<1>4. ReaderInv(f, Closed, disk, sdk', resolution')
  <2>1. ReaderInv(f, callers[r], disk, sdk', resolution')
    BY <1>1
  <2> QED BY <2>1, ClosedFacts DEF ReaderInv, ReaderShape, TraversalInv, Live
<1>5. IdleInv(idle', files', sdk') /\ None \in Optional(Job) /\ idle' \in Optional(Idle)
  BY <1>1 DEF IdleInv, Optional
<1> HIDE DEF f
<1> QED BY <1>1, <1>2, <1>3, <1>4, <1>5, InvFacts, ReaderStep

LEMMA OpenHashStep ==
    ASSUME Inv, OpenHash
    PROVE  Inv'
<1>1. PICK id \in ContentIdentity(job.path) :
         job' = [job EXCEPT !.step = "reset", !.owner = IF Reuses(@, id) THEN @ ELSE None]
  BY DEF OpenHash
<1>2. /\ Opening("hash") /\ "hash" \in OpenSteps /\ sdk' = sdk /\ resolution' = resolution
      /\ files' = files /\ UNCHANGED <<disk, rewrites, idle, callers>>
  BY DEF OpenHash, OpenSteps
<1>3. /\ job \in Job /\ job.kind = "open" /\ job.step = "hash" /\ job.reader \in Readers
      /\ job.path \in Paths /\ OpenInv(job, disk, sdk) /\ idle = None
      /\ Holding(job) => job.owner \in Owner
  BY <1>2, OpeningFacts
<1>4. Holding(job) /\ job.owner \in Owner /\ OwnerInv(job.owner) /\ job.owner.identity # None
      /\ disk[job.path] \in job.seen
      /\ (~Overlap => ResolutionOf[job.owner.recording] = sdk)
  BY <1>3 DEF Holding, OpenInv
<1> DEFINE o == IF Reuses(job.owner, id) THEN job.owner ELSE None
           j == [job EXCEPT !.step = "reset", !.owner = o]
<1>5. o = None \/ (o = job.owner /\ job.owner.identity = disk[job.path])
  <2>1. id = disk[job.path] \/ id = None
    BY <1>1 DEF ContentIdentity
  <2>2. CASE Reuses(job.owner, id)
    BY <1>4, <2>1, <2>2 DEF Reuses
  <2>3. CASE ~Reuses(job.owner, id)
    BY <2>3
  <2> QED BY <2>2, <2>3
<1>6. job' = j
  BY <1>1, <1>3 DEF Job
<1> HIDE DEF o
<1>7. /\ j \in Job /\ j.kind = "open" /\ j.reader = job.reader /\ j.path = job.path
      /\ j.step = "reset" /\ j.owner = o /\ j.seen = job.seen
  <2>1. o \in Optional(Owner)
    BY <1>4, <1>5 DEF Optional
  <2> QED BY <1>3, <2>1 DEF Job
<1> HIDE DEF j
<1>8. Holding(j) => j.owner \in Owner
  BY <1>4, <1>5, <1>7 DEF Holding
<1>9. OpenInv(j, disk, sdk)
  <2>1. Holding(j) => \E d \in j.seen : d.recording = j.owner.recording
    BY <1>4, <1>5, <1>7 DEF Holding, OwnerInv
  <2>2. Holding(j) => OwnerInv(j.owner) /\ (~Overlap => ResolutionOf[j.owner.recording] = sdk)
    BY <1>4, <1>5, <1>7 DEF Holding
  <2> QED BY <1>3, <1>7, <2>1, <2>2 DEF OpenInv
<1>10. /\ j.step \in OpenSteps /\ files' \in [Readers -> Optional(File)]
       /\ files'[j.reader] \in Optional(File)
       /\ sdk' \in Optional(Resolutions) /\ resolution' \in Optional(Resolutions)
       /\ \A x \in Readers : ReaderInv(files'[x], callers[x], disk, sdk', resolution')
       /\ j.step \in {"hash", "reset"} /\ OpenInv(j, disk, sdk')
  BY <1>2, <1>3, <1>7, <1>9, InvFacts DEF OpenSteps
<1> QED BY <1>2, <1>6, <1>7, <1>8, <1>10, OpenGoesOn

LEMMA OpenResetStep ==
    ASSUME Inv, OpenReset
    PROVE  Inv'
<1> DEFINE st == IF job.owner = None THEN "stat" ELSE "import"
           j == [job EXCEPT !.step = st]
<1>1. /\ Opening("reset") /\ "reset" \in OpenSteps /\ sdk' = sdk /\ resolution' = None
      /\ files' = Suspended /\ job' = j /\ UNCHANGED <<disk, rewrites, idle, callers>>
  BY DEF OpenReset, OpenSteps
<1>2. /\ job \in Job /\ job.kind = "open" /\ job.step = "reset" /\ job.reader \in Readers
      /\ job.path \in Paths /\ OpenInv(job, disk, sdk) /\ idle = None
      /\ Holding(job) => job.owner \in Owner
  BY <1>1, OpeningFacts
<1>3. /\ j \in Job /\ j.kind = "open" /\ j.reader = job.reader /\ j.path = job.path
      /\ j.owner = job.owner /\ j.seen = job.seen /\ j.step = st
      /\ st \in {"stat", "import"} /\ (st = "import" => job.owner # None)
  BY <1>2 DEF Job
<1> HIDE DEF j, st
<1>4. Holding(j) => Holding(job) /\ j.owner \in Owner
  BY <1>2, <1>3 DEF Holding
<1>5. OpenInv(j, disk, sdk)
  BY <1>2, <1>3, <1>4 DEF OpenInv
<1>6. /\ j.step \in OpenSteps /\ files' \in [Readers -> Optional(File)]
      /\ files'[j.reader] \in Optional(File)
      /\ \A x \in Readers : ReaderInv(files'[x], callers[x], disk, sdk', resolution')
      /\ \A x \in Readers : files'[x] # None => files'[x].native = None
  BY <1>1, <1>2, <1>3, SuspendedHolds DEF OpenSteps
<1>7. sdk' \in Optional(Resolutions) /\ resolution' \in Optional(Resolutions)
      /\ OpenInv(j, disk, sdk')
  BY <1>1, <1>5, InvFacts DEF Optional
<1> QED BY <1>1, <1>3, <1>4, <1>6, <1>7, OpenGoesOn

LEMMA OpenStatStep ==
    ASSUME Inv, OpenStat
    PROVE  Inv'
<1> DEFINE j == [job EXCEPT !.step = "native", !.before = disk[job.path].stamp]
<1>1. /\ Opening("stat") /\ "stat" \in OpenSteps /\ sdk' = sdk /\ resolution' = resolution
      /\ files' = files /\ job' = j /\ UNCHANGED <<disk, rewrites, idle, callers>>
  BY DEF OpenStat, OpenSteps
<1>2. /\ job \in Job /\ job.kind = "open" /\ job.step = "stat" /\ job.reader \in Readers
      /\ job.path \in Paths /\ OpenInv(job, disk, sdk) /\ disk[job.path] \in OnDisk
      /\ \A r \in Readers : files[r] # None => files[r].native = None
  BY <1>1, OpeningFacts
<1>3. /\ j \in Job /\ j.kind = "open" /\ j.reader = job.reader /\ j.path = job.path
      /\ j.seen = job.seen /\ j.step = "native" /\ j.before = disk[job.path].stamp
  BY <1>2 DEF Job, OnDisk, Optional
<1> HIDE DEF j
<1>4. ~Holding(j)
  BY <1>3 DEF Holding
<1>5. OpenInv(j, disk, sdk)
  BY <1>2, <1>3, <1>4 DEF OpenInv
<1>6. /\ j.step \in OpenSteps /\ files' \in [Readers -> Optional(File)]
      /\ files'[j.reader] \in Optional(File)
      /\ sdk' \in Optional(Resolutions) /\ resolution' \in Optional(Resolutions)
      /\ \A x \in Readers : ReaderInv(files'[x], callers[x], disk, sdk', resolution')
      /\ \A x \in Readers : files'[x] # None => files'[x].native = None
      /\ OpenInv(j, disk, sdk')
  BY <1>1, <1>2, <1>3, <1>5, InvFacts DEF OpenSteps
<1> QED BY <1>1, <1>3, <1>4, <1>6, OpenGoesOn

LEMMA NewOwnerFacts ==
    ASSUME NEW c \in Recordings, NEW id \in Optional(OnDisk)
    PROVE  /\ NewOwner(c, id) \in Owner /\ NewOwner(c, id).recording = c
           /\ NewOwner(c, id).identity = id /\ ~NewOwner(c, id).failed
           /\ NewOwner(c, id).scan = None /\ NewOwner(c, id).reusable
BY DEF NewOwner, Owner, Optional

LEMMA OpenNativeStep ==
    ASSUME Inv, OpenNative
    PROVE  Inv'
<1> DEFINE c == disk[job.path].recording
           o == NewOwner(c, None)
           j == [job EXCEPT !.step = "identity", !.owner = o]
<1>1. /\ Opening("native") /\ "native" \in OpenSteps /\ sdk' = ResolutionOf[c]
      /\ resolution' = resolution /\ files' = files /\ job' = j
      /\ UNCHANGED <<disk, rewrites, idle, callers>>
  BY DEF OpenNative, OpenSteps, HeaderRead
<1>2. /\ job \in Job /\ job.kind = "open" /\ job.step = "native" /\ job.reader \in Readers
      /\ job.path \in Paths /\ OpenInv(job, disk, sdk) /\ disk[job.path] \in OnDisk
      /\ \A r \in Readers : \A i, s :
            /\ files[r] # None => files[r].native = None
            /\ ReaderInv(files[r], callers[r], disk, i, s)
  BY <1>1, OpeningFacts
<1>3. c \in Recordings /\ ResolutionOf[c] \in Optional(Resolutions)
  BY <1>2 DEF OnDisk, Optional, Resolutions
<1>4. o \in Owner /\ o.recording = c /\ o.identity = None /\ ~o.failed
  BY <1>3, NewOwnerFacts DEF Optional
<1> HIDE DEF o
<1>5. /\ j \in Job /\ j.kind = "open" /\ j.reader = job.reader /\ j.path = job.path
      /\ j.seen = job.seen /\ j.step = "identity" /\ j.before = job.before /\ j.owner = o
  BY <1>2, <1>4 DEF Job, Optional
<1> HIDE DEF j
<1>6. OpenInv(j, disk, sdk')
  BY <1>1, <1>2, <1>4, <1>5 DEF OpenInv, OwnerInv
<1>7. /\ j.step \in OpenSteps /\ files' \in [Readers -> Optional(File)]
      /\ files'[j.reader] \in Optional(File)
      /\ sdk' \in Optional(Resolutions) /\ resolution' \in Optional(Resolutions)
      /\ \A x \in Readers : ReaderInv(files'[x], callers[x], disk, sdk', resolution')
      /\ \A x \in Readers : files'[x] # None => files'[x].native = None
      /\ j.owner \in Owner
  BY <1>1, <1>2, <1>3, <1>4, <1>5, InvFacts DEF OpenSteps
<1> QED BY <1>1, <1>5, <1>6, <1>7, OpenGoesOn

LEMMA OpenNativeFailsStep ==
    ASSUME Inv, OpenNativeFails
    PROVE  Inv'
<1>1. /\ Opening("native") /\ "native" \in OpenSteps \ {"hash", "reset"}
      /\ Reply(job.reader, Closed) /\ sdk' \in HeaderFailed(job.path)
      /\ resolution' = resolution /\ UNCHANGED <<disk, rewrites, files, idle>>
  BY DEF OpenNativeFails, OpenSteps
<1>2. disk[job.path] \in OnDisk
  BY <1>1, OpeningFacts
<1>3. sdk' \in Optional(Resolutions) /\ resolution' \in Optional(Resolutions)
  BY <1>1, <1>2, InvFacts DEF HeaderFailed, HeaderRead, OnDisk, Optional, Resolutions
<1> QED BY <1>1, <1>3, OpenGivesUp

LEMMA OpenIdentityStep ==
    ASSUME Inv, OpenIdentity
    PROVE  Inv'
<1>1. PICK id \in ContentIdentity(job.path) :
         job' = [job EXCEPT !.step = "import",
                            !.owner.identity = IdentityOf(job.before, id)]
  BY DEF OpenIdentity
<1>2. /\ Opening("identity") /\ "identity" \in OpenSteps /\ sdk' = sdk
      /\ resolution' = resolution /\ files' = files
      /\ UNCHANGED <<disk, rewrites, idle, callers>>
  BY DEF OpenIdentity, OpenSteps
<1>3. /\ job \in Job /\ job.kind = "open" /\ job.step = "identity" /\ job.reader \in Readers
      /\ job.path \in Paths /\ OpenInv(job, disk, sdk) /\ disk[job.path] \in OnDisk
      /\ Holding(job) => job.owner \in Owner
      /\ \A r \in Readers : files[r] # None => files[r].native = None
  BY <1>2, OpeningFacts
<1>4. Holding(job) /\ job.owner \in Owner /\ OwnerInv(job.owner)
      /\ (\E d \in job.seen : d.recording = job.owner.recording)
      /\ (~Overlap => ResolutionOf[job.owner.recording] = sdk)
  BY <1>3 DEF Holding, OpenInv
<1> DEFINE known == IdentityOf(job.before, id)
           o == [job.owner EXCEPT !.identity = known]
           j == [job EXCEPT !.step = "import", !.owner = o]
<1>5. known \in Optional(OnDisk) /\ (known # None => known.recording = job.owner.recording)
  <2>1. id = disk[job.path] \/ id = None
    BY <1>1 DEF ContentIdentity
  <2>2. CASE id # None /\ job.before = id.stamp
    <3>1. known = disk[job.path] /\ disk[job.path].stamp = job.before
      BY <2>1, <2>2 DEF IdentityOf
    <3>2. job.owner.recording = disk[job.path].recording
      BY <1>3, <3>1 DEF OpenInv
    <3> QED BY <1>3, <3>1, <3>2 DEF Optional
  <2>3. CASE ~(id # None /\ job.before = id.stamp)
    BY <2>3 DEF IdentityOf, Optional
  <2> QED BY <2>2, <2>3
<1>6. job' = j
  BY <1>1, <1>3 DEF Job
<1> HIDE DEF known
<1>7. /\ o \in Owner /\ o.recording = job.owner.recording /\ o.identity = known
      /\ o.reusable = job.owner.reusable /\ o.failed = job.owner.failed
  BY <1>4, <1>5 DEF Owner
<1> HIDE DEF o
<1>8. /\ j \in Job /\ j.kind = "open" /\ j.reader = job.reader /\ j.path = job.path
      /\ j.seen = job.seen /\ j.step = "import" /\ j.owner = o
  BY <1>3, <1>7 DEF Job, Optional
<1> HIDE DEF j
<1>9. OpenInv(j, disk, sdk')
  <2>1. OwnerInv(o)
    BY <1>4, <1>5, <1>7 DEF OwnerInv
  <2>2. \E d \in j.seen : d.recording = j.owner.recording
    BY <1>4, <1>7, <1>8
  <2> QED BY <1>2, <1>3, <1>4, <1>7, <1>8, <2>1, <2>2 DEF OpenInv
<1>10. /\ j.step \in OpenSteps /\ files' \in [Readers -> Optional(File)]
       /\ files'[j.reader] \in Optional(File)
       /\ sdk' \in Optional(Resolutions) /\ resolution' \in Optional(Resolutions)
       /\ \A x \in Readers : ReaderInv(files'[x], callers[x], disk, sdk', resolution')
       /\ \A x \in Readers : files'[x] # None => files'[x].native = None
       /\ j.owner \in Owner
  BY <1>2, <1>3, <1>7, <1>8, InvFacts DEF OpenSteps
<1> QED BY <1>2, <1>6, <1>8, <1>9, <1>10, OpenGoesOn

LEMMA OpenImportStep ==
    ASSUME Inv, OpenImport
    PROVE  Inv'
<1> DEFINE r == job.reader
           c == job.owner.recording
           f == [path |-> job.path, recording |-> c, resolution |-> ResolutionOf[c],
                 native |-> job.owner, query |-> None]
           k == [Closed EXCEPT !.pc = "opened"]
<1>1. /\ Opening("import") /\ "import" \in OpenSteps /\ sdk' = sdk
      /\ resolution' = ResolutionOf[c] /\ files' = [files EXCEPT ![r] = f]
      /\ job' = None /\ callers' = [callers EXCEPT ![r] = k]
      /\ disk' = disk /\ rewrites' = rewrites /\ idle' = idle
  BY DEF OpenImport, OpenSteps, Reply
<1>2. /\ job \in Job /\ job.kind = "open" /\ job.step = "import" /\ r \in Readers
      /\ job.path \in Paths /\ OpenInv(job, disk, sdk) /\ idle = None
      /\ Holding(job) => job.owner \in Owner
      /\ \A x \in Readers : ReaderInv(files[x], callers[x], disk, sdk', resolution')
  BY <1>1, OpeningFacts
<1>3. job.owner \in Owner /\ OwnerInv(job.owner)
      /\ (\E d \in job.seen : d.recording = job.owner.recording)
      /\ (~Overlap => ResolutionOf[job.owner.recording] = sdk)
      /\ (~Overlap => job.seen = {disk[job.path]})
  BY <1>2 DEF Holding, OpenInv
<1>4. c \in Recordings /\ ResolutionOf[c] \in Resolutions
  BY <1>3 DEF Owner, Resolutions
<1>5. /\ f \in File /\ f.path = job.path /\ f.recording = c /\ f.resolution = ResolutionOf[c]
      /\ f.native = job.owner /\ f.query = None
  BY <1>2, <1>3, <1>4 DEF File, Optional
<1>6. k \in Caller /\ k.pc = "opened" /\ k.window = None /\ k.batch = None /\ ~k.complete
  BY ClosedFacts DEF Closed, Caller
<1> HIDE DEF f, k, r
<1>7. ReaderInv(f, k, disk, sdk', resolution')
  <2>1. ReaderShape(f, k) /\ TraversalInv(f, k, disk)
    BY <1>5, <1>6, NoneAssumption DEF ReaderShape, TraversalInv
  <2>2. FileInv(f, disk)
    BY <1>3, <1>5 DEF FileInv
  <2>3. Agrees(f, disk, sdk', resolution')
    BY <1>1, <1>3, <1>5 DEF Agrees
  <2> QED BY <2>1, <2>2, <2>3 DEF ReaderInv
<1>8. /\ IdleInv(idle', files', sdk') /\ None \in Optional(Job) /\ idle' \in Optional(Idle)
      /\ f \in Optional(File) /\ resolution' \in Optional(Resolutions)
  BY <1>1, <1>2, <1>4, <1>5 DEF IdleInv, Optional
<1> HIDE DEF c
<1> QED BY <1>1, <1>2, <1>6, <1>7, <1>8, InvFacts, ReaderStep

LEMMA OpenImportFailsStep ==
    ASSUME Inv, OpenImportFails
    PROVE  Inv'
<1>1. /\ Opening("import") /\ "import" \in OpenSteps \ {"hash", "reset"}
      /\ Reply(job.reader, Closed) /\ sdk' = sdk
      /\ resolution' = ResolutionOf[job.owner.recording]
      /\ UNCHANGED <<disk, rewrites, files, idle>>
  BY DEF OpenImportFails, OpenSteps
<1>2. job.owner \in Owner
  BY <1>1, OpeningFacts DEF Holding
<1>3. sdk' \in Optional(Resolutions) /\ resolution' \in Optional(Resolutions)
  BY <1>1, <1>2, InvFacts DEF Owner, Optional, Resolutions
<1> QED BY <1>1, <1>3, OpenGivesUp

-----------------------------------------------------------------------------
(* The steps of a job for a file: finding its owner. *)

\* The files that are left with an owner agree with what a reopened file
\* selects, or with what is selected if its header cannot be read.
LEMMA SelectedHolds ==
    ASSUME Inv, NEW r \in Readers, files[r] \in File,
           NEW i \in {sdk, ResolutionOf[disk[files[r].path].recording]}
    PROVE  /\ Selected(r) \in [Readers -> Optional(File)]
           /\ \A x \in Readers :
                 ReaderInv(Selected(r)[x], callers[x], disk, i, files[r].resolution)
           /\ Selected(r)[r] \in File
           /\ Selected(r)[r] = files[r] \/ Selected(r)[r] = [files[r] EXCEPT !.native = None]
           /\ Selected(r)[r].native # None =>
                 Selected(r) = files /\ resolution = files[r].resolution
<1>1. CASE resolution # files[r].resolution
  <2>1. Selected(r) = Suspended
    BY <1>1 DEF Selected
  <2>2. files[r] # None
    BY NoneAssumption
  <2>3. /\ Suspended \in [Readers -> Optional(File)]
        /\ Suspended[r] # None
        /\ Suspended[r] = [files[r] EXCEPT !.native = None] /\ Suspended[r].native = None
    BY <2>2, SuspendedHolds
  <2>4. Suspended[r] \in File
    BY <2>3 DEF Optional
  <2>5. \A x \in Readers : ReaderInv(Suspended[x], callers[x], disk, i, files[r].resolution)
    BY SuspendedHolds
  <2> QED BY <2>1, <2>3, <2>4, <2>5
<1>2. CASE resolution = files[r].resolution
  <2>1. Selected(r) = files
    BY <1>2 DEF Selected
  <2>2. ASSUME NEW x \in Readers
        PROVE  ReaderInv(files[x], callers[x], disk, i, files[r].resolution)
    <3>1. ReaderInv(files[x], callers[x], disk, sdk, resolution)
          /\ Agrees(files[x], disk, sdk, resolution) /\ Agrees(files[r], disk, sdk, resolution)
          /\ FileInv(files[r], disk) /\ files[r] # None
      BY InvFacts, NoneAssumption
    <3>2. Agrees(files[x], disk, i, resolution)
      BY <1>2, <3>1 DEF Agrees, FileInv
    <3> QED BY <1>2, <3>1, <3>2 DEF ReaderInv
  <2> QED BY <1>2, <2>1, <2>2, InvFacts
<1> QED BY <1>1, <1>2

LEMMA RunningFacts ==
    ASSUME Inv, NEW step, Running(step)
    PROVE  LET f == files[job.reader]
               k == callers[job.reader]
           IN /\ job \in Job /\ job.reader \in Readers
              /\ job.kind \in {"begin", "sample", "next"} /\ job.step = step
              /\ f \in File /\ f # None /\ idle = None /\ f.native \in Optional(Owner)
              /\ k \in Caller /\ k.pc = "waiting" /\ k.batch = None
              /\ JobShape(job, f, k) /\ JobTraversalInv(job, f, k, disk)
              /\ ReaderShape(f, k) /\ FileInv(f, disk) /\ Agrees(f, disk, sdk, resolution)
              /\ TraversalInv(f, k, disk) /\ disk[f.path] \in OnDisk
<1> DEFINE f == files[job.reader]
           k == callers[job.reader]
<1>1. job # None /\ job.kind # "open" /\ job.step = step
  BY DEF Running
<1>2. job \in Job /\ job.reader \in Readers /\ job.kind \in {"begin", "sample", "next"}
  BY <1>1, InvFacts DEF Job
<1>3. JobShape(job, f, k) /\ JobTraversalInv(job, f, k, disk)
  BY <1>1 DEF Inv, JobInv
<1>4. f # None /\ k.pc = "waiting"
  BY <1>1, <1>3 DEF JobShape
<1>5. f \in File /\ idle = None
  BY <1>2, <1>4, InvFacts
<1>6. f.native \in Optional(Owner) /\ disk[f.path] \in OnDisk
  BY <1>5, InvFacts DEF File
<1>7. /\ k \in Caller /\ ReaderShape(f, k) /\ FileInv(f, disk)
      /\ Agrees(f, disk, sdk, resolution) /\ TraversalInv(f, k, disk)
  BY <1>2, InvFacts
<1>8. k.batch = None
  BY <1>4, <1>7 DEF ReaderShape
<1> QED BY <1>1, <1>2, <1>3, <1>4, <1>5, <1>6, <1>7, <1>8

\* A job goes on with file g for its reader.
LEMMA JobGoesOn ==
    ASSUME Inv, NEW step, Running(step), NEW fs \in [Readers -> Optional(File)],
           NEW g \in File, files' = [fs EXCEPT ![job.reader] = g],
           NEW j \in Job, job' = j, j.reader = job.reader, j.kind = job.kind, j.step = "run",
           g.native # None, job.kind = "next" => g.query # None,
           g.query # None => g.native.scan \in Scan,
           g.path = files[job.reader].path, g.recording = files[job.reader].recording,
           FileInv(g, disk), Agrees(g, disk, sdk', resolution'),
           JobTraversalInv(j, g, callers[job.reader], disk),
           \A x \in Readers \ {job.reader} :
              ReaderInv(fs[x], callers[x], disk, sdk', resolution'),
           sdk' \in Optional(Resolutions), resolution' \in Optional(Resolutions),
           idle' = None, UNCHANGED <<disk, rewrites, callers>>
    PROVE  Inv'
<1> DEFINE r == job.reader
           f == files[r]
           k == callers[r]
<1>1. /\ r \in Readers /\ f \in File /\ f # None /\ k \in Caller /\ k.pc = "waiting"
      /\ k.batch = None /\ JobShape(job, f, k) /\ ReaderShape(f, k) /\ TraversalInv(f, k, disk)
      /\ job.kind \in {"begin", "sample", "next"}
  BY RunningFacts
<1>2. g # None /\ g \in Optional(File) /\ f \in Optional(File) /\ j \in Optional(Job)
      /\ None \in Optional(Idle)
  BY <1>1, NoneAssumption DEF Optional
<1>3. ReaderShape(g, k) /\ TraversalInv(g, k, disk)
  <2>1. k.pc \notin {"asking", "visiting"} /\ k.pc \notin Live
    BY <1>1 DEF Live
  <2> HIDE DEF k, f
  <2> QED BY <1>1, <1>2, <2>1, Resting DEF f
<1>4. ReaderInv(g, k, disk, sdk', resolution')
  BY <1>3 DEF ReaderInv
<1>5. callers' = [callers EXCEPT ![r] = k] /\ files'[r] = g
  BY <1>1, InvFacts
<1>6. JobShape(j, g, k)
  BY <1>1, <1>2 DEF JobShape
<1>7. JobInv(j, files', callers', disk, sdk')
  BY <1>1, <1>5, <1>6 DEF JobInv
<1>8. IdleInv(idle', files', sdk')
  BY DEF IdleInv
<1>9. job'.kind # "open" /\ job' \in Optional(Job) /\ disk' = disk /\ rewrites' = rewrites
      /\ idle' \in Optional(Idle) /\ JobInv(job', files', callers', disk, sdk')
  BY <1>1, <1>2, <1>7
<1> HIDE DEF r, f, k
<1>10. files' = [fs EXCEPT ![r] = g]
       /\ \A x \in Readers \ {r} : ReaderInv(fs[x], callers[x], disk, sdk', resolution')
  BY DEF r
<1> QED BY <1>1, <1>2, <1>4, <1>5, <1>8, <1>9, <1>10, ReaderStep

\* A job answers its reader and leaves it with file g.
LEMMA JobAnswers ==
    ASSUME Inv, NEW step, Running(step), NEW fs \in [Readers -> Optional(File)],
           NEW g \in File, files' = [fs EXCEPT ![job.reader] = g],
           NEW l \in Caller, Reply(job.reader, l),
           ReaderInv(g, l, disk, sdk', resolution'),
           \A x \in Readers \ {job.reader} :
              ReaderInv(fs[x], callers[x], disk, sdk', resolution'),
           sdk' \in Optional(Resolutions), resolution' \in Optional(Resolutions),
           idle' = None, UNCHANGED <<disk, rewrites>>
    PROVE  Inv'
<1> DEFINE r == job.reader
<1>1. r \in Readers /\ g \in Optional(File) /\ None \in Optional(Job) /\ idle' \in Optional(Idle)
  BY RunningFacts DEF Optional
<1>2. job' = None /\ callers' = [callers EXCEPT ![r] = l] /\ IdleInv(idle', files', sdk')
  BY DEF Reply, IdleInv
<1>3. /\ files' = [fs EXCEPT ![r] = g] /\ disk' = disk /\ rewrites' = rewrites
      /\ \A x \in Readers \ {r} : ReaderInv(fs[x], callers[x], disk, sdk', resolution')
  OBVIOUS
<1> HIDE DEF r
<1> QED BY <1>1, <1>2, <1>3, ReaderStep

LEMMA FileKeptStep ==
    ASSUME Inv, FileKept
    PROVE  Inv'
<1> DEFINE r == job.reader
           f == files[r]
           k == callers[r]
           j == [job EXCEPT !.step = "run"]
<1>1. /\ Running("file") /\ Selected(r)[r].native # None /\ SelectResolution(r)
      /\ files' = Selected(r) /\ job' = j /\ UNCHANGED <<disk, rewrites, sdk, callers>>
  BY DEF FileKept
<1>2. /\ job \in Job /\ r \in Readers /\ f \in File /\ f # None /\ idle = None
      /\ JobShape(job, f, k) /\ JobTraversalInv(job, f, k, disk) /\ ReaderShape(f, k)
      /\ FileInv(f, disk) /\ Agrees(f, disk, sdk, resolution) /\ job.kind # "open"
  BY <1>1, RunningFacts
<1>3. Selected(r) = files /\ resolution = f.resolution /\ f.native # None
  BY <1>1, <1>2, SelectedHolds
<1>4. resolution' = resolution /\ idle' = None /\ sdk' = sdk
  BY <1>1, <1>2, <1>3 DEF SelectResolution
<1>5. /\ j \in Job /\ j.reader = job.reader /\ j.kind = job.kind /\ j.step = "run"
      /\ j.records = job.records
  BY <1>2 DEF Job
<1> HIDE DEF j
<1>6. JobTraversalInv(j, f, k, disk)
  BY <1>2, <1>5 DEF JobTraversalInv
<1>7. /\ job.kind = "next" => f.query # None
      /\ f.query # None => f.native.scan \in Scan
  BY <1>2, <1>3 DEF JobShape, ReaderShape
<1>8. /\ files \in [Readers -> Optional(File)] /\ files' = [files EXCEPT ![r] = f]
      /\ \A x \in Readers \ {r} : ReaderInv(files[x], callers[x], disk, sdk', resolution')
      /\ sdk' \in Optional(Resolutions) /\ resolution' \in Optional(Resolutions)
      /\ Agrees(f, disk, sdk', resolution')
  BY <1>1, <1>2, <1>3, <1>4, InvFacts
<1> QED BY <1>1, <1>2, <1>3, <1>4, <1>5, <1>6, <1>7, <1>8, JobGoesOn

\* A query that is started again has a scan of its range.
LEMMA ResumedFacts ==
    ASSUME NEW o \in Owner, NEW q \in Optional(Query)
    PROVE  /\ Resumed(o, q) \in Owner /\ Resumed(o, q).recording = o.recording
           /\ Resumed(o, q).identity = o.identity /\ Resumed(o, q).reusable = o.reusable
           /\ Resumed(o, q).failed = o.failed
           /\ q # None => Resumed(o, q).scan \in Scan /\ Resumed(o, q) = BeginNative(o, q)
<1>1. CASE q = None
  BY <1>1 DEF Resumed
<1>2. CASE q # None
  <2> DEFINE s == [from |-> q.from, to |-> q.to, buffer |-> <<>>, quota |-> FirstBatch,
                   finished |-> q.from > LastTick(o.recording), broken |-> FALSE]
  <2>1. q \in Query
    BY <1>2 DEF Optional
  <2>2. s \in Scan
    <3>1. FirstBatch \in Nat /\ <<>> \in Seq(Record) /\ q.from \in Nat /\ q.to \in Nat
          /\ (q.from > LastTick(o.recording)) \in BOOLEAN
      BY <2>1, WlfAssumption DEF Query
    <3> QED BY <3>1 DEF Scan
  <2>3. Resumed(o, q) = [o EXCEPT !.scan = s] /\ Resumed(o, q) = BeginNative(o, q)
    BY <1>2 DEF Resumed, BeginNative
  <2> HIDE DEF s
  <2>4. /\ [o EXCEPT !.scan = s] \in Owner /\ [o EXCEPT !.scan = s].scan = s
        /\ [o EXCEPT !.scan = s].recording = o.recording
        /\ [o EXCEPT !.scan = s].identity = o.identity
        /\ [o EXCEPT !.scan = s].reusable = o.reusable
        /\ [o EXCEPT !.scan = s].failed = o.failed
    BY <2>2 DEF Owner, Optional
  <2> QED BY <2>2, <2>3, <2>4
<1> QED BY <1>1, <1>2

LEMMA FileReopenedStep ==
    ASSUME Inv, FileReopened
    PROVE  Inv'
<1> DEFINE r == job.reader
           f == files[r]
           k == callers[r]
           j == [job EXCEPT !.step = "run"]
           p == f.path
           c == disk[p].recording
<1>1. /\ Running("file") /\ Selected(r)[r].native = None /\ SelectResolution(r)
      /\ sdk' = ResolutionOf[c] /\ job' = j /\ UNCHANGED <<disk, rewrites, callers>>
  BY DEF FileReopened, HeaderRead
<1>2. PICK id \in ContentIdentity(p) :
         files' = [Selected(r) EXCEPT ![r].native =
                      Resumed(NewOwner(c, IdentityOf(disk[p].stamp, id)), f.query)]
  BY DEF FileReopened
<1>3. /\ job \in Job /\ r \in Readers /\ f \in File /\ f # None /\ idle = None
      /\ JobShape(job, f, k) /\ JobTraversalInv(job, f, k, disk) /\ ReaderShape(f, k)
      /\ FileInv(f, disk) /\ Agrees(f, disk, sdk, resolution) /\ job.kind # "open"
      /\ disk[p] \in OnDisk /\ k \in Caller
  BY <1>1, RunningFacts
<1>4. /\ Selected(r) \in [Readers -> Optional(File)] /\ Selected(r)[r] \in File
      /\ Selected(r)[r] = f \/ Selected(r)[r] = [f EXCEPT !.native = None]
      /\ \A x \in Readers : ReaderInv(Selected(r)[x], callers[x], disk, sdk', f.resolution)
  BY <1>1, <1>3, SelectedHolds
<1>5. resolution' = f.resolution /\ idle' = None
  BY <1>1, <1>3 DEF SelectResolution
<1> DEFINE known == IdentityOf(disk[p].stamp, id)
           o == NewOwner(c, known)
           n == Resumed(o, f.query)
           g == [Selected(r)[r] EXCEPT !.native = n]
<1>6. known \in Optional(OnDisk) /\ (known # None => known.recording = c)
  <2>1. id = disk[p] \/ id = None
    BY <1>2 DEF ContentIdentity
  <2> QED BY <1>3, <2>1 DEF IdentityOf, Optional
<1>7. c \in Recordings /\ ResolutionOf[c] \in Resolutions
  BY <1>3 DEF OnDisk, Resolutions
<1> HIDE DEF known
<1>8. /\ o \in Owner /\ o.recording = c /\ o.identity = known /\ ~o.failed
  BY <1>6, <1>7, NewOwnerFacts
<1>9. f.query \in Optional(Query)
  BY <1>3 DEF File
<1> HIDE DEF o
<1>10. /\ n \in Owner /\ n.recording = c /\ n.identity = known /\ ~n.failed
       /\ f.query # None => n.scan \in Scan /\ n = BeginNative(o, f.query)
  BY <1>8, <1>9, ResumedFacts
<1>11. files' = [Selected(r) EXCEPT ![r] = g]
  BY <1>2, <1>3, <1>4 DEF o, known
<1> HIDE DEF n
<1>12. /\ g \in File /\ g.path = f.path /\ g.recording = f.recording
       /\ g.resolution = f.resolution /\ g.query = f.query /\ g.native = n
  <2>1. /\ Selected(r)[r].path = f.path /\ Selected(r)[r].recording = f.recording
        /\ Selected(r)[r].resolution = f.resolution /\ Selected(r)[r].query = f.query
    BY <1>3, <1>4 DEF File
  <2> QED BY <1>4, <1>10, <2>1 DEF File, Optional
<1>13. /\ j \in Job /\ j.reader = job.reader /\ j.kind = job.kind /\ j.step = "run"
       /\ j.records = job.records
  BY <1>3 DEF Job
<1> HIDE DEF j, g
<1>14. g.native # None /\ (job.kind = "next" => g.query # None)
       /\ (g.query # None => g.native.scan \in Scan)
  BY <1>3, <1>10, <1>12, NoneAssumption DEF JobShape
<1>15. FileInv(g, disk)
  BY <1>3, <1>6, <1>10, <1>12 DEF FileInv, OwnerInv
<1>16. Agrees(g, disk, sdk', resolution')
  BY <1>1, <1>3, <1>5, <1>10, <1>12 DEF Agrees, FileInv
<1>17. JobTraversalInv(j, g, k, disk)
  <2>1. ASSUME job.kind = "next", c = f.recording
        PROVE  LET q == Reached(g, k) + Len(j.records)
               IN /\ Covers(g.recording, k.window, j.records, Reached(g, k), q)
                  /\ Asked(g, k.window, q)
    <3> DEFINE q == Reached(f, k) + Len(job.records)
               w == k.window
    <3>1. Covers(c, w, job.records, Reached(f, k), q) /\ Asked(f, w, q)
      BY <1>3, <2>1 DEF JobTraversalInv
    <3>2. Reached(g, k) = Reached(f, k) /\ Reached(g, k) + Len(j.records) = q
      BY <1>12, <1>13 DEF Reached
    <3>3. RangeOf(w) /\ Len(k.got) \in Nat /\ Len(job.records) \in Nat
      BY <1>3, <2>1, CallerRange DEF JobShape, Caller, Job
    <3>4. Start(c, w) \in Nat /\ q \in Nat /\ q >= Start(c, w)
      <4>1. Start(c, w) \in 1..(Len(History[c]) + 1) /\ Len(History[c]) \in Nat
        BY <1>7, <3>3, RangeFacts, HistoryFacts DEF RangeOf
      <4>2. q = (Start(c, w) + Len(k.got)) + Len(job.records)
        BY <2>1 DEF Reached
      <4>3. \A x, y, z \in Nat : (x + y) + z \in Nat /\ (x + y) + z >= x
        OBVIOUS
      <4>4. Start(c, w) \in Nat
        BY <4>1
      <4> HIDE DEF q, w, c, k
      <4> QED BY <3>3, <4>2, <4>3, <4>4, Zenon
    <3> HIDE DEF q
    <3>5. f.query # None /\ f.query.from = w.from /\ f.query.to = w.to
      BY <3>1 DEF Asked
    <3>6. ScanAt(c, w, n.scan, q)
      <4>1. ScanAt(o.recording, w, BeginNative(o, f.query).scan, q)
        <5> DEFINE v == f.query
        <5>1. v.from = w.from /\ v.to = w.to
          BY <3>5
        <5>2. q \in Nat /\ q >= Start(o.recording, w)
          BY <1>8, <3>4
        <5> HIDE DEF v, w
        <5>3. ScanAt(o.recording, w, BeginNative(o, v).scan, q)
          BY <1>8, <3>3, <5>1, <5>2, BeginHolds
        <5> QED BY <5>3 DEF v, w
      <4> QED BY <1>8, <1>10, <3>5, <4>1
    <3>7. Asked(g, w, q)
      BY <1>12, <2>1, <3>1, <3>6 DEF Asked
    <3> QED BY <1>12, <1>13, <2>1, <3>1, <3>2, <3>7
  <2> QED BY <1>3, <1>12, <1>13, <2>1 DEF JobTraversalInv
<1>18. /\ sdk' \in Optional(Resolutions) /\ resolution' \in Optional(Resolutions)
       /\ \A x \in Readers \ {r} :
             ReaderInv(Selected(r)[x], callers[x], disk, sdk', resolution')
  BY <1>1, <1>3, <1>4, <1>5, <1>7 DEF Optional, File
<1> QED BY <1>1, <1>4, <1>5, <1>11, <1>12, <1>13, <1>14, <1>15, <1>16, <1>17, <1>18, JobGoesOn

LEMMA FileFailsStep ==
    ASSUME Inv, FileFails
    PROVE  Inv'
<1> DEFINE r == job.reader
           f == files[r]
           k == callers[r]
           l == Abandon(r)
           g == Selected(r)[r]
<1>1. /\ Running("file") /\ SelectResolution(r) /\ sdk' \in HeaderFailed(f.path)
      /\ files' = Selected(r) /\ Reply(r, l) /\ UNCHANGED <<disk, rewrites>>
  BY DEF FileFails
<1>2. /\ r \in Readers /\ f \in File /\ idle = None /\ k \in Caller /\ k.batch = None
      /\ disk[f.path] \in OnDisk
  BY <1>1, RunningFacts
<1>3. resolution' = f.resolution /\ idle' = None
      /\ sdk' \in {sdk, ResolutionOf[disk[f.path].recording]}
  BY <1>1, <1>2 DEF SelectResolution, HeaderFailed, HeaderRead
<1>4. /\ Selected(r) \in [Readers -> Optional(File)] /\ g \in File
      /\ \A x \in Readers : ReaderInv(Selected(r)[x], callers[x], disk, sdk', resolution')
  BY <1>2, <1>3, SelectedHolds
<1>5. files' = [Selected(r) EXCEPT ![r] = g]
  BY <1>1, <1>2, <1>4
<1>6. /\ l \in Caller /\ l.pc \in {"ready", "ending"} /\ l.window = k.window /\ l.got = k.got
      /\ l.complete = k.complete /\ l.batch = None
  BY <1>2 DEF Abandon, Caller
<1> HIDE DEF l, g
<1>7. ReaderInv(g, l, disk, sdk', resolution')
  <2>1. ReaderShape(g, k) /\ FileInv(g, disk) /\ Agrees(g, disk, sdk', resolution')
        /\ TraversalInv(g, k, disk)
    BY <1>2, <1>4 DEF ReaderInv, g
  <2>2. g # None /\ g \in Optional(File)
    BY <1>4, NoneAssumption DEF Optional
  <2>3. g.query # None /\ g.native # None => g.native.scan \in Scan
    BY <2>1, <2>2 DEF ReaderShape
  <2> HIDE DEF k
  <2>4. ReaderShape(g, l) /\ TraversalInv(g, l, disk)
    BY <1>2, <1>6, <2>1, <2>2, <2>3, Resting
  <2> QED BY <2>1, <2>4 DEF ReaderInv
<1>8. sdk' \in Optional(Resolutions) /\ resolution' \in Optional(Resolutions)
  <2>1. ResolutionOf[disk[f.path].recording] \in Resolutions /\ f.resolution \in Resolutions
    BY <1>2 DEF OnDisk, Resolutions, File
  <2> QED BY <1>3, <2>1, InvFacts DEF Optional
<1> QED BY <1>1, <1>3, <1>4, <1>5, <1>6, <1>7, <1>8, JobAnswers

-----------------------------------------------------------------------------
(* The steps of a job for a file: begin and sample_bits. *)

LEMMA FailedFacts ==
    ASSUME NEW o \in Owner
    PROVE  /\ Failed(o) \in Owner /\ Failed(o).scan = o.scan /\ SameOwner(o, Failed(o))
           /\ Failed(o) # None
<1>1. Failed(o) \in Owner /\ Failed(o).scan = o.scan /\ SameOwner(o, Failed(o))
  BY DEF Failed, Taint, Owner, SameOwner
<1> QED BY <1>1, NoneAssumption

\* The other readers and what is selected stay as they are.
LEMMA Unselected ==
    ASSUME Inv, UNCHANGED <<sdk, resolution, idle>>, NEW step, Running(step)
    PROVE  /\ files \in [Readers -> Optional(File)]
           /\ sdk' \in Optional(Resolutions) /\ resolution' \in Optional(Resolutions)
           /\ idle' = None
           /\ \A x \in Readers \ {job.reader} :
                 ReaderInv(files[x], callers[x], disk, sdk', resolution')
BY InvFacts, RunningFacts

\* A job answers with the file's owner, perhaps tainted, and without a query.
LEMMA AnswersWithout ==
    ASSUME Inv, Running("run"), NEW n \in Owner,
           SameOwner(files[job.reader].native, n),
           files' = [files EXCEPT ![job.reader].native = n, ![job.reader].query = None],
           NEW pc \in {"ready", "ending"},
           Reply(job.reader, [callers[job.reader] EXCEPT !.pc = pc]),
           UNCHANGED <<disk, rewrites, sdk, resolution, idle>>
    PROVE  Inv'
<1> DEFINE r == job.reader
           f == files[r]
           k == callers[r]
           l == [k EXCEPT !.pc = pc]
           g == [f EXCEPT !.native = n, !.query = None]
<1>1. /\ r \in Readers /\ f \in File /\ f # None /\ k \in Caller /\ k.batch = None
      /\ ReaderShape(f, k) /\ TraversalInv(f, k, disk) /\ JobShape(job, f, k)
      /\ FileInv(f, disk) /\ Agrees(f, disk, sdk, resolution)
      /\ job.kind # "open" /\ job.step = "run"
  BY RunningFacts
<1>2. f.native # None
  BY <1>1 DEF JobShape
<1>3. files' = [files EXCEPT ![r] = g]
  BY <1>1, InvFacts
<1>4. /\ g \in File /\ g.path = f.path /\ g.recording = f.recording
      /\ g.resolution = f.resolution /\ g.query = None /\ g.native = n
  BY <1>1 DEF File, Optional
<1>5. /\ l \in Caller /\ l.pc = pc /\ l.window = k.window /\ l.got = k.got
      /\ l.complete = k.complete /\ l.batch = None
  BY <1>1 DEF Caller
<1>6. Reply(r, l)
  OBVIOUS
<1> HIDE DEF g, l
<1>7. g # None /\ g \in Optional(File) /\ f \in Optional(File)
  BY <1>1, <1>4, NoneAssumption DEF Optional
<1>8. ReaderShape(g, l) /\ TraversalInv(g, l, disk)
  <2> HIDE DEF k, f
  <2> QED BY <1>1, <1>4, <1>5, <1>7, Resting
<1>9. FileInv(g, disk) /\ Agrees(g, disk, sdk, resolution)
  <2> HIDE DEF f
  <2>1. SameOwner(f.native, n)
    BY DEF f
  <2> QED BY <1>1, <1>2, <1>4, <2>1, OwnerKept
<1>10. ReaderInv(g, l, disk, sdk', resolution')
  BY <1>8, <1>9 DEF ReaderInv
<1> QED BY <1>3, <1>4, <1>5, <1>6, <1>10, Unselected, JobAnswers

LEMMA RunSampleStep ==
    ASSUME Inv, RunSample
    PROVE  Inv'
<1> DEFINE r == job.reader
           o == files[r].native
<1>1. /\ Running("run") /\ Reply(r, [callers[r] EXCEPT !.pc = "ready"])
      /\ UNCHANGED <<disk, rewrites, sdk, resolution, idle>>
  BY DEF RunSample
<1>2. r \in Readers /\ o \in Optional(Owner) /\ o # None
  BY <1>1, RunningFacts DEF JobShape
<1>3. EndNative(o) \in Owner /\ SameOwner(o, EndNative(o))
  BY <1>2, EndNativeFacts DEF Optional
<1>4. Failed(EndNative(o)) \in Owner /\ SameOwner(o, Failed(EndNative(o)))
  BY <1>3, FailedFacts DEF SameOwner
<1>5. PICK n \in {EndNative(o), Failed(EndNative(o))} :
         files' = [files EXCEPT ![r].native = n, ![r].query = None]
  <2>1. files \in [Readers -> Optional(File)]
    BY InvFacts
  <2>2. CASE files' = [files EXCEPT ![r].native = EndNative(@), ![r].query = None]
    BY <1>2, <2>1, <2>2
  <2>3. CASE files' = [files EXCEPT ![r].native = Failed(EndNative(@)), ![r].query = None]
    BY <1>2, <2>1, <2>3
  <2> QED BY <2>2, <2>3 DEF RunSample
<1>6. n \in Owner /\ SameOwner(o, n)
  BY <1>3, <1>4, <1>5
<1> QED BY <1>1, <1>5, <1>6, AnswersWithout

LEMMA RunBeginFailsStep ==
    ASSUME Inv, RunBeginFails
    PROVE  Inv'
<1> DEFINE r == job.reader
           o == files[r].native
           w == callers[r].window
           n == Failed(BeginNative(o, w))
<1>1. /\ Running("run") /\ Reply(r, Abandon(r)) /\ job.kind = "begin"
      /\ UNCHANGED <<disk, rewrites, sdk, resolution, idle>>
      /\ files' = [files EXCEPT ![r].native = Failed(BeginNative(@, w)), ![r].query = None]
  BY DEF RunBeginFails
<1>2. /\ r \in Readers /\ o \in Owner /\ w # None /\ callers[r] \in Caller
      /\ ReaderShape(files[r], callers[r])
  <2>1. r \in Readers /\ o \in Optional(Owner) /\ callers[r] \in Caller
        /\ ReaderShape(files[r], callers[r]) /\ JobShape(job, files[r], callers[r])
        /\ job.step = "run"
    BY <1>1, RunningFacts
  <2> QED BY <1>1, <2>1 DEF JobShape, Optional
<1>3. RangeOf(w)
  BY <1>2, CallerRange
<1>4. BeginNative(o, w) \in Owner /\ SameOwner(o, BeginNative(o, w))
  BY <1>2, <1>3, BeginHolds DEF SameOwner
<1>5. n \in Owner /\ SameOwner(o, n)
  BY <1>4, FailedFacts DEF SameOwner
<1>6. files' = [files EXCEPT ![r].native = n, ![r].query = None]
  <2>1. files \in [Readers -> Optional(File)]
    BY InvFacts
  <2> QED BY <1>1, <1>2, <2>1
<1>7. Reply(r, [callers[r] EXCEPT !.pc = "ending"])
  BY <1>1 DEF Abandon
<1> HIDE DEF n
<1> QED BY <1>1, <1>5, <1>6, <1>7, AnswersWithout

LEMMA RunBeginStep ==
    ASSUME Inv, RunBegin
    PROVE  Inv'
<1> DEFINE r == job.reader
           f == files[r]
           k == callers[r]
           w == k.window
           n == BeginNative(f.native, w)
           y == [from |-> w.from, to |-> w.to, last |-> None]
           g == [f EXCEPT !.native = n, !.query = y]
           l == [k EXCEPT !.pc = "asking"]
<1>1. /\ Running("run") /\ Reply(r, l) /\ job.kind = "begin"
      /\ UNCHANGED <<disk, rewrites, sdk, resolution, idle>>
      /\ files' = [files EXCEPT ![r].native = BeginNative(@, w), ![r].query = y]
  BY DEF RunBegin
<1>2. /\ r \in Readers /\ f \in File /\ f # None /\ k \in Caller /\ k.batch = None
      /\ ReaderShape(f, k) /\ TraversalInv(f, k, disk) /\ JobShape(job, f, k)
      /\ FileInv(f, disk) /\ Agrees(f, disk, sdk, resolution) /\ job.step = "run"
      /\ JobTraversalInv(job, f, k, disk) /\ f.native \in Optional(Owner)
  BY <1>1, RunningFacts
<1>3. f.native \in Owner /\ f.native # None /\ w # None /\ ~k.complete /\ k.got = <<>>
  BY <1>1, <1>2 DEF JobShape, JobTraversalInv, Optional
<1>4. RangeOf(w)
  BY <1>2, <1>3, CallerRange
<1>5. /\ n \in Owner /\ n # None /\ n.scan \in Scan /\ SameOwner(f.native, n)
      /\ \A q \in Nat : q >= Start(f.native.recording, w) =>
            ScanAt(f.native.recording, w, n.scan, q)
  BY <1>3, <1>4, BeginHolds, NoneAssumption DEF SameOwner
<1>6. y \in Query /\ y # None /\ y.from = w.from /\ y.to = w.to /\ y.last = None
  <2>1. y \in Query
    BY <1>4 DEF Query, RangeOf, Optional
  <2> QED BY <2>1, NoneAssumption
<1>7. files' = [files EXCEPT ![r] = g]
  <2>1. files \in [Readers -> Optional(File)]
    BY InvFacts
  <2> QED BY <1>1, <1>2, <2>1
<1> HIDE DEF n, y
<1>8. /\ g \in File /\ g.path = f.path /\ g.recording = f.recording
      /\ g.resolution = f.resolution /\ g.query = y /\ g.native = n
  BY <1>2, <1>5, <1>6 DEF File, Optional
<1>9. /\ l \in Caller /\ l.pc = "asking" /\ l.window = w /\ l.got = <<>>
      /\ ~l.complete /\ l.batch = None
  BY <1>2, <1>3 DEF Caller
<1> HIDE DEF g, l
<1>10. ReaderShape(g, l)
  BY <1>4, <1>5, <1>6, <1>8, <1>9, <1>3, NoneAssumption DEF ReaderShape, RangeOf
<1>11. FileInv(g, disk) /\ Agrees(g, disk, sdk, resolution)
  <2> HIDE DEF f
  <2> QED BY <1>2, <1>3, <1>5, <1>8, OwnerKept
<1>12. TraversalInv(g, l, disk)
  <2> DEFINE c == f.recording
             b == Start(c, w)
  <2>1. c \in Recordings
    BY <1>2 DEF File
  <2>2. /\ b \in 1..(Len(History[c]) + 1) /\ Stop(c, w) \in 1..(Len(History[c]) + 1)
        /\ b <= Stop(c, w) /\ Len(History[c]) \in Nat
    BY <1>4, <2>1, RangeFacts, HistoryFacts DEF RangeOf
  <2>3. Covers(c, w, <<>>, b, b)
    <3>1. b \in b..Stop(c, w)
      BY <2>2
    <3> QED BY <1>4, <2>1, <3>1, CoversNothing
  <2>4. Reached(g, l) = b
    <3>1. Len(l.got) = 0
      BY <1>9
    <3> QED BY <1>8, <1>9, <2>2, <3>1 DEF Reached
  <2>5. ASSUME disk[f.path].recording = c PROVE Asked(g, w, b)
    <3>1. f.native.recording = c
      BY <1>2, <1>3, <2>5 DEF FileInv
    <3>2. b \in Nat /\ b >= Start(c, w)
      BY <2>2
    <3>3. ScanAt(c, w, n.scan, b)
      BY <1>5, <3>1, <3>2
    <3> QED BY <1>6, <1>8, <3>3 DEF Asked
  <2> HIDE DEF b, c
  <2>6. b = Start(c, w) /\ c = f.recording
    BY DEF b, c
  <2> QED BY <1>8, <1>9, <2>3, <2>4, <2>5, <2>6 DEF TraversalInv
<1>13. ReaderInv(g, l, disk, sdk', resolution')
  BY <1>1, <1>10, <1>11, <1>12 DEF ReaderInv
<1> QED BY <1>1, <1>7, <1>8, <1>9, <1>13, Unselected, JobAnswers

-----------------------------------------------------------------------------
(* The steps of a job for a file: next. *)

LEMMA ReadingFacts ==
    ASSUME Inv, Reading
    PROVE  LET f == files[job.reader]
               k == callers[job.reader]
               q == Reached(f, k) + Len(job.records)
           IN /\ Running("run") /\ job.kind = "next" /\ job \in Job
              /\ job.reader \in Readers /\ f \in File /\ f # None
              /\ f.native \in Owner /\ f.native # None
              /\ f.native.scan \in Scan /\ f.native.recording \in Recordings
              /\ f.query \in Query /\ f.query # None
              /\ k \in Caller /\ k.pc = "waiting" /\ k.batch = None /\ ~k.complete
              /\ k.window # None /\ RangeOf(k.window)
              /\ ReaderShape(f, k) /\ TraversalInv(f, k, disk)
              /\ FileInv(f, disk) /\ Agrees(f, disk, sdk, resolution)
              /\ job.records \in Seq(Record)
              /\ q \in Nat /\ Reached(f, k) \in Nat
              /\ disk[f.path].recording = f.recording =>
                    /\ f.native.recording = f.recording /\ f.recording \in Recordings
                    /\ Covers(f.recording, k.window, job.records, Reached(f, k), q)
                    /\ Asked(f, k.window, q)
                    /\ ScanAt(f.recording, k.window, f.native.scan, q)
<1> DEFINE f == files[job.reader]
           k == callers[job.reader]
           q == Reached(f, k) + Len(job.records)
<1>1. Running("run") /\ job.kind = "next"
  BY DEF Reading
<1>2. /\ job \in Job /\ job.reader \in Readers /\ job.step = "run"
      /\ f \in File /\ f # None /\ f.native \in Optional(Owner)
      /\ k \in Caller /\ k.pc = "waiting" /\ k.batch = None
      /\ JobShape(job, f, k) /\ JobTraversalInv(job, f, k, disk)
      /\ ReaderShape(f, k) /\ FileInv(f, disk) /\ Agrees(f, disk, sdk, resolution)
      /\ TraversalInv(f, k, disk)
  BY <1>1, RunningFacts
<1>3. f.native # None /\ f.query # None /\ k.window # None /\ ~k.complete
  BY <1>1, <1>2 DEF JobShape, JobTraversalInv
<1>4. f.native \in Owner /\ f.query \in Query /\ f.native.scan \in Scan
  BY <1>2, <1>3 DEF File, Optional, ReaderShape
<1>5. RangeOf(k.window) /\ f.native.recording \in Recordings /\ job.records \in Seq(Record)
      /\ f.recording \in Recordings /\ Len(k.got) \in Nat /\ Len(job.records) \in Nat
  BY <1>2, <1>3, <1>4, CallerRange DEF Owner, Job, File, Caller
<1>6. q \in Nat /\ Reached(f, k) \in Nat
  <2> DEFINE b == Start(f.recording, k.window)
  <2>1. b \in 1..(Len(History[f.recording]) + 1) /\ Len(History[f.recording]) \in Nat
    BY <1>5, RangeFacts, HistoryFacts DEF RangeOf
  <2>2. b \in Nat
    BY <2>1
  <2>3. \A x, y \in Nat : x + y \in Nat
    OBVIOUS
  <2>4. Reached(f, k) \in Nat
    BY <1>5, <2>2, <2>3, Zenon DEF Reached
  <2> QED BY <1>5, <2>3, <2>4, Zenon
<1>7. ASSUME disk[f.path].recording = f.recording
      PROVE  /\ f.native.recording = f.recording
             /\ Covers(f.recording, k.window, job.records, Reached(f, k), q)
             /\ Asked(f, k.window, q)
             /\ ScanAt(f.recording, k.window, f.native.scan, q)
  <2>1. f.native.recording = f.recording
    BY <1>2, <1>3, <1>7 DEF FileInv
  <2>2. Covers(f.recording, k.window, job.records, Reached(f, k), q) /\ Asked(f, k.window, q)
    BY <1>1, <1>2, <1>7 DEF JobTraversalInv
  <2>3. ScanAt(f.recording, k.window, f.native.scan, q)
    BY <1>3, <2>2 DEF Asked
  <2> QED BY <2>1, <2>2, <2>3
<1> QED BY <1>1, <1>2, <1>3, <1>4, <1>5, <1>6, <1>7

\* File f whose query goes on with owner n and last record x.
Continued(f, n, x) == [f EXCEPT !.native = n, !.query.last = x]

LEMMA ReadOn ==
    ASSUME NEW f \in File, NEW n \in Owner, NEW x \in Optional(Record),
           f.query \in Query, f.native \in Owner, n.scan \in Scan, SameOwner(f.native, n),
           NEW dsk, NEW i, NEW s, FileInv(f, dsk), Agrees(f, dsk, i, s),
           NEW g, g = Continued(f, n, x)
    PROVE  /\ g \in File /\ g # None /\ g.path = f.path /\ g.recording = f.recording
           /\ g.resolution = f.resolution /\ g.native = n /\ g.native # None
           /\ g.query \in Query /\ g.query # None /\ g.query.from = f.query.from
           /\ g.query.to = f.query.to /\ g.query.last = x
           /\ FileInv(g, dsk) /\ Agrees(g, dsk, i, s)
<1> DEFINE y == [f.query EXCEPT !.last = x]
<1>1. y \in Query /\ y.from = f.query.from /\ y.to = f.query.to /\ y.last = x
  BY DEF Query
<1>2. g = [f EXCEPT !.native = n, !.query = y]
  BY DEF File, Continued
<1> HIDE DEF y
<1>3. /\ g \in File /\ g.path = f.path /\ g.recording = f.recording
      /\ g.resolution = f.resolution /\ g.native = n /\ g.query = y
  BY <1>1, <1>2 DEF File, Optional
<1>4. g # None /\ n # None /\ y # None /\ f # None /\ f.native # None
  BY <1>1, <1>3, NoneAssumption
<1>5. FileInv(g, dsk) /\ Agrees(g, dsk, i, s)
  BY <1>3, <1>4, OwnerKept
<1> QED BY <1>1, <1>2, <1>3, <1>4, <1>5

\* An owner with another scan.
LEMMA WithScan ==
    ASSUME NEW o \in Owner, NEW t \in Scan
    PROVE  LET n == [o EXCEPT !.scan = t]
           IN n \in Owner /\ n.scan = t /\ SameOwner(o, n)
BY DEF Owner, Optional, SameOwner

LEMMA NextRefillStep ==
    ASSUME Inv, NextRefill
    PROVE  Inv'
<1> DEFINE r == job.reader
           f == files[r]
           k == callers[r]
           w == k.window
           s == f.native.scan
           c == f.native.recording
           q == Reached(f, k) + Len(job.records)
<1>1. /\ Reading /\ s.buffer = <<>> /\ ~s.finished
      /\ UNCHANGED <<disk, rewrites, sdk, resolution, idle, job, callers>>
  BY DEF NextRefill, Owned
<1>2. /\ Running("run") /\ job.kind = "next" /\ job \in Job /\ job.step = "run"
      /\ r \in Readers /\ f \in File /\ f.native \in Owner
      /\ s \in Scan /\ c \in Recordings /\ f.query \in Query
      /\ ~k.complete /\ RangeOf(w) /\ q \in Nat
      /\ FileInv(f, disk) /\ Agrees(f, disk, sdk, resolution)
      /\ disk[f.path].recording = f.recording =>
            /\ c = f.recording
            /\ Covers(f.recording, w, job.records, Reached(f, k), q)
            /\ Asked(f, w, q) /\ ScanAt(f.recording, w, s, q)
  BY <1>1, ReadingFacts DEF Running
<1>3. PICK t : /\ t = Refilled(c, s)
                  \/ \E n \in Boundaries(InRange(c, s)) \cup {0} : t = Broken(c, s, n)
               /\ files' = [files EXCEPT ![r].native.scan = t]
  <2>1. files \in [Readers -> Optional(File)]
    BY InvFacts
  <2>2. CASE files' = [files EXCEPT ![r].native.scan = Refilled(c, @)]
    <3>1. files' = [files EXCEPT ![r].native.scan = Refilled(c, s)]
      BY <1>2, <2>1, <2>2 DEF File, Owner
    <3> QED BY <3>1
  <2>3. CASE \E n \in Boundaries(InRange(c, s)) \cup {0} :
                files' = [files EXCEPT ![r].native.scan = Broken(c, @, n)]
    <3>1. PICK n \in Boundaries(InRange(c, s)) \cup {0} :
             files' = [files EXCEPT ![r].native.scan = Broken(c, @, n)]
      BY <2>3
    <3>2. files' = [files EXCEPT ![r].native.scan = Broken(c, s, n)]
      BY <1>2, <2>1, <3>1 DEF File, Owner
    <3> QED BY <3>2
  <2> QED BY <2>2, <2>3 DEF NextRefill, Owned
<1>4. t \in Scan
  BY <1>2, <1>3, ScanTypes
<1>5. c = f.recording /\ ScanAt(c, w, s, q) => ScanAt(c, w, t, q)
  <2> HIDE DEF c, w, s, q
  <2> QED BY <1>1, <1>2, <1>3, RefillHolds
<1> DEFINE n == [f.native EXCEPT !.scan = t]
           x == f.query.last
           g == Continued(f, n, x)
<1>6. n \in Owner /\ n.scan = t /\ SameOwner(f.native, n) /\ x \in Optional(Record)
  BY <1>2, <1>4, WithScan DEF Query
<1>7. files' = [files EXCEPT ![r] = g]
  <2>1. files \in [Readers -> Optional(File)]
    BY InvFacts
  <2>2. g = [f EXCEPT !.native.scan = t]
    BY <1>2 DEF File, Query, Continued
  <2> HIDE DEF g
  <2> QED BY <1>2, <1>3, <2>1, <2>2
<1> HIDE DEF n, x
<1>8. /\ g \in File /\ g # None /\ g.path = f.path /\ g.recording = f.recording
      /\ g.native = n /\ g.native # None
      /\ g.query \in Query /\ g.query # None /\ g.query.from = f.query.from
      /\ g.query.to = f.query.to /\ g.query.last = x
      /\ FileInv(g, disk) /\ Agrees(g, disk, sdk, resolution)
  <2> HIDE DEF f
  <2>1. /\ f \in File /\ f.query \in Query /\ f.native \in Owner /\ n \in Owner
        /\ n.scan \in Scan /\ SameOwner(f.native, n) /\ x \in Optional(Record)
        /\ FileInv(f, disk) /\ Agrees(f, disk, sdk, resolution)
    BY <1>2, <1>4, <1>6
  <2> QED BY <2>1, ReadOn
<1> HIDE DEF g
<1>9. JobTraversalInv(job, g, k, disk)
  <2>1. ASSUME disk[f.path].recording = f.recording
        PROVE  Asked(g, w, q)
    BY <1>2, <1>5, <1>6, <1>8, <2>1 DEF Asked, x
  <2>2. Reached(g, k) = Reached(f, k)
    BY <1>8 DEF Reached
  <2> QED BY <1>2, <1>8, <2>1, <2>2 DEF JobTraversalInv
<1>10. g.native.scan \in Scan /\ Agrees(g, disk, sdk', resolution')
       /\ UNCHANGED <<disk, rewrites, callers>> /\ job' = job /\ Running("run")
  BY <1>1, <1>2, <1>4, <1>6, <1>8
<1>11. /\ files \in [Readers -> Optional(File)]
       /\ sdk' \in Optional(Resolutions) /\ resolution' \in Optional(Resolutions)
       /\ idle' = None
       /\ \A x0 \in Readers \ {r} : ReaderInv(files[x0], callers[x0], disk, sdk', resolution')
  BY <1>1, <1>2, Unselected
<1> HIDE DEF q, w, s, c
<1> QED BY <1>2, <1>7, <1>8, <1>9, <1>10, <1>11, JobGoesOn

\* The next record of the batch: replayed, or the next of the range.
LEMMA PopFacts ==
    ASSUME Inv, Reading, Owned.scan.buffer # <<>>
    PROVE  LET f == files[job.reader]
               w == callers[job.reader].window
               s == f.native.scan
               x == Head(s.buffer)
               t == [s EXCEPT !.buffer = Tail(@)]
               c == f.recording
               q == Reached(f, callers[job.reader]) + Len(job.records)
           IN /\ t \in Scan /\ x \in Record
              /\ disk[f.path].recording = c /\ Transferred(x) => ScanAt(c, w, t, q)
              /\ disk[f.path].recording = c /\ ~Transferred(x) =>
                    /\ x = History[c][q] /\ Start(c, w) <= q /\ q < Stop(c, w)
                    /\ ScanAt(c, w, t, q + 1)
                    /\ BatchEnds(s) => /\ TickEnds(c, w, q)
                                       /\ s.finished => q + 1 = Stop(c, w)
<1> DEFINE f == files[job.reader]
           k == callers[job.reader]
           w == k.window
           s == f.native.scan
           x == Head(s.buffer)
           t == [s EXCEPT !.buffer = Tail(@)]
           c == f.recording
           q == Reached(f, k) + Len(job.records)
           h == History[c]
<1>1. /\ s \in Scan /\ s.buffer # <<>> /\ RangeOf(w) /\ q \in Nat /\ f \in File
      /\ Reached(f, k) \in Nat
      /\ disk[f.path].recording = c =>
            /\ Covers(c, w, job.records, Reached(f, k), q)
            /\ Asked(f, w, q) /\ ScanAt(c, w, s, q)
  BY ReadingFacts DEF Owned
<1>2. t \in Scan
  <2>1. f.native.recording \in Recordings
    BY ReadingFacts
  <2> HIDE DEF f, s
  <2> QED BY <1>1, <2>1, ScanTypes
<1>3. x \in Record
  <2>1. s.buffer \in Seq(Record)
    BY <1>1 DEF Scan
  <2> QED BY <1>1, <2>1, HeadTailProperties
<1>4. ASSUME disk[f.path].recording = c
      PROVE  /\ Transferred(x) => ScanAt(c, w, t, q)
             /\ ~Transferred(x) =>
                    /\ x = h[q] /\ Start(c, w) <= q /\ q < Stop(c, w)
                    /\ ScanAt(c, w, t, q + 1)
                    /\ BatchEnds(s) => /\ TickEnds(c, w, q)
                                       /\ s.finished => q + 1 = Stop(c, w)
  <2>1. c \in Recordings
    BY <1>1 DEF File
  <2>2. /\ ScanAt(c, w, s, q) /\ Covers(c, w, job.records, Reached(f, k), q)
        /\ f.query.last = IF q = Start(c, w) THEN None ELSE h[q - 1]
    BY <1>1, <1>4 DEF Asked
  <2>3. PICK i \in Start(c, w)..(Stop(c, w) - 1) :
              /\ x = h[i] /\ i <= q
              /\ i < q => ScanAt(c, w, t, q)
              /\ i = q => ScanAt(c, w, t, q + 1)
              /\ Len(s.buffer) = 1 => /\ TickEnds(c, w, i)
                                      /\ s.finished /\ ~s.broken => i + 1 = Stop(c, w)
    <3> HIDE DEF c, w, s, q
    <3>1. t = [s EXCEPT !.buffer = Tail(@)]
      OBVIOUS
    <3> HIDE DEF t
    <3> QED BY <1>1, <2>1, <2>2, <3>1, PopHolds
  <2>4. /\ Len(h) \in Nat /\ Start(c, w) \in 1..(Len(h) + 1) /\ Stop(c, w) \in 1..(Len(h) + 1)
    BY <1>1, <2>1, RangeFacts, HistoryFacts DEF RangeOf
  <2>5. q \in Start(c, w)..(Len(h) + 1) /\ i \in Start(c, w)..Len(h) /\ i \in Int
    <3> HIDE DEF c, w, s, q, f, k, h
    <3>1. Start(c, w) <= Reached(f, k) /\ Reached(f, k) <= q /\ q <= Stop(c, w)
      BY <2>2 DEF Covers
    <3> QED BY <1>1, <2>3, <2>4, <3>1
  <2>6. Transferred(x) <=> i < q
    <3> DEFINE last == f.query.last
               b == Start(c, w)
    <3>1. Transferred(x) <=> (last # None /\ ~Before(last, h[i]))
      BY <2>3 DEF Transferred, Last
    <3>2. last = IF q = b THEN None ELSE h[q - 1]
      BY <2>2
    <3>3. b \in 1..(Len(h) + 1) /\ q \in b..(Len(h) + 1) /\ i \in b..Len(h)
      BY <2>4, <2>5
    <3> HIDE DEF last, b, c, q, x
    <3>4. (last # None /\ ~Before(last, h[i])) <=> i < q
      BY <2>1, <3>2, <3>3, TransferredBefore
    <3> QED BY <3>1, <3>4
  <2> HIDE DEF c, w, s, q, t, x
  <2>7. ~Transferred(x) => i = q
    BY <1>1, <2>3, <2>5, <2>6
  <2>8. i < Stop(c, w) /\ Start(c, w) <= i
    BY <2>3, <2>4
  <2> QED BY <2>3, <2>6, <2>7, <2>8 DEF BatchEnds
<1> QED BY <1>2, <1>3, <1>4

\* The reader is answered with a batch.
LEMMA AnswerStep ==
    ASSUME Inv, Reading, NEW g \in File, files' = [files EXCEPT ![job.reader] = g],
           NEW records \in Seq(Record), NEW finished \in BOOLEAN, NEW error \in BOOLEAN,
           Answer(records, finished, error),
           g.path = files[job.reader].path, g.recording = files[job.reader].recording,
           g.query # None, g.native # None => g.native.scan \in Scan,
           FileInv(g, disk), Agrees(g, disk, sdk, resolution),
           disk[g.path].recording = g.recording =>
              LET k == callers[job.reader]
                  q == Reached(g, k) + Len(records)
              IN /\ Covers(g.recording, k.window, records, Reached(g, k), q)
                 /\ ~error => /\ finished => q = Stop(g.recording, k.window)
                              /\ records # <<>> => TickEnds(g.recording, k.window, q - 1)
                              /\ Asked(g, k.window, q),
           UNCHANGED <<disk, rewrites, sdk, resolution, idle>>
    PROVE  Inv'
<1> DEFINE r == job.reader
           f == files[r]
           k == callers[r]
           b == [records |-> records, finished |-> finished, error |-> error]
           l == [k EXCEPT !.pc = "visiting", !.batch = b]
<1>1. /\ Running("run") /\ f \in File /\ f # None /\ k \in Caller /\ ~k.complete
      /\ k.window # None /\ ReaderShape(f, k) /\ TraversalInv(f, k, disk)
  BY ReadingFacts
<1>2. b \in Batch /\ b.records = records /\ b.finished = finished /\ b.error = error
  BY DEF Batch
<1>3. Reply(r, l)
  BY DEF Answer
<1> HIDE DEF b
<1>4. /\ l \in Caller /\ l.pc = "visiting" /\ l.window = k.window /\ l.got = k.got
      /\ ~l.complete /\ l.batch = b
  BY <1>1, <1>2 DEF Caller, Optional
<1> HIDE DEF l
<1>5. g # None
  BY NoneAssumption
<1>6. ReaderShape(g, l)
  BY <1>1, <1>2, <1>4, <1>5 DEF ReaderShape
<1>7. TraversalInv(g, l, disk)
  <2>1. Reached(g, l) = Reached(g, k) /\ Reached(g, k) = Reached(f, k)
    BY <1>4 DEF Reached
  <2>2. ASSUME disk[g.path].recording = g.recording
        PROVE  /\ Covers(g.recording, l.window, l.got, Start(g.recording, l.window), Reached(g, l))
               /\ BatchInv(g, l, l.batch, Reached(g, l))
    <3>1. Covers(g.recording, k.window, k.got, Start(g.recording, k.window), Reached(g, k))
      BY <1>1, <2>1, <2>2 DEF TraversalInv
    <3>2. BatchInv(g, l, b, Reached(g, l))
      BY <1>2, <1>4, <2>1, <2>2 DEF BatchInv
    <3> QED BY <1>4, <2>1, <3>1, <3>2
  <2> QED BY <1>4, <2>2 DEF TraversalInv
<1>8. ReaderInv(g, l, disk, sdk', resolution')
  BY <1>6, <1>7 DEF ReaderInv
<1>9. /\ files \in [Readers -> Optional(File)]
      /\ sdk' \in Optional(Resolutions) /\ resolution' \in Optional(Resolutions)
      /\ idle' = None
      /\ \A x \in Readers \ {r} : ReaderInv(files[x], callers[x], disk, sdk', resolution')
  BY <1>1, Unselected
<1> HIDE DEF f, k
<1> QED BY <1>1, <1>3, <1>4, <1>8, <1>9, JobAnswers

\* The file whose scan hands over its next record.
LEMMA PopFile ==
    ASSUME Inv, Reading, Owned.scan.buffer # <<>>,
           NEW n,
           LET s == files[job.reader].native.scan
           IN n = [files[job.reader].native EXCEPT !.scan = [s EXCEPT !.buffer = Tail(@)]]
    PROVE  LET f == files[job.reader]
           IN /\ n \in Owner /\ n.scan = [f.native.scan EXCEPT !.buffer = Tail(@)]
              /\ n.scan \in Scan /\ SameOwner(f.native, n)
              /\ Pop(files) = [files EXCEPT ![job.reader].native = n]
<1> DEFINE r == job.reader
           f == files[r]
           s == f.native.scan
           t == [s EXCEPT !.buffer = Tail(@)]
<1>1. /\ r \in Readers /\ f \in File /\ f.native \in Owner /\ t \in Scan
      /\ files \in [Readers -> Optional(File)]
  BY ReadingFacts, PopFacts, InvFacts
<1>2. n = [f.native EXCEPT !.scan = t]
  OBVIOUS
<1>3. Pop(files) = [files EXCEPT ![r].native = n]
  <2>1. [f EXCEPT !.native.scan.buffer = Tail(@)] = [f EXCEPT !.native = n]
    BY <1>1, <1>2 DEF File, Owner, Scan
  <2>2. Pop(files) = [files EXCEPT ![r] = [f EXCEPT !.native.scan.buffer = Tail(@)]]
    BY <1>1 DEF Pop
  <2> QED BY <1>1, <2>1, <2>2
<1> HIDE DEF t
<1>4. n \in Owner /\ n.scan = t /\ SameOwner(f.native, n)
  <2> DEFINE o == f.native
             m == [o EXCEPT !.scan = t]
  <2>1. m \in Owner /\ m.scan = t /\ SameOwner(o, m)
    BY <1>1, WithScan
  <2>2. n = m
    BY <1>2
  <2> HIDE DEF m
  <2> QED BY <2>1, <2>2
<1> QED BY <1>1, <1>3, <1>4 DEF t

LEMMA NextSkipStep ==
    ASSUME Inv, NextSkip
    PROVE  Inv'
<1> DEFINE r == job.reader
           f == files[r]
           k == callers[r]
           w == k.window
           s == f.native.scan
           t == [s EXCEPT !.buffer = Tail(@)]
           n == [f.native EXCEPT !.scan = t]
           q == Reached(f, k) + Len(job.records)
           x == f.query.last
           g == Continued(f, n, x)
<1>1. /\ Reading /\ Owned.scan.buffer # <<>> /\ Transferred(Head(s.buffer))
      /\ files' = Pop(files) /\ UNCHANGED <<disk, rewrites, sdk, resolution, idle, job, callers>>
  BY DEF NextSkip, Owned
<1>2. /\ Running("run") /\ job.kind = "next" /\ job \in Job /\ job.step = "run"
      /\ r \in Readers /\ f \in File /\ f.native \in Owner /\ f.query \in Query
      /\ ~k.complete /\ q \in Nat
      /\ FileInv(f, disk) /\ Agrees(f, disk, sdk, resolution)
      /\ disk[f.path].recording = f.recording =>
            /\ Covers(f.recording, w, job.records, Reached(f, k), q)
            /\ Asked(f, w, q)
  BY <1>1, ReadingFacts DEF Running
<1>3. x \in Optional(Record)
  BY <1>2 DEF Query
<1>4. /\ n \in Owner /\ n.scan = t /\ n.scan \in Scan /\ SameOwner(f.native, n)
      /\ files' = [files EXCEPT ![r].native = n]
  BY <1>1, <1>3, PopFile
<1>5. disk[f.path].recording = f.recording => ScanAt(f.recording, w, t, q)
  BY <1>1, PopFacts
<1> HIDE DEF n, t
<1>6. files' = [files EXCEPT ![r] = g]
  <2>1. files \in [Readers -> Optional(File)]
    BY InvFacts
  <2>2. g = [f EXCEPT !.native = n]
    BY <1>2 DEF File, Query, Continued
  <2> HIDE DEF g
  <2> QED BY <1>2, <1>4, <2>1, <2>2
<1> HIDE DEF x
<1>7. /\ g \in File /\ g # None /\ g.path = f.path /\ g.recording = f.recording
      /\ g.native = n /\ g.native # None
      /\ g.query \in Query /\ g.query # None /\ g.query.from = f.query.from
      /\ g.query.to = f.query.to /\ g.query.last = x
      /\ FileInv(g, disk) /\ Agrees(g, disk, sdk, resolution)
  <2> HIDE DEF f
  <2>1. /\ f \in File /\ f.query \in Query /\ f.native \in Owner /\ n \in Owner
        /\ n.scan \in Scan /\ SameOwner(f.native, n) /\ x \in Optional(Record)
        /\ FileInv(f, disk) /\ Agrees(f, disk, sdk, resolution)
    BY <1>2, <1>3, <1>4
  <2> QED BY <2>1, ReadOn
<1> HIDE DEF g
<1>8. JobTraversalInv(job, g, k, disk)
  <2>1. ASSUME disk[f.path].recording = f.recording
        PROVE  Asked(g, w, q)
    BY <1>2, <1>4, <1>5, <1>7, <2>1 DEF Asked, x
  <2>2. Reached(g, k) = Reached(f, k)
    BY <1>7 DEF Reached
  <2> QED BY <1>2, <1>7, <2>1, <2>2 DEF JobTraversalInv
<1>9. g.native.scan \in Scan /\ Agrees(g, disk, sdk', resolution')
      /\ UNCHANGED <<disk, rewrites, callers>> /\ job' = job /\ Running("run")
  BY <1>1, <1>2, <1>4, <1>7
<1>10. /\ files \in [Readers -> Optional(File)]
       /\ sdk' \in Optional(Resolutions) /\ resolution' \in Optional(Resolutions)
       /\ idle' = None
       /\ \A y \in Readers \ {r} : ReaderInv(files[y], callers[y], disk, sdk', resolution')
  BY <1>1, <1>2, Unselected
<1> HIDE DEF q, w, s
<1> QED BY <1>2, <1>6, <1>7, <1>8, <1>9, <1>10, JobGoesOn

LEMMA NextTransferStep ==
    ASSUME Inv, NextTransfer
    PROVE  Inv'
<1> DEFINE r == job.reader
           f == files[r]
           k == callers[r]
           w == k.window
           s == f.native.scan
           t == [s EXCEPT !.buffer = Tail(@)]
           n == [f.native EXCEPT !.scan = t]
           p == Reached(f, k)
           q == p + Len(job.records)
           x == Head(s.buffer)
           c == f.recording
           g == Continued(f, n, x)
           rs == Append(job.records, x)
<1>1. /\ Reading /\ Owned.scan.buffer # <<>> /\ ~Transferred(x)
      /\ files' = [Pop(files) EXCEPT ![r].query.last = x]
      /\ UNCHANGED <<disk, rewrites, sdk, resolution, idle>>
  BY DEF NextTransfer, Owned
<1>2. \/ BatchEnds(s) /\ Answer(rs, s.finished, FALSE)
      \/ ~BatchEnds(s) /\ job' = [job EXCEPT !.records = rs] /\ callers' = callers
  BY DEF NextTransfer, Owned
<1>3. /\ Running("run") /\ job.kind = "next" /\ job \in Job /\ job.step = "run"
      /\ r \in Readers /\ f \in File /\ f.native \in Owner /\ f.query \in Query
      /\ ~k.complete /\ RangeOf(w) /\ p \in Nat /\ q \in Nat /\ job.records \in Seq(Record)
      /\ s \in Scan /\ c \in Recordings
      /\ FileInv(f, disk) /\ Agrees(f, disk, sdk, resolution)
      /\ disk[f.path].recording = c =>
            Covers(c, w, job.records, p, q) /\ Asked(f, w, q)
  BY <1>1, ReadingFacts DEF Running, File
<1>4. /\ x \in Record /\ x \in Optional(Record)
      /\ disk[f.path].recording = c =>
            /\ x = History[c][q] /\ Start(c, w) <= q /\ q < Stop(c, w)
            /\ ScanAt(c, w, t, q + 1)
            /\ BatchEnds(s) => /\ TickEnds(c, w, q)
                               /\ s.finished => q + 1 = Stop(c, w)
  BY <1>1, PopFacts DEF Optional
<1>5. /\ n \in Owner /\ n.scan = t /\ n.scan \in Scan /\ SameOwner(f.native, n)
      /\ Pop(files) = [files EXCEPT ![r].native = n]
  BY <1>1, <1>4, PopFile
<1>6. rs \in Seq(Record) /\ Len(rs) = Len(job.records) + 1 /\ rs # <<>>
  <2> HIDE DEF x
  <2> QED BY <1>3, <1>4, AppendProperties
<1> HIDE DEF n, t
<1>7. files' = [files EXCEPT ![r] = g]
  <2>1. files \in [Readers -> Optional(File)]
    BY InvFacts
  <2> HIDE DEF x
  <2>2. files' = [[files EXCEPT ![r].native = n] EXCEPT ![r].query.last = x]
    BY <1>1, <1>5
  <2> QED BY <1>3, <2>1, <2>2 DEF Continued
<1> HIDE DEF x, rs
<1>8. /\ g \in File /\ g # None /\ g.path = f.path /\ g.recording = f.recording
      /\ g.native = n /\ g.native # None
      /\ g.query \in Query /\ g.query # None /\ g.query.from = f.query.from
      /\ g.query.to = f.query.to /\ g.query.last = x
      /\ FileInv(g, disk) /\ Agrees(g, disk, sdk, resolution)
  <2> HIDE DEF f
  <2>1. /\ f \in File /\ f.query \in Query /\ f.native \in Owner /\ n \in Owner
        /\ n.scan \in Scan /\ SameOwner(f.native, n) /\ x \in Optional(Record)
        /\ FileInv(f, disk) /\ Agrees(f, disk, sdk, resolution)
    BY <1>3, <1>4, <1>5
  <2> QED BY <2>1, ReadOn
<1> HIDE DEF g
<1>9. Reached(g, k) = p /\ p + Len(rs) = q + 1
  <2>1. Reached(g, k) = p
    BY <1>8 DEF Reached
  <2>2. Len(job.records) \in Nat
    BY <1>3
  <2> HIDE DEF p
  <2> QED BY <1>3, <1>6, <2>1, <2>2
<1>10. ASSUME disk[f.path].recording = c
       PROVE  Covers(c, w, rs, p, q + 1) /\ Asked(g, w, q + 1)
  <2>1. Covers(c, w, rs, p, q + 1)
    <3>1. Covers(c, w, job.records, p, q) /\ q < Stop(c, w) /\ x = History[c][q]
          /\ p \in Int /\ q \in Int
      BY <1>3, <1>4, <1>10
    <3> HIDE DEF c, w, p, q
    <3> QED BY <1>3, <3>1, CoversNext DEF rs
  <2>2. q + 1 # Start(c, w) /\ (q + 1) - 1 = q
    <3>1. Start(c, w) \in 1..(Len(History[c]) + 1) /\ Len(History[c]) \in Nat
      BY <1>3, RangeFacts, HistoryFacts DEF RangeOf
    <3> HIDE DEF q, c, w
    <3> QED BY <1>3, <1>4, <1>10, <3>1 DEF c
  <2>3. ScanAt(c, w, g.native.scan, q + 1) /\ x = History[c][q]
    BY <1>4, <1>5, <1>8, <1>10
  <2>4. f.query.from = w.from /\ f.query.to = w.to
    BY <1>3, <1>10 DEF Asked
  <2> HIDE DEF q
  <2> QED BY <1>8, <2>1, <2>2, <2>3, <2>4 DEF Asked
<1>11. CASE BatchEnds(s) /\ Answer(rs, s.finished, FALSE)
  <2>1. /\ g.path = f.path /\ g.recording = f.recording /\ g.query # None
        /\ g.native # None => g.native.scan \in Scan
        /\ s.finished \in BOOLEAN
    BY <1>3, <1>5, <1>8 DEF Scan
  <2>2. disk[g.path].recording = g.recording =>
           LET z == Reached(g, k) + Len(rs)
           IN /\ Covers(g.recording, w, rs, Reached(g, k), z)
              /\ s.finished => z = Stop(g.recording, w)
              /\ rs # <<>> => TickEnds(g.recording, w, z - 1)
              /\ Asked(g, w, z)
    <3>1. (q + 1) - 1 = q
      BY <1>3
    <3> HIDE DEF q, p
    <3> QED BY <1>4, <1>8, <1>9, <1>10, <1>11, <3>1
  <2> HIDE DEF s
  <2> QED BY <1>1, <1>3, <1>6, <1>7, <1>8, <1>11, <2>1, <2>2, AnswerStep
<1>12. CASE ~BatchEnds(s) /\ job' = [job EXCEPT !.records = rs] /\ callers' = callers
  <2> DEFINE j == [job EXCEPT !.records = rs]
  <2>1. /\ j \in Job /\ j.reader = job.reader /\ j.kind = job.kind /\ j.step = "run"
        /\ j.records = rs
    BY <1>3, <1>6 DEF Job
  <2>2. job' = j
    BY <1>12
  <2> HIDE DEF j
  <2>3. JobTraversalInv(j, g, k, disk)
    <3> HIDE DEF p, q
    <3> QED BY <1>3, <1>8, <1>9, <1>10, <2>1 DEF JobTraversalInv
  <2>4. g.native.scan \in Scan /\ Agrees(g, disk, sdk', resolution')
        /\ UNCHANGED <<disk, rewrites, callers>> /\ Running("run")
    BY <1>1, <1>3, <1>5, <1>8, <1>12
  <2>5. /\ files \in [Readers -> Optional(File)]
        /\ sdk' \in Optional(Resolutions) /\ resolution' \in Optional(Resolutions)
        /\ idle' = None
        /\ \A y \in Readers \ {r} : ReaderInv(files[y], callers[y], disk, sdk', resolution')
    BY <1>1, <1>3, Unselected
  <2> HIDE DEF q, p, w, s
  <2> QED BY <1>3, <1>7, <1>8, <2>1, <2>2, <2>3, <2>4, <2>5, JobGoesOn
<1> QED BY <1>2, <1>11, <1>12

LEMMA NextDecodeFailsStep ==
    ASSUME Inv, NextDecodeFails
    PROVE  Inv'
<1> DEFINE r == job.reader
           f == files[r]
           k == callers[r]
           s == f.native.scan
           t == [s EXCEPT !.buffer = Tail(@)]
           m == [f.native EXCEPT !.scan = t]
           n == Failed(m)
           x == f.query.last
           g == Continued(f, n, x)
<1>1. /\ Reading /\ Owned.scan.buffer # <<>>
      /\ files' = [Pop(files) EXCEPT ![r].native = Failed(@)]
      /\ Answer(job.records, FALSE, TRUE)
      /\ UNCHANGED <<disk, rewrites, sdk, resolution, idle>>
  BY DEF NextDecodeFails
<1>2. /\ r \in Readers /\ f \in File /\ f.native \in Owner /\ f.query \in Query
      /\ job.records \in Seq(Record)
      /\ FileInv(f, disk) /\ Agrees(f, disk, sdk, resolution)
      /\ disk[f.path].recording = f.recording =>
            Covers(f.recording, k.window, job.records, Reached(f, k),
                   Reached(f, k) + Len(job.records))
  BY <1>1, ReadingFacts
<1>3. x \in Optional(Record)
  BY <1>2 DEF Query
<1>4. /\ m \in Owner /\ m.scan \in Scan /\ SameOwner(f.native, m)
      /\ Pop(files) = [files EXCEPT ![r].native = m]
  BY <1>1, PopFile
<1> HIDE DEF m
<1>5. n \in Owner /\ n.scan \in Scan /\ SameOwner(f.native, n)
  BY <1>4, FailedFacts DEF SameOwner
<1>6. files' = [files EXCEPT ![r] = g]
  <2>1. files \in [Readers -> Optional(File)]
    BY InvFacts
  <2>2. g = [f EXCEPT !.native = n]
    BY <1>2 DEF File, Query, Continued
  <2>3. files' = [[files EXCEPT ![r].native = m] EXCEPT ![r].native = Failed(@)]
    BY <1>1, <1>4
  <2>4. [files EXCEPT ![r].native = m][r].native = m
    BY <1>2, <2>1 DEF File
  <2> HIDE DEF g
  <2> QED BY <1>2, <2>1, <2>2, <2>3, <2>4
<1> HIDE DEF n, x
<1>7. /\ g \in File /\ g # None /\ g.path = f.path /\ g.recording = f.recording
      /\ g.native = n /\ g.native # None /\ g.query # None
      /\ FileInv(g, disk) /\ Agrees(g, disk, sdk, resolution)
  <2> HIDE DEF f
  <2> QED BY <1>2, <1>3, <1>5, ReadOn
<1> HIDE DEF g
<1>8. Reached(g, k) = Reached(f, k)
  BY <1>7 DEF Reached
<1> QED BY <1>1, <1>2, <1>5, <1>6, <1>7, <1>8, AnswerStep

LEMMA NextReadFailsStep ==
    ASSUME Inv, NextReadFails
    PROVE  Inv'
<1> DEFINE r == job.reader
           f == files[r]
           k == callers[r]
           n == Failed(f.native)
           x == f.query.last
           g == Continued(f, n, x)
<1>1. /\ Reading /\ files' = [files EXCEPT ![r].native = Failed(@)]
      /\ Answer(job.records, FALSE, TRUE)
      /\ UNCHANGED <<disk, rewrites, sdk, resolution, idle>>
  BY DEF NextReadFails
<1>2. /\ r \in Readers /\ f \in File /\ f.native \in Owner /\ f.query \in Query
      /\ job.records \in Seq(Record) /\ f.native.scan \in Scan
      /\ FileInv(f, disk) /\ Agrees(f, disk, sdk, resolution)
      /\ disk[f.path].recording = f.recording =>
            Covers(f.recording, k.window, job.records, Reached(f, k),
                   Reached(f, k) + Len(job.records))
  BY <1>1, ReadingFacts
<1>3. x \in Optional(Record)
  BY <1>2 DEF Query
<1>4. n \in Owner /\ n.scan \in Scan /\ SameOwner(f.native, n)
  BY <1>2, FailedFacts
<1>5. files' = [files EXCEPT ![r] = g]
  <2>1. files \in [Readers -> Optional(File)]
    BY InvFacts
  <2>2. g = [f EXCEPT !.native = n]
    BY <1>2 DEF File, Query, Continued
  <2> HIDE DEF g
  <2> QED BY <1>1, <1>2, <2>1, <2>2
<1> HIDE DEF n, x
<1>6. /\ g \in File /\ g # None /\ g.path = f.path /\ g.recording = f.recording
      /\ g.native = n /\ g.native # None /\ g.query # None
      /\ FileInv(g, disk) /\ Agrees(g, disk, sdk, resolution)
  <2> HIDE DEF f
  <2> QED BY <1>2, <1>3, <1>4, ReadOn
<1> HIDE DEF g
<1>7. Reached(g, k) = Reached(f, k)
  BY <1>6 DEF Reached
<1> QED BY <1>1, <1>2, <1>4, <1>5, <1>6, <1>7, AnswerStep

LEMMA NextFinishedStep ==
    ASSUME Inv, NextFinished
    PROVE  Inv'
<1> DEFINE r == job.reader
           f == files[r]
           k == callers[r]
           w == k.window
           s == f.native.scan
           c == f.recording
           q == Reached(f, k) + Len(job.records)
<1>1. /\ Reading /\ s.buffer = <<>> /\ s.finished /\ ~s.broken
      /\ Answer(job.records, TRUE, FALSE) /\ files' = files
      /\ UNCHANGED <<disk, rewrites, sdk, resolution, idle>>
  BY DEF NextFinished, Owned
<1>2. /\ r \in Readers /\ f \in File /\ job.records \in Seq(Record) /\ s \in Scan
      /\ f.query # None /\ RangeOf(w) /\ q \in Nat
      /\ FileInv(f, disk) /\ Agrees(f, disk, sdk, resolution)
      /\ disk[f.path].recording = c =>
            /\ c \in Recordings /\ Covers(c, w, job.records, Reached(f, k), q)
            /\ Asked(f, w, q) /\ ScanAt(c, w, s, q)
  BY <1>1, ReadingFacts
<1>3. files' = [files EXCEPT ![r] = f]
  BY <1>1, <1>2, InvFacts
<1>4. ASSUME disk[f.path].recording = c
      PROVE  /\ Covers(c, w, job.records, Reached(f, k), q)
             /\ q = Stop(c, w) /\ TickEnds(c, w, q - 1) /\ Asked(f, w, q)
  <2>1. q >= Stop(c, w)
    <3> HIDE DEF c, w, s, q
    <3> QED BY <1>1, <1>2, <1>4, FinishedHolds DEF c
  <2>2. q <= Stop(c, w) /\ Stop(c, w) \in Int
    <3>1. Stop(c, w) \in 1..(Len(History[c]) + 1) /\ Len(History[c]) \in Nat
      BY <1>2, <1>4, RangeFacts, HistoryFacts DEF RangeOf
    <3> QED BY <1>2, <1>4, <3>1 DEF Covers
  <2> HIDE DEF q
  <2>3. q = Stop(c, w)
    BY <1>2, <2>1, <2>2
  <2> QED BY <1>2, <1>4, <2>3 DEF TickEnds
<1> HIDE DEF s
<1> QED BY <1>1, <1>2, <1>3, <1>4, AnswerStep DEF s

-----------------------------------------------------------------------------
(* Headers that are read alone, and writers. *)

LEMMA ReadMetadataStep ==
    ASSUME Inv, NEW p \in Paths, ReadMetadata(p)
    PROVE  Inv'
<1>1. /\ job = None /\ job' = None /\ files' = Suspended /\ resolution' = None /\ idle' = None
      /\ sdk' \in {sdk, ResolutionOf[disk[p].recording]}
      /\ UNCHANGED <<disk, rewrites, callers>>
  BY DEF ReadMetadata, Free, HeaderFailed, HeaderRead
<1>2. sdk' \in Optional(Resolutions)
  BY <1>1, InvFacts DEF Optional, OnDisk, Resolutions
<1>3. TypeOK'
  BY <1>1, <1>2, InvFacts, SuspendedHolds DEF TypeOK, Optional
<1>4. \A x \in Readers : ReaderInv(files'[x], callers'[x], disk', sdk', resolution')
  BY <1>1, SuspendedHolds
<1> QED BY <1>1, <1>3, <1>4 DEF Inv, IdleInv

\* A writer leaves the files of live readers alone.  What an open has seen grows
\* by a content with a stamp of its own.
LEMMA ReplaceStep ==
    ASSUME Inv, NEW p \in Paths, NEW d \in OnDisk, Replace(p, d)
    PROVE  Inv'
<1>1. /\ rewrites < MaxRewrites /\ disk' = [disk EXCEPT ![p] = d] /\ rewrites' = rewrites + 1
      /\ \A r \in Readers : files[r] # None => files[r].path # p
      /\ OpeningPath(p) => Overlap /\ \A e \in job.seen : d.stamp # e.stamp
      /\ job' = IF OpeningPath(p) THEN [job EXCEPT !.seen = @ \cup {d}] ELSE job
      /\ UNCHANGED <<sdk, files, resolution, idle, callers>>
  BY DEF Replace
<1>2. /\ disk \in [Paths -> OnDisk] /\ rewrites \in 0..MaxRewrites /\ job \in Optional(Job)
      /\ files \in [Readers -> Optional(File)]
  BY InvFacts
<1>3. job' \in Optional(Job)
  <2>1. CASE OpeningPath(p)
    <3>1. job \in Job
      BY <2>1, InvFacts DEF OpeningPath
    <3>2. [job EXCEPT !.seen = @ \cup {d}] \in Job
      <4>1. job.seen \cup {d} \in SUBSET OnDisk
        BY <3>1 DEF Job
      <4> QED BY <3>1, <4>1 DEF Job
    <3> QED BY <1>1, <2>1, <3>2 DEF Optional
  <2>2. CASE ~OpeningPath(p)
    BY <1>1, <1>2, <2>2
  <2> QED BY <2>1, <2>2
<1>4. TypeOK'
  <2>1. disk' \in [Paths -> OnDisk]
    BY <1>1, <1>2
  <2>2. rewrites' \in 0..MaxRewrites
    BY <1>1, <1>2, WlfAssumption
  <2> QED BY <1>1, <1>3, <2>1, <2>2, InvFacts DEF TypeOK
<1>5. \A r \in Readers : files[r] # None => disk'[files[r].path] = disk[files[r].path]
  <2> SUFFICES ASSUME NEW r \in Readers, files[r] # None
               PROVE  disk'[files[r].path] = disk[files[r].path]
    OBVIOUS
  <2>1. files[r].path \in Paths /\ files[r].path # p
    BY <1>1, InvFacts DEF File
  <2> QED BY <1>1, <1>2, <2>1
<1>6. ASSUME NEW r \in Readers
      PROVE  ReaderInv(files[r], callers[r], disk', sdk, resolution)
  <2>1. ReaderInv(files[r], callers[r], disk, sdk, resolution)
    BY InvFacts
  <2>2. CASE files[r] = None
    BY <2>1, <2>2 DEF ReaderInv, FileInv, Agrees, TraversalInv
  <2>3. CASE files[r] # None
    <3>1. disk'[files[r].path] = disk[files[r].path]
      BY <1>5, <2>3
    <3> QED BY <2>1, <3>1 DEF ReaderInv, FileInv, Agrees, TraversalInv
  <2> QED BY <2>2, <2>3
<1>7. job' # None => JobInv(job', files, callers, disk', sdk)
  <2>1. CASE OpeningPath(p)
    <3> DEFINE j == [job EXCEPT !.seen = @ \cup {d}]
    <3>1. job # None /\ job.kind = "open" /\ job.path = p /\ job \in Job
          /\ JobInv(job, files, callers, disk, sdk)
      BY <2>1, InvFacts DEF OpeningPath, Inv
    <3>2. /\ j.kind = "open" /\ j.path = p /\ j.reader = job.reader /\ j.step = job.step
          /\ j.owner = job.owner /\ j.before = job.before /\ j.seen = job.seen \cup {d}
          /\ job' = j
      BY <1>1, <2>1, <3>1 DEF Job
    <3> HIDE DEF j
    <3>3. JobShape(j, files[j.reader], callers[j.reader])
      BY <3>1, <3>2 DEF JobInv, JobShape, Holding
    <3>4. OpenInv(job, disk, sdk) /\ disk'[p] = d
      BY <1>1, <1>2, <3>1 DEF JobInv
    <3>5. OpenInv(j, disk', sdk)
      <4>1. \A e, h \in j.seen : e.stamp = h.stamp => e = h
        BY <1>1, <2>1, <3>1, <3>2, <3>4 DEF OpenInv
      <4>2. j.step \in {"native", "identity"} => \E e \in j.seen : e.stamp = j.before
        BY <3>1, <3>2, <3>4 DEF OpenInv
      <4>3. j.step = "identity" => d.stamp # j.before
        BY <1>1, <2>1, <3>1, <3>2, <3>4 DEF OpenInv
      <4>4. Holding(j) =>
               /\ OwnerInv(j.owner)
               /\ j.step # "hash" => \E e \in j.seen : e.recording = j.owner.recording
        BY <3>1, <3>2, <3>4 DEF OpenInv, Holding
      <4>5. Overlap /\ d \in j.seen /\ (j.step = "hash" => j.owner.identity # None)
        BY <1>1, <2>1, <3>1, <3>2, <3>4 DEF OpenInv
      <4> QED BY <3>2, <3>4, <4>1, <4>2, <4>3, <4>4, <4>5 DEF OpenInv
    <3> QED BY <3>1, <3>2, <3>3, <3>5 DEF JobInv
  <2>2. CASE ~OpeningPath(p)
    <3> SUFFICES ASSUME job # None PROVE JobInv(job, files, callers, disk', sdk)
      BY <1>1, <2>2
    <3>1. JobInv(job, files, callers, disk, sdk) /\ job.reader \in Readers
      BY InvFacts DEF Inv
    <3>2. CASE job.kind = "open"
      <4>1. job.path \in Paths /\ job.path # p
        BY <2>2, <3>1, <3>2 DEF JobInv, JobShape, OpeningPath
      <4>2. disk'[job.path] = disk[job.path]
        BY <1>1, <1>2, <4>1
      <4> QED BY <3>1, <3>2, <4>2 DEF JobInv, OpenInv
    <3>3. CASE job.kind # "open"
      <4>1. files[job.reader] # None
        BY <3>1, <3>3 DEF JobInv, JobShape
      <4>2. disk'[files[job.reader].path] = disk[files[job.reader].path]
        BY <1>5, <3>1, <4>1
      <4> QED BY <3>1, <3>3, <4>2 DEF JobInv, JobTraversalInv
    <3> QED BY <3>2, <3>3
  <2> QED BY <2>1, <2>2
<1>8. job' # None /\ job'.kind = "open" => idle = None
  <2>1. CASE OpeningPath(p)
    BY <2>1 DEF OpeningPath, Inv
  <2>2. CASE ~OpeningPath(p)
    BY <1>1, <2>2 DEF Inv
  <2> QED BY <2>1, <2>2
<1>9. IdleInv(idle, files, sdk)
  BY InvFacts
<1> QED BY <1>1, <1>4, <1>6, <1>7, <1>8, <1>9 DEF Inv

-----------------------------------------------------------------------------
(* The invariant is inductive. *)

LEMMA Inductive ==
    ASSUME Inv, [Next]_vars
    PROVE  Inv'
<1>1. CASE JobStep
  BY <1>1, OpenHashStep, OpenResetStep, OpenStatStep, OpenNativeStep, OpenNativeFailsStep,
     OpenIdentityStep, OpenImportStep, OpenImportFailsStep, FileKeptStep, FileReopenedStep,
     FileFailsStep, RunBeginStep, RunBeginFailsStep, RunSampleStep, NextRefillStep,
     NextSkipStep, NextTransferStep, NextDecodeFailsStep, NextReadFailsStep,
     NextFinishedStep DEF JobStep
<1>2. ASSUME NEW r \in Readers, CallerStep(r) PROVE Inv'
  BY <1>2, OpenStep, ValidateStep, BeginReadStep, SampleBitsStep, NextBatchStep, VisitStep,
     VisitStopsStep, EndTraversalStep, CloseStep DEF CallerStep
<1>3. ASSUME NEW p \in Paths, ReadMetadata(p) PROVE Inv'
  BY <1>3, ReadMetadataStep
<1>4. ASSUME NEW p \in Paths, NEW d \in OnDisk, Replace(p, d) PROVE Inv'
  BY <1>4, ReplaceStep
<1>5. CASE UNCHANGED vars
  BY <1>5 DEF vars, Inv, TypeOK
<1> QED BY <1>1, <1>2, <1>3, <1>4, <1>5 DEF Next

LEMMA InvHolds == Spec => []Inv
<1>1. Init => Inv
  BY InitInv
<1>2. Inv /\ [Next]_vars => Inv'
  BY Inductive
<1> QED BY <1>1, <1>2, PTL DEF Spec

-----------------------------------------------------------------------------
(* What the invariant says. *)

LEMMA InvWorker == Inv => WorkerInv
<1> SUFFICES ASSUME Inv PROVE WorkerInv
  OBVIOUS
<1>1. ResolutionAgrees
  BY InvFacts DEF ResolutionAgrees, Agrees, IdleInv
<1> QED BY <1>1 DEF WorkerInv, Inv

LEMMA InvIdentity == Inv => IdentityTrue
<1> SUFFICES ASSUME Inv PROVE IdentityTrue
  OBVIOUS
<1>1. ASSUME NEW r \in Readers, files[r] # None, files[r].native # None
      PROVE  OwnerInv(files[r].native)
  BY <1>1, InvFacts DEF FileInv
<1>2. idle # None => OwnerInv(idle.owner)
  BY InvFacts DEF IdleInv
<1> QED BY <1>1, <1>2 DEF IdentityTrue, OwnerInv

LEMMA InvIdle == Inv => IdleClean
BY InvFacts DEF IdleClean, IdleInv

LEMMA InvExactly == Inv => ExactlyOnce
<1> SUFFICES ASSUME Inv, NEW r \in Readers, files[r] # None, callers[r].window # None,
                    Undisturbed(r)
             PROVE  LET got == callers[r].got
                        expected == Expected(r)
                    IN /\ Len(got) <= Len(expected)
                       /\ got = SubSeq(expected, 1, Len(got))
                       /\ callers[r].complete => got = expected
  BY DEF ExactlyOnce
<1> DEFINE f == files[r]
           k == callers[r]
           c == f.recording
           w == k.window
           got == k.got
           b == Start(c, w)
           e == Stop(c, w)
           q == Reached(f, k)
<1>1. /\ f \in File /\ k \in Caller /\ ReaderShape(f, k) /\ TraversalInv(f, k, disk)
  BY InvFacts
<1>2. c \in Recordings /\ RangeOf(w) /\ got \in Seq(Record) /\ disk[f.path].recording = c
  BY <1>1, CallerRange DEF File, Caller, Undisturbed
<1>3. Covers(c, w, got, b, q) /\ (k.complete => q = e) /\ q = b + Len(got)
  BY <1>1, <1>2 DEF TraversalInv, Reached
<1>4. /\ Len(History[c]) \in Nat /\ b \in 1..(Len(History[c]) + 1)
      /\ e \in 1..(Len(History[c]) + 1) /\ b <= e /\ Len(got) \in Nat
  BY <1>2, RangeFacts, HistoryFacts DEF RangeOf
<1>5. Expected(r) = Piece(c, b, e - 1)
  BY DEF Expected, InRange, Piece, Start, Stop
<1>6. got = Piece(c, b, q - 1) /\ q <= e
  BY <1>3 DEF Covers
<1> HIDE DEF f, k, c, w, got, b, e, q
<1>7. e - 1 \in 0..Len(History[c]) /\ b <= (e - 1) + 1 /\ (e - 1) - b + 1 = e - b
  BY <1>4
<1>8. Len(Piece(c, b, e - 1)) = e - b
  BY <1>2, <1>4, <1>7, PieceFacts
<1>9. Len(got) \in 0..((e - 1) - b + 1) /\ b + Len(got) - 1 = q - 1 /\ Len(got) <= e - b
  BY <1>3, <1>4, <1>6, <1>7
<1>10. SubSeq(Piece(c, b, e - 1), 1, Len(got)) = Piece(c, b, b + Len(got) - 1)
  <2> DEFINE n == Len(got)
  <2>1. n \in 0..((e - 1) - b + 1)
    BY <1>9
  <2> HIDE DEF n
  <2>2. SubSeq(Piece(c, b, e - 1), 1, n) = Piece(c, b, b + n - 1)
    BY <1>2, <1>4, <1>7, <2>1, PiecePrefix
  <2> QED BY <2>2 DEF n
<1>11. /\ Len(got) <= Len(Expected(r)) /\ got = SubSeq(Expected(r), 1, Len(got))
       /\ k.complete => got = Expected(r)
  BY <1>3, <1>5, <1>6, <1>8, <1>9, <1>10
<1> QED BY <1>11 DEF k, got

LEMMA InvWhole == Inv => WholeTicks
<1> SUFFICES ASSUME Inv, NEW r \in Readers, files[r] # None, Undisturbed(r),
                    callers[r].batch # None, callers[r].batch.records # <<>>,
                    ~callers[r].batch.error
             PROVE  LET rs == callers[r].batch.records
                        x == rs[Len(rs)]
                        expected == Expected(r)
                    IN \A i \in 1..Len(expected) :
                          expected[i].tick = x.tick => ~Before(x, expected[i])
  BY DEF WholeTicks
<1> DEFINE f == files[r]
           k == callers[r]
           c == f.recording
           w == k.window
           h == History[c]
           rs == k.batch.records
           b == Start(c, w)
           e == Stop(c, w)
           p == Reached(f, k)
           q == p + Len(rs)
<1>1. /\ f \in File /\ k \in Caller /\ ReaderShape(f, k) /\ TraversalInv(f, k, disk)
  BY InvFacts
<1>2. k.pc = "visiting" /\ w # None /\ k.batch \in Batch
  BY <1>1 DEF ReaderShape
<1>3. /\ c \in Recordings /\ RangeOf(w) /\ rs \in Seq(Record)
      /\ disk[f.path].recording = c /\ Len(k.got) \in Nat
  <2>1. c \in Recordings /\ k.got \in Seq(Record) /\ disk[f.path].recording = c
    BY <1>1 DEF File, Caller, Undisturbed
  <2>2. RangeOf(w)
    BY <1>1, <1>2, CallerRange
  <2>3. rs \in Seq(Record)
    BY <1>2 DEF Batch
  <2> HIDE DEF f, k, c, w, rs
  <2> QED BY <2>1, <2>2, <2>3
<1>4. Covers(c, w, rs, p, q) /\ TickEnds(c, w, q - 1)
  BY <1>1, <1>2, <1>3 DEF TraversalInv, BatchInv
<1>5. /\ Len(h) \in Nat /\ b \in 1..(Len(h) + 1) /\ e \in 1..(Len(h) + 1) /\ b <= e
      /\ \A i \in 1..Len(h) : h[i].tick \in Nat /\ h[i].selection \in Nat
      /\ \A i, j \in 1..Len(h) : i < j => Before(h[i], h[j])
      /\ \A i, j \in 1..Len(h) : i <= j => h[i].tick <= h[j].tick
  BY <1>3, RangeFacts, HistoryFacts DEF RangeOf
<1>6. Expected(r) = Piece(c, b, e - 1)
  BY DEF Expected, InRange, Piece, Start, Stop
<1>7. p \in Int /\ Len(rs) \in Nat /\ Len(rs) > 0
  <2>1. p = b + Len(k.got)
    BY DEF Reached
  <2>2. Len(rs) \in Nat /\ Len(rs) # 0
    BY <1>3, EmptySeq
  <2> HIDE DEF p, rs, b, k
  <2> QED BY <1>3, <1>5, <2>1, <2>2
<1>8. /\ b <= p /\ q <= e
  BY <1>4 DEF Covers
<1> HIDE DEF f, k, c, w, h, rs, b, e, p
<1>9. q \in Int /\ q - 1 \in 1..Len(h) /\ b < q /\ q <= e
  BY <1>5, <1>7, <1>8
<1>10. rs[Len(rs)] = h[q - 1]
  <2>1. \A n \in 1..(q - p) : rs[n] = h[p + n - 1]
    <3> HIDE DEF q
    <3>1. c \in Recordings /\ RangeOf(w) /\ p \in Int /\ q \in Int /\ Covers(c, w, rs, p, q)
      BY <1>3, <1>4, <1>7, <1>9
    <3>2. \A n \in 1..(q - p) : rs[n] = History[c][p + n - 1]
      BY <3>1, CoversFacts
    <3> QED BY <3>2 DEF h
  <2>2. q - p = Len(rs) /\ Len(rs) \in 1..(q - p) /\ p + Len(rs) - 1 = q - 1
    BY <1>7
  <2> QED BY <2>1, <2>2
<1> HIDE DEF q
<1>11. /\ Len(Expected(r)) = e - b
       /\ \A i \in 1..(e - b) : Expected(r)[i] = h[b + i - 1]
  <2> DEFINE z == e - 1
  <2>1. z \in 0..Len(h) /\ b <= z + 1 /\ z - b + 1 = e - b
    BY <1>5
  <2> HIDE DEF z
  <2>2. /\ Len(Piece(c, b, z)) = z - b + 1
        /\ \A n \in 1..(z - b + 1) : Piece(c, b, z)[n] = h[b + n - 1]
    BY <1>3, <1>5, <2>1, PieceFacts DEF h
  <2> QED BY <1>6, <2>1, <2>2 DEF z
<1>12. ASSUME NEW m \in b..(e - 1), h[m].tick = h[q - 1].tick
       PROVE  ~Before(h[q - 1], h[m])
  <2>1. m \in 1..Len(h) /\ m \in Int
    BY <1>5
  <2>2. CASE m <= q - 1
    <3>1. m = q - 1 \/ Before(h[m], h[q - 1])
      BY <1>5, <1>9, <2>1, <2>2
    <3>2. /\ h[m].tick \in Nat /\ h[m].selection \in Nat
          /\ h[q - 1].tick \in Nat /\ h[q - 1].selection \in Nat
      BY <1>5, <1>9, <2>1
    <3> QED BY <3>1, <3>2 DEF Before
  <2>3. CASE m > q - 1
    <3>1. q - 1 # b - 1 /\ q - 1 # e - 1
      BY <1>5, <1>9, <2>1, <2>3
    <3>2. h[q - 1].tick < h[(q - 1) + 1].tick
      BY <1>4, <3>1 DEF TickEnds, b, e, h
    <3>3. (q - 1) + 1 \in 1..Len(h) /\ (q - 1) + 1 <= m
      BY <1>5, <1>9, <2>1, <2>3
    <3>4. h[(q - 1) + 1].tick <= h[m].tick
      BY <1>5, <2>1, <3>3
    <3>5. h[m].tick \in Nat /\ h[q - 1].tick \in Nat /\ h[(q - 1) + 1].tick \in Nat
      BY <1>5, <1>9, <2>1, <3>3
    <3> QED BY <1>12, <3>2, <3>4, <3>5
  <2> QED BY <1>9, <2>1, <2>2, <2>3
<1>13. ASSUME NEW i \in 1..Len(Expected(r)), Expected(r)[i].tick = rs[Len(rs)].tick
       PROVE  ~Before(rs[Len(rs)], Expected(r)[i])
  <2>1. i \in 1..(e - b) /\ b + i - 1 \in b..(e - 1)
    BY <1>5, <1>11
  <2>2. Expected(r)[i] = h[b + i - 1]
    BY <1>11, <2>1
  <2> QED BY <1>10, <1>12, <1>13, <2>1, <2>2
<1> QED BY <1>13 DEF rs, k

-----------------------------------------------------------------------------
(* A reader gets its file only from an open that succeeds. *)

\* No reader without a file gets one.
NoneGained == \A r \in Readers : files[r] = None => files'[r] = None

LEMMA SuspendGainsNone ==
    ASSUME Inv, files' = Suspended
    PROVE  NoneGained
BY SuspendedHolds DEF NoneGained

\* A step that changes at most the file of a live reader.
LEMMA LiveGainsNone ==
    ASSUME Inv, NEW r, files[r] # None,
           \A x \in Readers \ {r} : files'[x] = files[x]
    PROVE  NoneGained
BY DEF NoneGained

LEMMA JobGainsNone ==
    ASSUME Inv, Running("file") \/ Running("run"), JobStep
    PROVE  NoneGained
<1> DEFINE r == job.reader
<1>1. r \in Readers /\ files[r] # None /\ files \in [Readers -> Optional(File)]
      /\ files[r] \in File
  BY RunningFacts, InvFacts
<1>2. job.kind # "open"
  BY DEF Running
<1>3. ~OpenHash /\ ~OpenReset /\ ~OpenStat /\ ~OpenNative /\ ~OpenNativeFails
      /\ ~OpenIdentity /\ ~OpenImport /\ ~OpenImportFails
  BY <1>2 DEF OpenHash, OpenReset, OpenStat, OpenNative, OpenNativeFails, OpenIdentity,
     OpenImport, OpenImportFails, Opening
<1>4. \A x \in Readers : files[x] = None => Selected(r)[x] = None
  <2>1. \A x \in Readers : files[x] = None => Suspended[x] = None
    BY SuspendedHolds
  <2> QED BY <2>1 DEF Selected
<1>5. Selected(r) \in [Readers -> Optional(File)]
  BY <1>1, SelectedHolds
<1>6. CASE FileKept
  BY <1>4, <1>6 DEF FileKept, NoneGained
<1>7. CASE FileFails
  BY <1>4, <1>7 DEF FileFails, NoneGained
<1>8. CASE FileReopened
  <2>1. \A x \in Readers \ {r} : files'[x] = Selected(r)[x]
    BY <1>5, <1>8 DEF FileReopened
  <2> QED BY <1>1, <1>4, <2>1 DEF NoneGained
<1>9. ASSUME \A x \in Readers \ {r} : files'[x] = files[x]
      PROVE  NoneGained
  BY <1>1, <1>9, LiveGainsNone
<1>10. CASE RunBegin
  <2>1. \A x \in Readers \ {r} : files'[x] = files[x]
    BY <1>1, <1>10 DEF RunBegin
  <2> QED BY <1>9, <2>1
<1>11. CASE RunBeginFails
  <2>1. \A x \in Readers \ {r} : files'[x] = files[x]
    BY <1>1, <1>11 DEF RunBeginFails
  <2> QED BY <1>9, <2>1
<1>12. CASE RunSample
  <2>1. \A x \in Readers \ {r} : files'[x] = files[x]
    BY <1>1, <1>12 DEF RunSample
  <2> QED BY <1>9, <2>1
<1>13. CASE NextRefill
  <2>1. \A x \in Readers \ {r} : files'[x] = files[x]
    BY <1>1, <1>13 DEF NextRefill
  <2> QED BY <1>9, <2>1
<1>14. CASE NextSkip
  <2>1. \A x \in Readers \ {r} : files'[x] = files[x]
    BY <1>1, <1>14 DEF NextSkip, Pop
  <2> QED BY <1>9, <2>1
<1>15. CASE NextTransfer
  <2>1. \A x \in Readers \ {r} : files'[x] = files[x]
    BY <1>1, <1>15 DEF NextTransfer, Pop
  <2> QED BY <1>9, <2>1
<1>16. CASE NextDecodeFails
  <2>1. \A x \in Readers \ {r} : files'[x] = files[x]
    BY <1>1, <1>16 DEF NextDecodeFails, Pop
  <2> QED BY <1>9, <2>1
<1>17. CASE NextReadFails
  <2>1. \A x \in Readers \ {r} : files'[x] = files[x]
    BY <1>1, <1>17 DEF NextReadFails
  <2> QED BY <1>9, <2>1
<1>18. CASE NextFinished
  BY <1>18 DEF NextFinished, NoneGained
<1> QED BY <1>3, <1>6, <1>7, <1>8, <1>10, <1>11, <1>12, <1>13, <1>14, <1>15, <1>16, <1>17,
        <1>18 DEF JobStep

LEMMA CallerGainsNone ==
    ASSUME Inv, NEW r \in Readers, CallerStep(r)
    PROVE  NoneGained
<1>1. files \in [Readers -> Optional(File)]
  BY InvFacts
<1>2. CASE EndTraversal(r)
  <2>1. files[r] # None
    BY <1>2, InvFacts DEF EndTraversal, ReaderShape, Live
  <2>2. \A x \in Readers \ {r} : files'[x] = files[x]
    BY <1>1, <1>2 DEF EndTraversal
  <2> QED BY <2>1, <2>2, LiveGainsNone
<1>3. CASE Close(r)
  BY <1>1, <1>3 DEF Close, NoneGained
<1>4. CASE \E p \in Paths : Open(r, p)
  BY <1>4 DEF Open, NoneGained
<1>5. CASE Validate(r)
  BY <1>5 DEF Validate, NoneGained
<1>6. CASE \E w \in Windows : BeginRead(r, w)
  BY <1>6 DEF BeginRead, NoneGained
<1>7. CASE SampleBits(r)
  BY <1>7 DEF SampleBits, NoneGained
<1>8. CASE NextBatch(r)
  BY <1>8 DEF NextBatch, NoneGained
<1>9. CASE Visit(r)
  BY <1>9 DEF Visit, NoneGained
<1>10. CASE VisitStops(r)
  BY <1>10 DEF VisitStops, NoneGained
<1> QED BY <1>2, <1>3, <1>4, <1>5, <1>6, <1>7, <1>8, <1>9, <1>10 DEF CallerStep

\* A file that appears was met by the open that brings it.
LEMMA FreshStep ==
    ASSUME Inv, [Next]_vars, NEW r \in Readers, files[r] = None, files'[r] # None
    PROVE  files'[r].recording \in {d.recording : d \in job.seen}
<1>1. CASE OpenImport
  <2> DEFINE c == job.owner.recording
  <2>1. Opening("import") /\ "import" \in OpenSteps
    BY <1>1 DEF OpenImport, OpenSteps
  <2>2. OpenInv(job, disk, sdk) /\ job.step = "import"
    BY <2>1, OpeningFacts
  <2>3. \E d \in job.seen : d.recording = c
    BY <2>2 DEF OpenInv, Holding
  <2>4. files \in [Readers -> Optional(File)] /\ job.reader \in Readers
    BY <2>1, OpeningFacts, InvFacts
  <2>5. job.reader = r /\ files'[r].recording = c
    BY <1>1, <2>4 DEF OpenImport
  <2> QED BY <2>3, <2>5
<1>2. CASE ~OpenImport
  <2>1. ASSUME NoneGained PROVE FALSE
    BY <2>1 DEF NoneGained
  <2>2. CASE JobStep
    <3>1. CASE Running("file") \/ Running("run")
      BY <2>1, <2>2, <3>1, JobGainsNone
    <3>2. CASE OpenReset
      BY <2>1, <3>2, SuspendGainsNone DEF OpenReset
    <3>3. CASE OpenHash \/ OpenStat \/ OpenNative \/ OpenNativeFails \/ OpenIdentity
               \/ OpenImportFails
      BY <3>3 DEF OpenHash, OpenStat, OpenNative, OpenNativeFails, OpenIdentity,
         OpenImportFails
    <3>4. \/ OpenReset
          \/ OpenHash \/ OpenStat \/ OpenNative \/ OpenNativeFails \/ OpenIdentity
             \/ OpenImportFails
          \/ Running("file") \/ Running("run")
      BY <1>2, <2>2 DEF JobStep, FileKept, FileReopened, FileFails, RunBegin,
         RunBeginFails, RunSample, NextRefill, NextSkip, NextTransfer, NextDecodeFails,
         NextReadFails, NextFinished, Reading
    <3> QED BY <3>1, <3>2, <3>3, <3>4
  <2>3. CASE \E x \in Readers : CallerStep(x)
    BY <2>1, <2>3, CallerGainsNone
  <2>4. CASE \E p \in Paths : ReadMetadata(p)
    BY <2>1, <2>4, SuspendGainsNone DEF ReadMetadata
  <2>5. CASE \E p \in Paths, d \in OnDisk : Replace(p, d)
    BY <2>5 DEF Replace
  <2>6. CASE UNCHANGED vars
    BY <2>6 DEF vars
  <2> QED BY <2>2, <2>3, <2>4, <2>5, <2>6 DEF Next
<1> QED BY <1>1, <1>2

-----------------------------------------------------------------------------
(* The theorems. *)

\* However jobs, callers, writers and faults interleave, the state of the worker
\* keeps its types; and if input files are not replaced while they are opened,
\* State::reset has closed every owner of another resolution than the one that
\* is selected in the SDK.
THEOREM WorkerStaysSound == Spec => []WorkerInv
BY InvHolds, InvWorker, PTL

\* An owner that has an identity was opened for the content of that identity,
\* whatever a writer did between the stat, the native open and the digest of
\* open_handle, as long as a file replaced there gets a stamp that this open has not
\* met (Replace).
THEOREM IdentitiesAreTrue == Spec => []IdentityTrue
BY InvHolds, InvIdentity, PTL

\* close parks only an owner on which no call of the SDK failed and whose query
\* is ended, and no reader is live while it waits.
THEOREM IdleOwnersAreClean == Spec => []IdleClean
BY InvHolds, InvIdle, PTL

\* A successful open shows content that its path had during the open, also when
\* worker::open reused the idle owner.
THEOREM OpensAreFresh == Spec => OpenFresh
<1>1. Inv /\ [Next]_vars =>
        [\A r \in Readers : files[r] = None /\ files'[r] # None =>
              files'[r].recording \in {d.recording : d \in job.seen}]_vars
  BY FreshStep
<1> QED BY <1>1, InvHolds, PTL DEF Spec, OpenFresh

\* A traversal has handed its visitor the records of its range in order and each
\* once, and all of them if it succeeded, although read_from's query may have
\* been suspended by other readers, reopened and replayed at any record.
THEOREM RecordsExactlyOnce == Spec => []ExactlyOnce
BY InvHolds, InvExactly, PTL

\* The same, and every batch that is no error ends with a whole tick.
THEOREM RecordsInOrderOnce == Spec => []InOrderOnce
<1>1. Inv => InOrderOnce
  BY InvExactly, InvWhole DEF InOrderOnce
<1> QED BY <1>1, InvHolds, PTL
=============================================================================
