------------------------------- MODULE Compose -------------------------------
(***************************************************************************)
(* Signal handles of a waveform: slices, concatenations registered with    *)
(* the waveform, the validation of handles, and the plan a query expands   *)
(* its selected signals into before it reads anything.                     *)
(***************************************************************************)
EXTENDS Integers, SequencesExt

CONSTANT MaxWidth   \* u32::MAX

BitsOf(width) == [class |-> "bits", width |-> width]
Other(class) == [class |-> class, width |-> 0]

-----------------------------------------------------------------------------
(* Handles. *)

SignalAt(wave, index) ==
    [source |-> wave.source, index |-> index, computed |-> FALSE,
     base |-> wave.encodings[index], encoding |-> wave.encodings[index], lsb |-> 0]
ComputedSignal(wave, index, width) ==
    [source |-> wave.source, index |-> index, computed |-> TRUE,
     base |-> BitsOf(width), encoding |-> BitsOf(width), lsb |-> 0]

\* Mutation: the base of a part keeps the place of the part.
BaseKeepsLsb(s) == [s EXCEPT !.encoding = s.base]
Base(s) == [s EXCEPT !.encoding = s.base, !.lsb = 0]
IsSlice(s) == s # Base(s)

Success(signal) == [error |-> "none", signal |-> signal]
Failure(error, signal) == [error |-> error, signal |-> signal]

\* Mutation: a slice of a slice counts from the base.
SliceOfBase(s, msb, lsb) ==
    CASE s.encoding.class # "bits" -> Failure("not bits", s)
      [] s.encoding.class = "bits" /\ msb < lsb -> Failure("range", s)
      [] s.encoding.class = "bits" /\ msb >= lsb /\ msb >= s.encoding.width ->
           Failure("bounds", s)
      [] OTHER -> Success([s EXCEPT !.encoding = BitsOf(msb - lsb + 1), !.lsb = lsb])

\* Signal::slice
SliceSignal(s, msb, lsb) ==
    CASE s.encoding.class # "bits" -> Failure("not bits", s)
      [] s.encoding.class = "bits" /\ msb < lsb -> Failure("range", s)
      [] s.encoding.class = "bits" /\ msb >= lsb /\ msb >= s.encoding.width ->
           Failure("bounds", s)
      [] OTHER -> Success([s EXCEPT !.encoding = BitsOf(msb - lsb + 1), !.lsb = @ + lsb])

\* BitRange::slice: HDL indices of a declared range, in its direction.
Distance(i, j) == IF i < j THEN j - i ELSE i - j
Between(i, range) == (range.msb <= i /\ i <= range.lsb) \/ (range.lsb <= i /\ i <= range.msb)
HdlSlice(range, s, msb, lsb) ==
    LET position(i) == Distance(i, range.lsb)
    IN CASE s.encoding.class # "bits" -> Failure("not bits", s)
         [] s.encoding.class = "bits"
              /\ Distance(range.msb, range.lsb) + 1 # s.encoding.width -> Failure("width", s)
         [] OTHER ->
              IF ~Between(msb, range) \/ ~Between(lsb, range) THEN Failure("bounds", s)
              ELSE IF position(msb) < position(lsb) THEN Failure("direction", s)
              ELSE SliceSignal(s, position(msb), position(lsb))

\* Waveform::validate, Hierarchy::validate_encoding: a handle of this open, with the
\* encoding its base has here and a part within it.
Registered(wave, s) ==
    IF s.computed THEN IF s.index <= Len(wave.definitions)
                       THEN {BitsOf(wave.definitions[s.index].width)} ELSE {}
    ELSE IF s.index <= Len(wave.encodings) THEN {wave.encodings[s.index]} ELSE {}
Validate(wave, s) ==
    /\ s.source = wave.source
    /\ s.base \in Registered(wave, s)
    /\ IF s.base.class = "bits" /\ s.encoding.class = "bits"
       THEN /\ s.encoding.width > 0 \/ ~IsSlice(s)
            /\ s.lsb + s.encoding.width <= s.base.width
       ELSE s.base = s.encoding /\ s.lsb = 0

-----------------------------------------------------------------------------
(* Waveform::concat *)

\* The first part that cannot be used decides; widths add up to a u32.
CheckPart(wave, st, s) ==
    CASE st.error # "none" -> st
      [] st.error = "none" /\ ~Validate(wave, s) -> [st EXCEPT !.error = "invalid"]
      [] OTHER ->
           CASE s.encoding.class = "unsupported" -> [st EXCEPT !.error = "unsupported"]
             [] s.encoding.class \notin {"bits", "unsupported"} ->
                  [st EXCEPT !.error = "not bits"]
             [] s.encoding.class = "bits" /\ s.encoding.width = 0 ->
                  [st EXCEPT !.error = "empty part"]
             [] OTHER -> IF st.width + s.encoding.width > MaxWidth
                         THEN [st EXCEPT !.error = "width overflow"]
                         ELSE [st EXCEPT !.width = @ + s.encoding.width]
CheckParts(wave, parts) ==
    FoldLeft(LAMBDA st, s : CheckPart(wave, st, s), [error |-> "none", width |-> 0], parts)

\* One part is that part; equal parts are one definition.
Concat(wave, parts) ==
    LET checked == CheckParts(wave, parts)
        known == {i \in 1..Len(wave.definitions) : wave.definitions[i].parts = parts}
        index == IF known = {} THEN Len(wave.definitions) + 1
                 ELSE CHOOSE i \in known : TRUE
        defined == IF known = {}
                   THEN [wave EXCEPT !.definitions =
                           Append(@, [parts |-> parts, width |-> checked.width])]
                   ELSE wave
    IN CASE parts = <<>> -> [wave |-> wave, error |-> "empty", signals |-> {}]
         [] parts # <<>> /\ checked.error # "none" ->
              [wave |-> wave, error |-> checked.error, signals |-> {}]
         [] OTHER ->
              IF Len(parts) = 1 THEN [wave |-> wave, error |-> "none", signals |-> {parts[1]}]
              ELSE [wave |-> defined, error |-> "none",
                    signals |-> {ComputedSignal(defined, index, checked.width)}]

-----------------------------------------------------------------------------
(* Plan::new: an explicit stack; a computed signal is met twice, and its slot  *)
(* is assigned after those of its inputs.                                      *)

SlotOf(plan, s) == CHOOSE k \in 1..Len(plan.retained) : plan.retained[k] = s

\* What a computed signal is computed from, in order.
Inputs(wave, s) ==
    IF IsSlice(s) THEN <<Base(s)>> ELSE wave.definitions[s.index].parts

Retain(wave, plan, s) ==
    LET slot == Len(plan.retained) + 1
        grown == [plan EXCEPT !.retained = Append(@, s)]
        group == IF s.index \in DOMAIN plan.groups THEN plan.groups[s.index] ELSE <<>>
    IN IF s.computed
       THEN [grown EXCEPT !.computations = Append(@,
               [slot |-> slot, slice |-> IsSlice(s), signal |-> s,
                inputs |-> LET from == Inputs(wave, s)
                           IN [i \in 1..Len(from) |-> SlotOf(plan, from[i])]])]
       ELSE [grown EXCEPT
               !.bases = IF s.index \in DOMAIN plan.groups THEN @ ELSE Append(@, Base(s)),
               !.groups = (s.index :> Append(group, slot)) @@ @]

RECURSIVE Expand(_, _, _)
Expand(wave, plan, pending) ==
    LET top == Last(pending)
        s == top.signal
        rest == Front(pending)
        inputs == Reverse(Inputs(wave, s))
    IN CASE plan.error # "none" \/ pending = <<>> -> plan
         [] plan.error = "none" /\ pending # <<>> /\ Contains(plan.retained, s) ->
              Expand(wave, plan, rest)
         [] OTHER ->
              IF ~top.expanded /\ ~Validate(wave, s) THEN [plan EXCEPT !.error = "invalid"]
              ELSE IF ~top.expanded /\ s.encoding.class = "unsupported"
              THEN [plan EXCEPT !.error = "unsupported"]
              ELSE IF s.computed /\ ~top.expanded
              THEN Expand(wave, plan,
                          rest \o <<[signal |-> s, expanded |-> TRUE]>>
                            \o [i \in 1..Len(inputs) |->
                                  [signal |-> inputs[i], expanded |-> FALSE]])
              ELSE Expand(wave, Retain(wave, plan, s), rest)

Plan(wave, signals) ==
    FoldLeft(LAMBDA plan, s :
        LET grown == Expand(wave, plan, <<[signal |-> s, expanded |-> FALSE]>>)
        IN IF grown.error # "none" THEN grown
           ELSE [grown EXCEPT !.indices = Append(@, SlotOf(grown, s))],
        [error |-> "none", retained |-> <<>>, indices |-> <<>>, bases |-> <<>>,
         groups |-> <<>>, computations |-> <<>>], signals)
==============================================================================
