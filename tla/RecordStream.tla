---------------------------- MODULE RecordStream ----------------------------
(***************************************************************************)
(* What a reader promises a query: a read has a fixed sequence of records  *)
(* to deliver, delivers them in that order and from the first one on, and  *)
(* succeeds only after the last one.  The visitor may stop it at a record, *)
(* a failure may end it at any point.  How records are found, merged,      *)
(* batched or handed between threads is invisible.                         *)
(***************************************************************************)
EXTENDS Naturals, Sequences

CONSTANT
    Stopped     \* how a read that its visitor stopped is reported

VARIABLES
    promise,    \* the records of the read in progress or of the last one
    delivered,  \* the records its visitor has seen
    result      \* "none", "running", "ok", "error" or a member of Stopped

vars == <<promise, delivered, result>>

Init ==
    /\ delivered = <<>>
    /\ result = "none"

Begin ==
    /\ result # "running"
    /\ result' = "running"
    /\ delivered' = <<>>

\* The records up to the n-th one are delivered.
UpTo(n) ==
    /\ n \in Len(delivered)..Len(promise)
    /\ delivered' = SubSeq(promise, 1, n)

Deliver ==
    /\ result = "running"
    /\ result' = "running"
    /\ promise' = promise
    /\ \E n \in 1..Len(promise) : n > Len(delivered) /\ UpTo(n)

\* A visitor stops a read at a record it has been shown.
Stop ==
    /\ result = "running"
    /\ result' \in Stopped
    /\ promise' = promise
    /\ \E n \in 1..Len(promise) : UpTo(n)

Succeed ==
    /\ result = "running"
    /\ result' = "ok"
    /\ promise' = promise
    /\ UpTo(Len(promise))

Fail ==
    /\ result = "running"
    /\ result' = "error"
    /\ promise' = promise
    /\ \E n \in 0..Len(promise) : UpTo(n)

\* The reader is closed and may be opened again.
Forget ==
    /\ result # "running"
    /\ result' = "none"
    /\ delivered' = <<>>

Next == Begin \/ Deliver \/ Stop \/ Succeed \/ Fail \/ Forget

Spec == Init /\ [][Next]_vars
=============================================================================
