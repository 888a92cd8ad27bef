------------------------------ MODULE Optional -------------------------------
(* The absent value of an optional attribute, sample or time. *)
CONSTANT None
==============================================================================
