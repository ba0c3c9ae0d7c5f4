------------------------------- MODULE Absent -------------------------------
(* The absence of a value: Python's None, SQL's null. *)
CONSTANT None
=============================================================================
