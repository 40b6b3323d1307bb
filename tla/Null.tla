-------------------------------- MODULE Null --------------------------------
(* Python's None and the NULL of a column: no value. *)
CONSTANT None
=============================================================================
