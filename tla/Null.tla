--------------------------------- MODULE Null ---------------------------------
(* The database's NULL, and JavaScript's null: a value outside every set of *)
(* ids.  The modules that occur together in a run take it from here.        *)
CONSTANT NULL
=============================================================================
