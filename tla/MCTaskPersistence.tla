------------------------- MODULE MCTaskPersistence --------------------------
(* A small instance of TaskPersistence: two transcript entries. *)
EXTENDS TaskPersistence

=============================================================================
