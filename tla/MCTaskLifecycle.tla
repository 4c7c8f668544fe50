--------------------------- MODULE MCTaskLifecycle ---------------------------
(* A small instance of TaskLifecycle. *)
EXTENDS TaskLifecycle

=============================================================================
