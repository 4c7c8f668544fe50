------------------------------ MODULE MCChats ------------------------------
(* A small instance of Chats. *)
EXTENDS Chats

=============================================================================
