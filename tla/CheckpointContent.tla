-------------------------- MODULE CheckpointContent --------------------------
(***************************************************************************)
(* What a task engine must make durable, abstracted to versions: the       *)
(* operational columns of the task row, its harness input column, and the  *)
(* transcript rows.  A larger version is a later mutation.                 *)
(***************************************************************************)
EXTENDS Naturals

CONSTANT Entries  \* ids of transcript entries (messages, logs, tool calls)

Content == [op : Nat, inputs : Nat, entry : [Entries -> Nat]]

(* a holds no mutation that b lacks. *)
Covered(a, b) ==
  /\ a.op <= b.op
  /\ a.inputs <= b.inputs
  /\ \A e \in Entries : a.entry[e] <= b.entry[e]

NoChanges == [e \in Entries |-> 0]

NothingWritten == [op |-> 0, inputs |-> 0, entry |-> NoChanges]

=============================================================================
