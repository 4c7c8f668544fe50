----------------------------- MODULE DurableStore -----------------------------
(***************************************************************************)
(* What a memory-first checkpoint promises, without the queue: memory runs *)
(* ahead of the store, the store only ever moves forward and never ahead   *)
(* of memory, a crash falls back to the store, and only what the store     *)
(* already holds is acknowledged to a caller.                              *)
(***************************************************************************)
EXTENDS CheckpointContent

VARIABLES live, durable, acknowledged

storeVars == <<live, durable, acknowledged>>

Init ==
  /\ live = NothingWritten
  /\ durable = NothingWritten
  /\ acknowledged = NothingWritten

(* Memory is mutated, written, or both. *)
Advance ==
  /\ live' \in Content
  /\ Covered(live, live')
  /\ durable' \in Content
  /\ Covered(durable, durable')
  /\ Covered(durable', live')
  /\ UNCHANGED acknowledged

Acknowledge ==
  /\ acknowledged' \in Content
  /\ Covered(acknowledged', durable)
  /\ UNCHANGED <<live, durable>>

Crash ==
  /\ live' = durable
  /\ UNCHANGED <<durable, acknowledged>>

Next == Advance \/ Acknowledge \/ Crash

Spec == Init /\ [][Next]_storeVars

=============================================================================
