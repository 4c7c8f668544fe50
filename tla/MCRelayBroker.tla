---------------------------- MODULE MCRelayBroker ----------------------------
(* Model checking of RelayBroker.  Keys are only compared. *)
EXTENDS RelayBroker, TLC

KeySymmetry == Permutations(Keys)

=============================================================================
