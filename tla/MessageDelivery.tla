--------------------------- MODULE MessageDelivery ---------------------------
(***************************************************************************)
(* What is promised about a message to an agent, without the queue of a    *)
(* chat or the mailbox of a task, their prompts, failures and restarts.    *)
(* A message that was sent is held until it is given to the agent, once;   *)
(* or shown in the transcript although the agent may never have got it; or *)
(* withdrawn or replaced by the user; or refused.  Whichever of these      *)
(* happens first is the end of it.                                         *)
(***************************************************************************)
EXTENDS Naturals

CONSTANT Messages

VARIABLES fate, copies

deliveryVars == <<fate, copies>>

Ends == {"given", "shown", "withdrawn", "refused"}

Init ==
  /\ fate = [m \in Messages |-> "unsent"]
  /\ copies = [m \in Messages |-> 0]

Moves(m) ==
  \/ fate'[m] = fate[m]
  \/ fate[m] = "unsent" /\ fate'[m] = "held"
  \/ fate[m] = "held" /\ fate'[m] \in Ends

(* One step may end several messages: a prompt takes all that wait.        *)
Next ==
  /\ fate' = [m \in Messages |-> fate'[m]]
  /\ \A m \in Messages : Moves(m)
  /\ copies' = [m \in Messages |->
       IF fate[m] # "given" /\ fate'[m] = "given" THEN copies[m] + 1 ELSE copies[m]]

Spec == Init /\ [][Next]_deliveryVars

=============================================================================
