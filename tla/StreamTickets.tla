---------------------------- MODULE StreamTickets ----------------------------
(***************************************************************************)
(* What the relay promises about a stream ticket, without connections,     *)
(* reservations and maps.  A ticket is issued once.  Each side redeems its *)
(* credential once, and only so may its data socket join; when both have   *)
(* joined there is a stream.  Whatever ends a ticket or a stream takes     *)
(* both sockets along in one step: none is left behind and none comes back.*)
(***************************************************************************)
CONSTANTS Tickets, Sides

VARIABLES
  phase,   \* none, ticket, stream or gone
  unused,  \* the sides whose credential is still good
  joined   \* the sides whose data socket is open

ticketVars == <<phase, unused, joined>>

Init ==
  /\ phase = [t \in Tickets |-> "none"]
  /\ unused = [t \in Tickets |-> {}]
  /\ joined = [t \in Tickets |-> {}]

Issue(t) ==
  /\ phase[t] = "none"
  /\ phase' = [phase EXCEPT ![t] = "ticket"]
  /\ unused' = [unused EXCEPT ![t] = Sides]
  /\ UNCHANGED joined

Redeem(t, s) ==
  /\ phase[t] = "ticket" /\ s \in unused[t]
  /\ unused' = [unused EXCEPT ![t] = @ \ {s}]
  /\ UNCHANGED <<phase, joined>>

Join(t, s) ==
  /\ phase[t] = "ticket" /\ s \notin unused[t] /\ s \notin joined[t]
  /\ joined' = [joined EXCEPT ![t] = @ \cup {s}]
  /\ phase' = [phase EXCEPT ![t] = IF joined'[t] = Sides THEN "stream" ELSE "ticket"]
  /\ UNCHANGED unused

(* A peer that goes ends all that it had. *)
End(S) ==
  /\ \A t \in S : phase[t] \in {"ticket", "stream"}
  /\ phase' = [t \in Tickets |-> IF t \in S THEN "gone" ELSE phase[t]]
  /\ unused' = [t \in Tickets |-> IF t \in S THEN {} ELSE unused[t]]
  /\ joined' = [t \in Tickets |-> IF t \in S THEN {} ELSE joined[t]]

Next ==
  \/ \E t \in Tickets : Issue(t) \/ \E s \in Sides : Redeem(t, s) \/ Join(t, s)
  \/ \E S \in SUBSET Tickets : End(S)

Spec == Init /\ [][Next]_ticketVars

=============================================================================
