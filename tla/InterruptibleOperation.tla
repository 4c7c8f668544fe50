----------------------- MODULE InterruptibleOperation -----------------------
(***************************************************************************)
(* The coordinator of src/core/interruptible-operation.ts together with    *)
(* its two clients, promptDeterministicAgent and                           *)
(* generateDeterministicAgentCode.  A client walks through the steps of a  *)
(* program: it sends a message to a chat, waits for the chat to become     *)
(* idle, or polls for a file.  Sends and waits are phases of the           *)
(* coordinator; polls only watch the signal.  The signal may abort at any  *)
(* moment.  A message that was accepted becomes a turn of the agent, and   *)
(* what the coordinator is for is that a cancelled client leaves no turn   *)
(* behind, although the message may be accepted after the interrupt.       *)
(***************************************************************************)
EXTENDS Naturals, Sequences

CONSTANT Programs   \* the step sequences clients run

Kinds == {"send", "wait", "poll"}

ASSUME ProgramsAssumption == Programs \subseteq Seq(Kinds)

VARIABLES
  program,     \* the steps of this client
  at,          \* the step the client is at
  caller,      \* what the client is awaiting
  winner,      \* which promise settled the race of the current phase
  op,          \* per step, how far its operation got
  signal,      \* signal.aborted
  aborted,     \* this.aborted
  disposed,    \* this.disposed
  active,      \* this.activePhase, 0 for none
  cancel,      \* how far cancellationPromise got
  cancelPhase, \* the unsettled phase it captured, 0 for none
  initial,     \* initialInterruptPromise
  late,        \* lateInterruptPromise of the captured phase
  turn,        \* whether the chat works on a message of this client
  timedOut,    \* onSettlementTimeout was called
  failed       \* onInterruptError was called

vars == <<program, at, caller, winner, op, signal, aborted, disposed, active,
          cancel, cancelPhase, initial, late, turn, timedOut, failed>>

Steps == 1 .. Len(program)
AllowsLate(i) == program[i] = "send"
Unsettled == {"running", "sent"}
Settled == {"resolved", "rejected"}

TypeOK ==
  /\ program \in Programs
  /\ at \in 1 .. Len(program) + 1
  /\ caller \in {"between", "phase", "aborting", "disposing", "done"}
  /\ winner \in {"none", "operation", "abort"}
  /\ op \in [Steps -> {"none", "scheduled"} \cup Unsettled \cup Settled]
  /\ signal \in BOOLEAN /\ aborted \in BOOLEAN /\ disposed \in BOOLEAN
  /\ active \in (Steps \cap {at}) \cup {0} /\ cancelPhase \in Steps \cup {0}
  /\ cancel \in {"none", "initial", "waiting", "done"}
  /\ initial \in {"none", "calling", "done"}
  /\ late \in {"none", "scheduled", "calling", "done"}
  /\ turn \in BOOLEAN /\ timedOut \in BOOLEAN /\ failed \in BOOLEAN

(* The coordinator is made after awaits: its signal may have aborted by    *)
(* then, and the client gives up as soon as it is constructed.             *)
Init ==
  /\ program \in Programs /\ signal \in BOOLEAN
  /\ at = 1 /\ winner = "none"
  /\ op = [i \in Steps |-> "none"]
  /\ caller = IF signal THEN "disposing" ELSE "between"
  /\ aborted = signal /\ disposed = FALSE
  /\ active = 0 /\ cancelPhase = 0 /\ late = "none"
  /\ cancel = IF signal THEN "initial" ELSE "none"
  /\ initial = IF signal THEN "calling" ELSE "none"
  /\ turn = FALSE /\ timedOut = FALSE /\ failed = FALSE

-----------------------------------------------------------------------------
(* The coordinator's side of a cancellation.                               *)

(* requestInterrupt: only the first call decides which phase is awaited. *)
RequestInterrupt(phase) ==
  IF cancel # "none"
  THEN UNCHANGED <<cancel, cancelPhase, initial>>
  ELSE /\ cancel' = "initial"
       /\ cancelPhase' = IF phase # 0 /\ op[phase] \in Unsettled THEN phase ELSE 0
       /\ initial' = "calling"

(* The signal aborts; handleAbort runs in it while the listener is there. *)
Abort ==
  /\ ~signal
  /\ signal' = TRUE
  /\ IF disposed
     THEN UNCHANGED <<aborted, winner, cancel, cancelPhase, initial>>
     ELSE /\ aborted' = TRUE
          /\ winner' = IF caller = "phase" /\ winner = "none" THEN "abort" ELSE winner
          /\ RequestInterrupt(active)
  /\ UNCHANGED <<program, at, caller, op, disposed, active, late, turn, timedOut, failed>>

(* interruptChat ends the turn it finds, or fails. *)
Interrupted == \/ turn' = FALSE /\ UNCHANGED failed
               \/ failed' = TRUE /\ UNCHANGED turn

InitialInterrupt ==
  /\ initial = "calling"
  /\ initial' = "done"
  /\ Interrupted
  /\ cancel' = IF cancelPhase = 0 THEN "done" ELSE "waiting"
  /\ late' = IF cancelPhase # 0 /\ AllowsLate(cancelPhase) THEN "scheduled" ELSE "none"
  /\ UNCHANGED <<program, at, caller, winner, op, signal, aborted, disposed, active,
                 cancelPhase, timedOut>>

LateInterruptStarts ==
  /\ late = "scheduled" /\ op[cancelPhase] \in Settled
  /\ late' = "calling"
  /\ UNCHANGED <<program, at, caller, winner, op, signal, aborted, disposed, active,
                 cancel, cancelPhase, initial, turn, timedOut, failed>>

LateInterrupt ==
  /\ late = "calling"
  /\ late' = "done"
  /\ Interrupted
  /\ UNCHANGED <<program, at, caller, winner, op, signal, aborted, disposed, active,
                 cancel, cancelPhase, initial, timedOut>>

CancellationSettles ==
  /\ cancel = "waiting" /\ op[cancelPhase] \in Settled /\ late \in {"none", "done"}
  /\ cancel' = "done"
  /\ UNCHANGED <<program, at, caller, winner, op, signal, aborted, disposed, active,
                 cancelPhase, initial, late, turn, timedOut, failed>>

(* Defect: giving up on the settlement disarms the late interrupt. *)
LateDroppedAtTimeout ==
  /\ cancel = "waiting" /\ op[cancelPhase] \notin Settled
  /\ cancel' = "done" /\ timedOut' = TRUE /\ late' = "none"
  /\ UNCHANGED <<program, at, caller, winner, op, signal, aborted, disposed, active,
                 cancelPhase, initial, turn, failed>>

(* Defect: the wait for the settlement is unbounded. *)
NoSettlementTimeout == FALSE

SettlementTimeout ==
  /\ cancel = "waiting" /\ op[cancelPhase] \notin Settled
  /\ cancel' = "done" /\ timedOut' = TRUE
  /\ UNCHANGED <<program, at, caller, winner, op, signal, aborted, disposed, active,
                 cancelPhase, initial, late, turn, failed>>

-----------------------------------------------------------------------------
(* The operations of the phases, run by the chat manager.                  *)

(* Defect: the operation starts without the second look at the signal. *)
StartsWithoutCheck(i) ==
  /\ op[i] = "scheduled"
  /\ op' = [op EXCEPT ![i] = "running"]
  /\ UNCHANGED <<program, at, caller, winner, signal, aborted, disposed, active, cancel,
                 cancelPhase, initial, late, turn, timedOut, failed>>

(* The microtask that starts an operation looks at the signal once more. *)
StartOperation(i) ==
  /\ op[i] = "scheduled"
  /\ op' = [op EXCEPT ![i] = IF aborted \/ signal THEN "rejected" ELSE "running"]
  /\ winner' = IF (aborted \/ signal) /\ winner = "none" THEN "operation" ELSE winner
  /\ UNCHANGED <<program, at, caller, signal, aborted, disposed, active, cancel,
                 cancelPhase, initial, late, turn, timedOut, failed>>

(* sendMessage is accepted: the agent starts a turn before the call returns. *)
TurnStarts(i) ==
  /\ program[i] = "send" /\ op[i] = "running"
  /\ op' = [op EXCEPT ![i] = "sent"]
  /\ turn' = TRUE
  /\ UNCHANGED <<program, at, caller, winner, signal, aborted, disposed, active, cancel,
                 cancelPhase, initial, late, timedOut, failed>>

(* An operation settles: a send that was accepted resolves, one that was   *)
(* not is rejected; a wait resolves once the chat is idle, or times out.   *)
OperationSettles(i) ==
  /\ op[i] \in Unsettled
  /\ \E result \in Settled :
       /\ op[i] = "sent" => result = "resolved"
       /\ program[i] = "send" /\ op[i] = "running" => result = "rejected"
       /\ program[i] = "wait" /\ result = "resolved" => ~turn
       /\ op' = [op EXCEPT ![i] = result]
  /\ winner' = IF active = i /\ winner = "none" THEN "operation" ELSE winner
  /\ UNCHANGED <<program, at, caller, signal, aborted, disposed, active, cancel,
                 cancelPhase, initial, late, turn, timedOut, failed>>

TurnEnds ==
  /\ turn
  /\ turn' = FALSE
  /\ UNCHANGED <<program, at, caller, winner, op, signal, aborted, disposed, active,
                 cancel, cancelPhase, initial, late, timedOut, failed>>

-----------------------------------------------------------------------------
(* The client.                                                             *)

AtPhase == caller = "between" /\ at \in Steps /\ program[at] # "poll"

RunPhase ==
  /\ AtPhase /\ ~aborted
  /\ op' = [op EXCEPT ![at] = "scheduled"]
  /\ active' = at /\ winner' = "none" /\ caller' = "phase"
  /\ UNCHANGED <<program, at, signal, aborted, disposed, cancel, cancelPhase, initial,
                 late, turn, timedOut, failed>>

RunPhaseAborted ==
  /\ AtPhase /\ aborted
  /\ caller' = "aborting"
  /\ RequestInterrupt(active)
  /\ UNCHANGED <<program, at, winner, op, signal, aborted, disposed, active, late,
                 turn, timedOut, failed>>

(* The race of a phase is settled.  An error while aborted turns into the  *)
(* wait for the interrupt; any other error ends the client.                *)
PhaseEnds ==
  /\ caller = "phase" /\ winner # "none"
  /\ IF winner = "operation" /\ op[at] = "resolved"
     THEN /\ at' = at + 1 /\ caller' = "between" /\ active' = 0
          /\ UNCHANGED <<cancel, cancelPhase, initial>>
     ELSE IF aborted
     THEN /\ caller' = "aborting"
          /\ RequestInterrupt(active)
          /\ UNCHANGED <<at, active>>
     ELSE /\ caller' = "disposing" /\ active' = 0
          /\ UNCHANGED <<at, cancel, cancelPhase, initial>>
  /\ UNCHANGED <<program, winner, op, signal, aborted, disposed, late, turn, timedOut,
                 failed>>

(* The wait for the interrupt is over: the abort error reaches the client. *)
AbortErrorThrown ==
  /\ caller = "aborting" /\ cancel = "done"
  /\ caller' = "disposing" /\ active' = 0
  /\ UNCHANGED <<program, at, winner, op, signal, aborted, disposed, cancel, cancelPhase,
                 initial, late, turn, timedOut, failed>>

(* A poll outside the coordinator: found, out of time, or cut by the signal. *)
Poll ==
  /\ caller = "between" /\ at \in Steps /\ program[at] = "poll"
  /\ \/ at' = at + 1 /\ UNCHANGED caller /\ ~signal
     \/ caller' = "disposing" /\ UNCHANGED at
  /\ UNCHANGED <<program, winner, op, signal, aborted, disposed, active, cancel,
                 cancelPhase, initial, late, turn, timedOut, failed>>

ProgramEnds ==
  /\ caller = "between" /\ at \notin Steps
  /\ caller' = "disposing"
  /\ UNCHANGED <<program, at, winner, op, signal, aborted, disposed, active, cancel,
                 cancelPhase, initial, late, turn, timedOut, failed>>

(* dispose: the listener goes; an abort that was seen is awaited. *)
Dispose ==
  /\ caller = "disposing" /\ ~disposed
  /\ disposed' = TRUE
  /\ IF aborted THEN RequestInterrupt(active) ELSE UNCHANGED <<cancel, cancelPhase, initial>>
  /\ UNCHANGED <<program, at, caller, winner, op, signal, aborted, active, late, turn,
                 timedOut, failed>>

Finish ==
  /\ caller = "disposing" /\ disposed
  /\ aborted => cancel = "done"
  /\ caller' = "done"
  /\ UNCHANGED <<program, at, winner, op, signal, aborted, disposed, active, cancel,
                 cancelPhase, initial, late, turn, timedOut, failed>>

-----------------------------------------------------------------------------
Interrupts == InitialInterrupt \/ LateInterruptStarts \/ LateInterrupt
Cancellation == CancellationSettles \/ SettlementTimeout
Client == RunPhase \/ RunPhaseAborted \/ PhaseEnds \/ AbortErrorThrown \/ Poll
          \/ ProgramEnds \/ Dispose \/ Finish
Operation(i) == StartOperation(i) \/ TurnStarts(i) \/ OperationSettles(i)

Next == Abort \/ Interrupts \/ Cancellation \/ Client \/ TurnEnds
        \/ \E i \in Steps : Operation(i)

(* Microtasks, timers and the bounded calls of interruptChat are fair.  An *)
(* operation need not ever settle, except that a send whose message was    *)
(* accepted returns.  A turn need not ever end by itself.                  *)
AcceptedSendReturns(i) == op[i] = "sent" /\ OperationSettles(i)

Fairness ==
  /\ WF_vars(Interrupts) /\ WF_vars(Cancellation) /\ WF_vars(Client)
  /\ \A p \in Programs : \A i \in 1 .. Len(p) :
       WF_vars(i \in Steps /\ (StartOperation(i) \/ AcceptedSendReturns(i)))

Spec == Init /\ [][Next]_vars
FairSpec == Spec /\ Fairness

-----------------------------------------------------------------------------
(* A client that ends after its abort was seen leaves no turn running,     *)
(* unless it gave up on a send that did not settle in time or interruptChat *)
(* failed: the interrupt is repeated after a send that was under way.      *)
CancelledTurnEnded == caller = "done" /\ aborted /\ ~timedOut /\ ~failed => ~turn

(* Even after the settlement timeout the late interrupt stays armed: once  *)
(* aborted, the chat does not go on working for the cancelled client       *)
(* forever, however late the message was accepted.                         *)
OrphanTurnEnds == [](aborted => <>[](~turn \/ failed))

(* A cancelled client gets its error although the operation under way may  *)
(* never settle: the wait for it is bounded.                               *)
CallerReturns == aborted ~> caller = "done"

=============================================================================
