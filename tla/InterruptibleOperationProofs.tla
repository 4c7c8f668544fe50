-------------------- MODULE InterruptibleOperationProofs ---------------------
(***************************************************************************)
(* Proofs about InterruptibleOperation, for every set of programs.  The    *)
(* invariant has two halves: before an abort only the operation of the     *)
(* active phase may be under way; from the abort on, only the operation    *)
(* the cancellation captured, and while a turn of the client runs, an      *)
(* interrupt is still to come.                                             *)
(***************************************************************************)
EXTENDS InterruptibleOperation, TLAPS

(* How the stages of the cancellation fit together. *)
Stages ==
  /\ aborted <=> cancel # "none"
  /\ (cancel = "none") <=> (initial = "none")
  /\ (cancel = "initial") <=> (initial = "calling")
  /\ cancel = "waiting" => cancelPhase # 0
  /\ initial # "done" => late = "none"
  /\ initial = "none" => cancelPhase = 0
  /\ initial = "done" /\ cancelPhase # 0 /\ AllowsLate(cancelPhase) => late # "none"
  /\ late # "none" => cancelPhase # 0
  /\ late \in {"calling", "done"} => op[cancelPhase] \in Settled

(* Where operations may be under way. *)
UnderWay ==
  /\ caller = "phase" => active # 0
  /\ active # 0 => caller \in {"phase", "aborting"}
  /\ caller = "aborting" => aborted
  /\ ~aborted => winner # "abort"
  /\ ~aborted => \A i \in Steps : op[i] \in {"scheduled"} \cup Unsettled
                                    => i = active /\ winner = "none"
  /\ aborted => \A i \in Steps : op[i] \in Unsettled => i = cancelPhase

(* While a turn runs after the abort, an interrupt is to come. *)
TurnWillBeInterrupted ==
  aborted /\ turn /\ ~failed => initial = "calling" \/ late \in {"scheduled", "calling"}

(* What the end of the cancellation means. *)
CancellationDone ==
  /\ cancel = "done" /\ ~timedOut => late \in {"none", "done"}
  /\ caller = "done" => disposed
  /\ caller = "done" /\ aborted => cancel = "done"

IInv == TypeOK /\ Stages /\ UnderWay /\ TurnWillBeInterrupted /\ CancellationDone

LEMMA LenIsNat == program \in Programs => Len(program) \in Nat
  BY ProgramsAssumption

LEMMA InitIInv == Init => IInv
<1> SUFFICES ASSUME Init PROVE IInv
  OBVIOUS
<1>1. Len(program) \in Nat
  BY LenIsNat DEF Init
<1>2. TypeOK
  <2>1. op \in [Steps -> {"none", "scheduled"} \cup Unsettled \cup Settled]
    BY DEF Init
  <2>2. at \in 1 .. Len(program) + 1
    BY <1>1 DEF Init
  <2>3. QED
    BY <2>1, <2>2 DEF Init, TypeOK
<1>3. Stages /\ UnderWay /\ TurnWillBeInterrupted /\ CancellationDone
  BY <1>1 DEF Init, Stages, UnderWay, TurnWillBeInterrupted, CancellationDone, Steps,
              Unsettled, Settled
<1>4. QED
  BY <1>2, <1>3 DEF IInv

LEMMA NextIInv == IInv /\ [Next]_vars => IInv'
<1> SUFFICES ASSUME IInv, [Next]_vars PROVE IInv'
  OBVIOUS
<1>0. Len(program) \in Nat
  BY LenIsNat DEF IInv, TypeOK
<1> USE DEF IInv, TypeOK, Stages, UnderWay, TurnWillBeInterrupted, CancellationDone,
            Steps, Unsettled, Settled, AllowsLate
<1>1. CASE Abort
  <2>1. TypeOK'
    BY <1>0, <1>1 DEF Abort, RequestInterrupt
  <2>2. Stages'
    BY <1>0, <1>1 DEF Abort, RequestInterrupt
  <2>3. UnderWay'
    BY <1>0, <1>1 DEF Abort, RequestInterrupt
  <2>4. TurnWillBeInterrupted'
    BY <1>0, <1>1 DEF Abort, RequestInterrupt
  <2>5. CancellationDone'
    BY <1>0, <1>1 DEF Abort, RequestInterrupt
  <2>6. QED
    BY <2>1, <2>2, <2>3, <2>4, <2>5
<1>2. CASE InitialInterrupt
  <2>1. TypeOK'
    BY <1>0, <1>2 DEF InitialInterrupt, Interrupted
  <2>2. Stages'
    BY <1>0, <1>2 DEF InitialInterrupt, Interrupted
  <2>3. UnderWay'
    BY <1>0, <1>2 DEF InitialInterrupt, Interrupted
  <2>4. TurnWillBeInterrupted'
    BY <1>0, <1>2 DEF InitialInterrupt, Interrupted
  <2>5. CancellationDone'
    BY <1>0, <1>2 DEF InitialInterrupt, Interrupted
  <2>6. QED
    BY <2>1, <2>2, <2>3, <2>4, <2>5
<1>3. CASE LateInterruptStarts
  BY <1>3 DEF LateInterruptStarts
<1>4. CASE LateInterrupt
  <2>1. TypeOK'
    BY <1>0, <1>4 DEF LateInterrupt, Interrupted
  <2>2. Stages'
    BY <1>0, <1>4 DEF LateInterrupt, Interrupted
  <2>3. UnderWay'
    BY <1>0, <1>4 DEF LateInterrupt, Interrupted
  <2>4. TurnWillBeInterrupted'
    BY <1>0, <1>4 DEF LateInterrupt, Interrupted
  <2>5. CancellationDone'
    BY <1>0, <1>4 DEF LateInterrupt, Interrupted
  <2>6. QED
    BY <2>1, <2>2, <2>3, <2>4, <2>5
<1>5. CASE CancellationSettles
  BY <1>5 DEF CancellationSettles
<1>6. CASE SettlementTimeout
  BY <1>6 DEF SettlementTimeout
<1>7. CASE RunPhase
  BY <1>7 DEF RunPhase, AtPhase
<1>8. CASE RunPhaseAborted
  BY <1>8 DEF RunPhaseAborted, AtPhase, RequestInterrupt
<1>9. CASE PhaseEnds
  BY <1>9 DEF PhaseEnds, RequestInterrupt
<1>10. CASE AbortErrorThrown
  BY <1>10 DEF AbortErrorThrown
<1>11. CASE Poll
  <2>1. TypeOK'
    BY <1>0, <1>11 DEF Poll
  <2>2. Stages'
    BY <1>0, <1>11 DEF Poll
  <2>3. UnderWay'
    BY <1>0, <1>11 DEF Poll
  <2>4. TurnWillBeInterrupted'
    BY <1>0, <1>11 DEF Poll
  <2>5. CancellationDone'
    BY <1>0, <1>11 DEF Poll
  <2>6. QED
    BY <2>1, <2>2, <2>3, <2>4, <2>5
<1>12. CASE ProgramEnds
  BY <1>12 DEF ProgramEnds
<1>13. CASE Dispose
  BY <1>13 DEF Dispose, RequestInterrupt
<1>14. CASE Finish
  BY <1>14 DEF Finish
<1>15. CASE TurnEnds
  <2>1. TypeOK'
    BY <1>0, <1>15 DEF TurnEnds
  <2>2. Stages'
    BY <1>0, <1>15 DEF TurnEnds
  <2>3. UnderWay'
    BY <1>0, <1>15 DEF TurnEnds
  <2>4. TurnWillBeInterrupted'
    BY <1>0, <1>15 DEF TurnEnds
  <2>5. CancellationDone'
    BY <1>0, <1>15 DEF TurnEnds
  <2>6. QED
    BY <2>1, <2>2, <2>3, <2>4, <2>5
<1>16. ASSUME NEW i \in Steps, StartOperation(i) PROVE IInv'
  BY <1>16 DEF StartOperation
<1>17. ASSUME NEW i \in Steps, TurnStarts(i) PROVE IInv'
  BY <1>17 DEF TurnStarts
<1>18. ASSUME NEW i \in Steps, OperationSettles(i) PROVE IInv'
  BY <1>18 DEF OperationSettles
<1>19. CASE UNCHANGED vars
  BY <1>19 DEF vars
<1>20. QED
  BY <1>1, <1>2, <1>3, <1>4, <1>5, <1>6, <1>7, <1>8, <1>9, <1>10, <1>11, <1>12, <1>13,
     <1>14, <1>15, <1>16, <1>17, <1>18, <1>19
     DEF Next, Interrupts, Cancellation, Client, Operation

LEMMA InvariantHolds == Spec => []IInv
  BY InitIInv, NextIInv, PTL DEF Spec

(* Every state of the coordinator and its client is well formed; at most   *)
(* the step the client is at is the active phase.                          *)
THEOREM TypeCorrect == Spec => []TypeOK
<1>1. IInv => TypeOK
  BY DEF IInv
<1>2. QED
  BY <1>1, InvariantHolds, PTL

(* A client that ends after an abort leaves no turn running, unless its    *)
(* operation did not settle in time or interruptChat failed.               *)
THEOREM CancelledTurnEndedHolds == Spec => []CancelledTurnEnded
<1>1. IInv => CancelledTurnEnded
  BY DEF IInv, Stages, TurnWillBeInterrupted, CancellationDone, CancelledTurnEnded
<1>2. QED
  BY <1>1, InvariantHolds, PTL
=============================================================================
