-------------------------- MODULE TaskEngineProofs --------------------------
(***************************************************************************)
(* For every configuration and every bound: the engine's state is well     *)
(* typed, a planning turn never outlives plan mode, and a stop that no     *)
(* injection overlaps is final.  The last two rest on where the awaits     *)
(* are: IInv records what an operation parked at an await still holds.     *)
(* Then the limits: the failsafe is final, the iteration limit is exceeded *)
(* only by what users ask for, a task whose status promises progress is in *)
(* somebody's hands, and no plan is accepted over unread feedback.  They   *)
(* rest on LoopStatus, which says what the task's status can be at each    *)
(* await of the loop, of start() and of a lifecycle operation.             *)
(***************************************************************************)
EXTENDS TaskEngine, TLAPS

(* Nothing happens to an engine before start(), the iteration counter is   *)
(* rolled back only by a turn that has counted, and the backend is         *)
(* disconnected only for the stop that waits for it.                       *)
Parked ==
  /\ starter = "new" => loop = "off" /\ op = "idle" /\ ~planReady
  /\ loop \in TurnPlaces => iteration > 0
  /\ aborting = "hard" => op = "disconnecting"

(* Once stop has begun no other lifecycle operation runs, and unless an    *)
(* injection overlaps it the abort flag is up and taken for nothing else.  *)
StopHolds ==
  ending # "no" =>
    /\ op \in StopPlaces
    /\ starter # "new"
    /\ ~mixed => aborted /\ ~injection

IInv == TypeOK /\ Parked /\ PlanTurnsStayInPlanning /\ StopHolds

-----------------------------------------------------------------------------

LEMMA NoTurnType == NoTurn \in Turn
  BY DEF NoTurn, Turn, Outcomes

(* The head of the loop either parks the loop at the start of a counted    *)
(* turn, unless the engine is aborted, or leaves it.                       *)
LEMMA IterateLemma ==
  ASSUME TypeOK, NEW st \in Statuses, NEW it \in Nat, Iterate(st, it)
  PROVE  /\ status' \in Statuses /\ iteration' \in Nat /\ turn' \in Turn /\ turns' \in Nat
         /\ loop' \in {"off", "connect"}
         /\ loop' = "connect" => ~aborted' /\ iteration' > 0
         /\ loop' = "connect" /\ turn'.plan => status' # "running" /\ planActive
         /\ status' = "completed" => st = "completed"
  <1>1. CASE aborted' \/ st \notin Continuing
    BY <1>1, NoTurnType DEF Iterate, LoopEnds, TypeOK
  <1>2. CASE ~(aborted' \/ st \notin Continuing)
    <2> DEFINE plan == InPlanMode(st)
               waits == aborting # "none"
    <2>1. plan \in BOOLEAN /\ waits \in BOOLEAN
      BY DEF InPlanMode
    <2>2. turn' = [NoTurn EXCEPT !.plan = plan, !.waits = waits]
      BY <1>2 DEF Iterate
    <2>3. turn' \in Turn /\ turn'.plan = plan
      <3> HIDE DEF plan, waits
      <3>1. QED
        BY <2>1, <2>2, NoTurnType DEF Turn, NoTurn
    <2>4. /\ loop' = "connect" /\ iteration' = it + 1
          /\ status' = IF plan THEN "planning" ELSE "running"
      BY <1>2 DEF Iterate
    <2>5. turns' \in Nat
      BY <1>2, ConfigAssumption DEF Iterate, TypeOK
    <2>6. plan => planActive
      BY DEF InPlanMode
    <2>7. QED
      <3> HIDE DEF plan, waits
      <3>1. QED
        BY <1>2, <2>1, <2>3, <2>4, <2>5, <2>6 DEF Statuses
  <1>3. QED
    BY <1>1, <1>2

-----------------------------------------------------------------------------
(* A turn in flight.                                                       *)

(* The turn keeps its place in the loop, its kind and its type.            *)
TurnKept == loop' \in TurnPlaces /\ turn' \in Turn /\ turn'.plan = turn.plan

LEMMA TurnThrowsLemma ==
  ASSUME TypeOK, NEW code \in Codes, TurnThrows(code)
  PROVE  TurnKept
  BY DEF TypeOK, TurnThrows, TurnKept, TurnPlaces, Turn, Outcomes

LEMMA ConcludesLemma ==
  ASSUME TypeOK, NEW marker \in Markers, Concludes(marker)
  PROVE  TurnKept /\ planReady' \in BOOLEAN
  <1>1. Verdict(marker) \in Outcomes
    BY DEF Verdict, Markers, Outcomes, InPlanMode
  <1>2. TurnKept
    BY <1>1 DEF Concludes, TurnKept, TypeOK, Turn, TurnPlaces
  <1>3. planReady' \in BOOLEAN
    BY DEF Concludes, TypeOK
  <1>4. QED
    BY <1>2, <1>3

(* What the steps of a turn, the engine's and the agent's, have in common. *)
LEMMA TurnLemma ==
  ASSUME TypeOK, TurnStep \/ AgentStep
  PROVE  /\ loop \in TurnPlaces /\ TurnKept /\ TurnFrame
         /\ pending' \in {"none", "context", "user"}
         /\ planReady' \in BOOLEAN /\ session' \in BOOLEAN /\ faults' \in Nat
  <1> USE DEF TypeOK
  <1>1. "unknown" \in Codes
    BY ConfigAssumption
  <1>2. CASE Connect /\ UNCHANGED faults /\ TurnFrame
    BY <1>1, <1>2, TurnThrowsLemma DEF Connect, TurnKept, TurnPlaces
  <1>3. CASE Build /\ UNCHANGED faults /\ TurnFrame
    <2>1. CASE aborted
      BY <1>1, <1>3, <2>1, TurnThrowsLemma DEF Build, TurnPlaces
    <2>2. CASE ~aborted
      <3>1. turn' \in Turn /\ turn'.plan = turn.plan
        BY <1>3, <2>2 DEF Build, Turn
      <3>2. QED
        BY <1>3, <2>2, <3>1 DEF Build, TurnKept, TurnPlaces
    <2>3. QED
      BY <2>1, <2>2
  <1>4. CASE OpenStream /\ UNCHANGED faults /\ TurnFrame
    <2>1. CASE ~session
      BY <1>1, <1>4, <2>1, TurnThrowsLemma DEF OpenStream, TurnPlaces
    <2>2. CASE session
      BY <1>4, <2>2 DEF OpenStream, TurnKept, TurnPlaces, Turn
    <2>3. QED
      BY <2>1, <2>2
  <1>5. CASE SendPrompt /\ UNCHANGED faults /\ TurnFrame
    BY <1>5 DEF SendPrompt, TurnKept, TurnPlaces
  <1>6. CASE CommitIteration /\ UNCHANGED faults /\ TurnFrame
    BY <1>1, <1>6, TurnThrowsLemma DEF CommitIteration, TurnKept, TurnPlaces
  <1>7. ASSUME NEW marker \in Markers, StreamCut(marker), UNCHANGED faults, TurnFrame
        PROVE  /\ loop \in TurnPlaces /\ TurnKept
               /\ pending' \in {"none", "context", "user"}
               /\ planReady' \in BOOLEAN /\ session' \in BOOLEAN /\ faults' \in Nat
    BY <1>1, <1>7, TurnThrowsLemma, ConcludesLemma DEF StreamCut, TurnPlaces
  <1>8. ASSUME NEW marker \in Markers, AgentAnswers(marker), UNCHANGED faults, TurnFrame
        PROVE  /\ loop \in TurnPlaces /\ TurnKept
               /\ pending' \in {"none", "context", "user"}
               /\ planReady' \in BOOLEAN /\ session' \in BOOLEAN /\ faults' \in Nat
    BY <1>8, ConcludesLemma DEF AgentAnswers, TurnPlaces
  <1>9. ASSUME NEW code \in Codes, TurnFails(code), UNCHANGED faults, TurnFrame
        PROVE  /\ loop \in TurnPlaces /\ TurnKept
               /\ pending' \in {"none", "context", "user"}
               /\ planReady' \in BOOLEAN /\ session' \in BOOLEAN /\ faults' \in Nat
    BY <1>9, TurnThrowsLemma DEF TurnFails, TurnPlaces
  <1>10. CASE TurnCancelled /\ UNCHANGED faults /\ TurnFrame
    BY <1>10 DEF TurnCancelled, TurnKept, TurnPlaces, Turn, Outcomes
  <1>11. CASE RecreateSession /\ UNCHANGED faults /\ TurnFrame
    BY <1>11 DEF RecreateSession, TurnKept, TurnPlaces, Turn
  <1>12. CASE PromptCheckpointFails /\ TurnFrame
    BY <1>1, <1>12, TurnThrowsLemma DEF PromptCheckpointFails, TurnPlaces
  <1>13. ASSUME NEW marker \in Markers, CancelledByAbort(marker), UNCHANGED faults, TurnFrame
         PROVE  /\ loop \in TurnPlaces /\ TurnKept
                /\ pending' \in {"none", "context", "user"}
                /\ planReady' \in BOOLEAN /\ session' \in BOOLEAN /\ faults' \in Nat
    BY <1>13, ConcludesLemma DEF CancelledByAbort, TurnPlaces
  <1>14. QED
    BY <1>2, <1>3, <1>4, <1>5, <1>6, <1>7, <1>8, <1>9, <1>10, <1>11, <1>12, <1>13
       DEF TurnStep, AgentStep

LEMMA TurnKeepsInvariant ==
  ASSUME IInv, TurnStep \/ AgentStep
  PROVE  IInv'
  <1>1. /\ loop \in TurnPlaces /\ TurnKept /\ TurnFrame
        /\ pending' \in {"none", "context", "user"}
        /\ planReady' \in BOOLEAN /\ session' \in BOOLEAN /\ faults' \in Nat
    BY TurnLemma DEF IInv
  <1>2. TypeOK'
    BY <1>1 DEF IInv, TypeOK, TurnKept, TurnFrame, LoopPlaces, flagVars, abortVars, opVars,
                fixedVars, historyVars
  <1>3. Parked' /\ PlanTurnsStayInPlanning' /\ StopHolds'
    BY <1>1 DEF IInv, Parked, PlanTurnsStayInPlanning, StopHolds, TurnKept, TurnFrame,
                TurnPlaces, flagVars, abortVars, opVars, historyVars
  <1>4. QED
    BY <1>2, <1>3 DEF IInv

-----------------------------------------------------------------------------
(* The loop between two turns.                                             *)

Streaks == [code : Codes \cup {"none", "cancelled"}, count : Nat]

(* What every way on from a result has in common: a new turn starts only   *)
(* where no abort is left, and an abort is forgotten only for an injection *)
(* that was pending.                                                       *)
LoopGoesOn ==
  /\ status' \in Statuses /\ iteration' \in Nat /\ turn' \in Turn /\ turns' \in Nat
  /\ streak' \in Streaks
  /\ loop' \in LoopPlaces \ (TurnPlaces \ {"connect"})
  /\ loop' = "connect" => ~aborted' /\ iteration' > 0
  /\ loop' = "connect" /\ turn'.plan => status' # "running" /\ planActive
  /\ starter' \in {starter, "done"}
  /\ aborted' \in BOOLEAN /\ injection' \in BOOLEAN
  /\ ~injection => UNCHANGED flagVars

LEMMA NoStreakType == NoStreak \in Streaks
  BY DEF NoStreak, Streaks

LEMMA AcceptedStatus ==
  ASSUME NEW st \in Statuses, NEW to, Accepts(st, to)
  PROVE  to \in Statuses
  BY DEF Statuses, Accepts, Legal, Targets

LEMMA ProceedsLemma ==
  ASSUME TypeOK, NEW to \in Statuses, NEW place \in LoopPlaces \ TurnPlaces,
         NEW newStreak \in Streaks, NEW it \in Nat, Proceeds(to, place, newStreak, it)
  PROVE  LoopGoesOn
  BY NoTurnType DEF TypeOK, Proceeds, LoopGoesOn, flagVars, TurnPlaces

LEMMA ThrowsLemma == ASSUME TypeOK, Throws PROVE LoopGoesOn
  <1>1. status' \in Statuses
    BY DEF TypeOK, Throws, LoopEnds, Statuses
  <1>2. QED
    BY <1>1, NoTurnType
       DEF TypeOK, Throws, LoopEnds, Caller, LoopGoesOn, flagVars, LoopPlaces, TurnPlaces, Streaks

LEMMA HandledLemma ==
  ASSUME TypeOK, NEW to \in Statuses, NEW place \in LoopPlaces \ TurnPlaces,
         NEW newStreak \in Streaks, NEW it \in Nat, Handled(to, place, newStreak, it)
  PROVE  LoopGoesOn
  BY ProceedsLemma, ThrowsLemma DEF Handled

LEMMA ResumeLemma ==
  ASSUME TypeOK, injection, ResumeInjected(iteration), UNCHANGED streak
  PROVE  LoopGoesOn
  BY IterateLemma
     DEF TypeOK, ResumeInjected, ResetFlags, Caller, LoopGoesOn, LoopPlaces, TurnPlaces, Streaks

LEMMA LoopEndsLemma ==
  ASSUME TypeOK, LoopEnds(status, iteration), starter' = Caller("off"),
         UNCHANGED <<flagVars, streak>>
  PROVE  LoopGoesOn
  BY NoTurnType
     DEF TypeOK, LoopEnds, Caller, LoopGoesOn, flagVars, LoopPlaces, TurnPlaces, Streaks

LEMMA CountedType ==
  ASSUME TypeOK PROVE Counted(turn.code) \in Streaks
  <1>1. turn.code \in Codes \cup {"none", "cancelled"} /\ streak.count \in Nat
    BY DEF TypeOK, Turn
  <1>2. QED
    BY <1>1 DEF Counted, Streaks

LEMMA HandleResultLemma ==
  ASSUME IInv, HandleResult
  PROVE  LoopGoesOn /\ errorRun' \in Nat
  <1> USE DEF IInv
  <1>1. iteration \in Nat /\ iteration - 1 \in Nat /\ streak \in Streaks /\ status \in Statuses
    BY DEF HandleResult, Parked, TurnPlaces, TypeOK, Streaks
  <1>2. errorRun' \in Nat
    BY DEF HandleResult, TypeOK
  <1>3. {"failed", "stopped", "completed"} \subseteq Statuses
    BY DEF Statuses
  <1>4. {"settle", "leave", "finish", "plan", "next", "retry"} \subseteq LoopPlaces \ TurnPlaces
    BY DEF LoopPlaces, TurnPlaces
  <1>5. CASE Handling = "single" /\ HandleSingleTurn
    BY <1>1, <1>2, <1>3, <1>4, <1>5, ProceedsLemma, HandledLemma, NoStreakType
       DEF HandleSingleTurn
  <1>6. CASE /\ Handling = "dropped" /\ LoopEnds(status, iteration) /\ starter' = Caller("off")
             /\ UNCHANGED <<flagVars, streak>>
    BY <1>2, <1>6, LoopEndsLemma
  <1>7. CASE Handling = "superseded" /\ ResumeInjected(iteration) /\ UNCHANGED streak
    <2>1. injection
      BY <1>7 DEF Handling, Outcomes, TypeOK, Turn
    <2>2. QED
      BY <1>2, <1>7, <2>1, ResumeLemma
  <1>8. CASE \/ Handling = "blocked" /\ Handled("stopped", "leave", NoStreak, iteration)
             \/ Handling = "complete" /\ Handled("completed", "finish", NoStreak, iteration)
             \/ Handling = "fatal" /\ Handled("failed", "leave", streak, iteration)
    BY <1>1, <1>2, <1>3, <1>4, <1>8, HandledLemma, NoStreakType
  <1>9. CASE \/ Handling = "plan_ready" /\ Proceeds(status, "plan", streak, iteration)
             \/ Handling = "continue" /\ Proceeds(status, "next", NoStreak, iteration)
    BY <1>1, <1>2, <1>4, <1>9, ProceedsLemma, NoStreakType
  <1>10. CASE Handling = "interrupted" /\ HandleInterrupted
    <2>1. injection
      BY <1>10 DEF Handling, Outcomes, TypeOK, Turn
    <2>2. QED
      BY <1>1, <1>2, <1>10, <2>1, NoTurnType, NoStreakType
         DEF HandleInterrupted, ResetFlags, LoopGoesOn, LoopPlaces, TurnPlaces, TypeOK
  <1>11. CASE Handling = "retry" /\ HandleError
    BY <1>1, <1>2, <1>3, <1>4, <1>11, CountedType, ProceedsLemma, HandledLemma DEF HandleError
  <1>12. QED
    BY <1>5, <1>6, <1>7, <1>8, <1>9, <1>10, <1>11 DEF HandleResult

LEMMA ResultLemma ==
  ASSUME IInv, ResultStep
  PROVE  /\ loop # "off" /\ LoopGoesOn
         /\ errorRun' \in Nat /\ faults' \in Nat /\ followUp' \in {"none", "due", "pushing"}
  <1> USE DEF IInv
  <1>1. CASE HandleResult
    BY <1>1, HandleResultLemma DEF HandleResult, TypeOK
  <1>2. CASE FinishCompletion \/ RetryCheckpointed \/ AnnouncePlan
    BY <1>2, NoStreakType
       DEF FinishCompletion, RetryCheckpointed, AnnouncePlan, TypeOK, LoopGoesOn, LoopPlaces,
           TurnPlaces, Streaks, flagVars
  <1>3. CASE LeaveLoop
    BY <1>3, ResumeLemma, LoopEndsLemma DEF LeaveLoop, TypeOK
  <1>4. CASE NextRound
    <2>1. CASE AtLimit /\ Handled("max_iterations", "limit", streak, iteration)
      BY <1>4, <2>1, HandledLemma
         DEF NextRound, TypeOK, LoopPlaces, TurnPlaces, Statuses, Streaks
    <2>2. CASE ~AtLimit /\ aborted /\ injection /\ ResumeInjected(iteration) /\ UNCHANGED streak
      BY <1>4, <2>2, ResumeLemma DEF NextRound, TypeOK
    <2>3. CASE /\ UNCHANGED <<flagVars, streak>>
               /\ Iterate(status, iteration) /\ starter' = Caller(loop')
      BY <1>4, <2>3, IterateLemma
         DEF NextRound, TypeOK, Caller, LoopGoesOn, flagVars, LoopPlaces, TurnPlaces, Streaks
    <2>4. QED
      BY <1>4, <2>1, <2>2, <2>3 DEF NextRound
  <1>5. CASE Settle
    BY <1>5, LoopEndsLemma DEF Settle, TypeOK
  <1>6. CASE CheckpointFails
    BY <1>6, ThrowsLemma DEF CheckpointFails, TypeOK
  <1>7. QED
    BY <1>1, <1>2, <1>3, <1>4, <1>5, <1>6 DEF ResultStep

LEMMA ResultKeepsInvariant ==
  ASSUME IInv, ResultStep
  PROVE  IInv'
  <1>1. /\ loop # "off" /\ LoopGoesOn
        /\ errorRun' \in Nat /\ faults' \in Nat /\ followUp' \in {"none", "due", "pushing"}
    BY ResultLemma
  <1>2. UNCHANGED <<planVars, pending, fixedVars, session, abortVars, opVars, inputs, mixed>>
    BY DEF ResultStep
  <1>3. starter # "new" /\ starter' # "new"
    BY <1>1 DEF IInv, Parked, LoopGoesOn
  <1>4. TypeOK'
    BY <1>1, <1>2, <1>3 DEF IInv, TypeOK, LoopGoesOn, Streaks, planVars, fixedVars, abortVars, opVars
  <1>5. Parked' /\ PlanTurnsStayInPlanning' /\ StopHolds'
    BY <1>1, <1>2, <1>3
       DEF IInv, TypeOK, Parked, PlanTurnsStayInPlanning, StopHolds, LoopGoesOn,
           LoopPlaces, TurnPlaces, planVars, abortVars, opVars, flagVars
  <1>6. QED
    BY <1>4, <1>5 DEF IInv

-----------------------------------------------------------------------------
(* start(), the interrupts and the operations of users.                    *)

LEMMA StartKeepsInvariant ==
  ASSUME IInv, StartStep
  PROVE  IInv'
  <1> USE DEF IInv
  <1>1. UNCHANGED <<planActive, planReady, pending, streak, adapter, policy, followUp, aborting,
                    queued, op, ending, inputs, faults, mixed, errorRun>>
    BY DEF StartStep, planVars, fixedVars, abortVars, opVars, historyVars
  <1>2. CASE Start
    <2>1. /\ ending = "no" /\ loop = "off" /\ op = "idle"
          /\ loop' = "off" /\ turn' = turn /\ turns' = turns /\ session' = session
          /\ starter' = "setup" /\ iteration' = 0 /\ status' \in Statuses
          /\ aborted' \in BOOLEAN /\ injection' \in BOOLEAN
      BY <1>2 DEF Start, ResetFlags, StopHolds, Parked, Statuses
    <2>2. TypeOK'
      BY <1>1, <2>1 DEF TypeOK, LoopPlaces
    <2>3. QED
      BY <1>1, <2>1, <2>2 DEF Parked, PlanTurnsStayInPlanning, StopHolds, TurnPlaces
  <1>3. CASE SetupFails
    <2>1. /\ status' \in Statuses /\ (status' # "running" \/ status' = status)
          /\ starter # "new" /\ starter' = "done"
          /\ UNCHANGED <<aborted, injection, loop, turn, turns, iteration, session>>
      BY <1>3 DEF SetupFails, TypeOK, Statuses, flagVars
    <2>2. TypeOK'
      BY <1>1, <2>1 DEF TypeOK
    <2>3. PlanTurnsStayInPlanning'
      BY <1>1, <2>1, Zenon DEF PlanTurnsStayInPlanning
    <2>4. QED
      BY <1>1, <2>1, <2>2, <2>3 DEF Parked, StopHolds, TypeOK
  <1>4. CASE SetupDone
    <2>1. starter # "new" /\ session' = TRUE /\ UNCHANGED <<aborted, injection>>
      BY <1>4 DEF SetupDone, flagVars
    <2>2. CASE aborted \/ loop # "off"
      <3>1. starter' = "done" /\ UNCHANGED <<loop, turn, turns, status, iteration>>
        BY <1>4, <2>2 DEF SetupDone
      <3>2. TypeOK'
        BY <1>1, <2>1, <3>1 DEF TypeOK
      <3>3. PlanTurnsStayInPlanning'
        BY <1>1, <3>1, Zenon DEF PlanTurnsStayInPlanning
      <3>4. QED
        BY <1>1, <2>1, <3>1, <3>2, <3>3 DEF Parked, StopHolds, TypeOK
    <2>3. CASE ~aborted /\ loop = "off"
      <3>1. /\ status' \in Statuses /\ iteration' \in Nat /\ turn' \in Turn /\ turns' \in Nat
            /\ loop' \in {"off", "connect"}
            /\ loop' = "connect" => iteration' > 0
            /\ loop' = "connect" /\ turn'.plan => status' # "running" /\ planActive
            /\ starter' \in {"waiting", "done"}
        BY <1>4, <2>3, IterateLemma DEF SetupDone, TypeOK
      <3>2. TypeOK'
        BY <1>1, <2>1, <3>1 DEF TypeOK, LoopPlaces, TurnPlaces
      <3>3. QED
        BY <1>1, <2>1, <3>1, <3>2
           DEF Parked, PlanTurnsStayInPlanning, StopHolds, TurnPlaces, TypeOK
    <2>4. QED
      BY <2>2, <2>3 DEF TypeOK
  <1>5. QED
    BY <1>2, <1>3, <1>4 DEF StartStep

LEMMA InterruptKeepsInvariant ==
  ASSUME IInv, InterruptStep
  PROVE  IInv'
  <1> USE DEF IInv
  <1>1. UNCHANGED <<status, planActive, planReady, iteration, streak, pending, adapter, policy,
                    aborted, injection, starter, loop, followUp, ending, turns, inputs, faults,
                    mixed, errorRun>>
    BY DEF InterruptStep, planVars, fixedVars, flagVars, boundVars, historyVars
  <1>2. turn' \in Turn /\ turn'.plan = turn.plan
    <2>1. CASE AbortDelivered
      <3> DEFINE late == turn.cancelled \/ loop = "stream"
      <3>1. late \in BOOLEAN /\ turn \in Turn
        BY DEF TypeOK, Turn
      <3>2. turn' = [turn EXCEPT !.waits = FALSE, !.cancelled = late]
        BY <2>1, <3>1 DEF AbortDelivered, Turn
      <3>3. QED
        <4> HIDE DEF late
        <4>1. QED
          BY <3>1, <3>2 DEF Turn
    <2>2. CASE QueuedAbortBegins \/ DisconnectDelivered
      BY <2>2 DEF QueuedAbortBegins, DisconnectDelivered, TypeOK, Turn
    <2>3. QED
      BY <2>1, <2>2 DEF InterruptStep
  <1>3. /\ aborting' \in {"none", "soft"} /\ queued' \in Nat /\ session' \in BOOLEAN
        /\ op' = op \/ (aborting = "hard" /\ op' = "mark")
    <2>1. CASE AbortDelivered
      <3>1. aborting' = "none" /\ UNCHANGED <<queued, session, op>>
        BY <2>1, Zenon DEF AbortDelivered
      <3>2. QED
        BY <3>1 DEF TypeOK
    <2>2. CASE QueuedAbortBegins
      BY <2>2 DEF QueuedAbortBegins, TypeOK
    <2>3. CASE DisconnectDelivered
      <3>1. /\ aborting = "hard" /\ aborting' = "none" /\ session' = FALSE /\ op' = "mark"
            /\ UNCHANGED queued
        BY <2>3, Zenon DEF DisconnectDelivered
      <3>2. QED
        BY <3>1 DEF TypeOK
    <2>4. QED
      BY <2>1, <2>2, <2>3 DEF InterruptStep
  <1>4. TypeOK'
    BY <1>1, <1>2, <1>3 DEF TypeOK, StopPlaces
  <1>5. PlanTurnsStayInPlanning'
    BY <1>1, <1>2, Zenon DEF PlanTurnsStayInPlanning
  <1>6. Parked' /\ StopHolds'
    BY <1>1, <1>3 DEF Parked, StopHolds, StopPlaces, TypeOK
  <1>7. QED
    BY <1>4, <1>5, <1>6

LEMMA CloseStreamLemma ==
  ASSUME TypeOK, CloseStream PROVE turn' \in Turn /\ turn'.plan = turn.plan
  BY DEF TypeOK, CloseStream, Turn

LEMMA RequestAbortLemma ==
  ASSUME TypeOK, Parked, RequestAbort
  PROVE  /\ aborting' \in {"none", "soft", "hard"} /\ queued' \in Nat
         /\ aborting' = "hard" => aborting = "hard"
  BY DEF TypeOK, Parked, RequestAbort

LEMMA InjectKeepsInvariant ==
  ASSUME IInv, Inject,
         UNCHANGED <<streak, adapter, policy, followUp, session, ending, faults, errorRun>>
  PROVE  IInv'
  <1> USE DEF IInv
  <1>1. /\ UNCHANGED <<loop, turn, starter, status, planActive, planReady, iteration, op, turns>>
        /\ inputs' \in Nat /\ pending' = "user"
    BY DEF Inject, planVars, TypeOK
  <1>2. CASE loop = "off"
    <2>1. UNCHANGED <<aborted, injection, aborting, queued, mixed>>
      BY <1>2 DEF Inject, flagVars, abortVars
    <2>2. TypeOK'
      BY <1>1, <2>1 DEF TypeOK
    <2>3. QED
      BY <1>1, <1>2, <2>1, <2>2 DEF Parked, PlanTurnsStayInPlanning, StopHolds, TypeOK, TurnPlaces
  <1>3. CASE loop # "off"
    <2>1. /\ injection' = TRUE /\ aborted' = TRUE /\ mixed' = (mixed \/ ending # "no")
          /\ RequestAbort
      BY <1>3 DEF Inject
    <2>2. mixed' \in BOOLEAN /\ (ending # "no" => mixed')
      BY <2>1 DEF TypeOK
    <2>3. /\ aborting' \in {"none", "soft", "hard"} /\ queued' \in Nat
          /\ aborting' = "hard" => aborting = "hard"
      BY <2>1, RequestAbortLemma
    <2>4. TypeOK'
      BY <1>1, <2>1, <2>2, <2>3 DEF TypeOK
    <2>5. PlanTurnsStayInPlanning'
      BY <1>1, Zenon DEF PlanTurnsStayInPlanning
    <2>6. Parked' /\ StopHolds'
      BY <1>1, <2>2, <2>3 DEF Parked, StopHolds
    <2>7. QED
      BY <2>4, <2>5, <2>6
  <1>4. QED
    BY <1>2, <1>3

(* A round of feedback: the stream of the running turn is closed, or a     *)
(* planning turn begins.                                                   *)
LEMMA FeedbackKeepsInvariant ==
  ASSUME IInv, InjectPlanFeedback,
         UNCHANGED <<streak, adapter, policy, followUp, session, ending, faults, errorRun>>
  PROVE  IInv'
  <1> USE DEF IInv
  <1>1. /\ UNCHANGED <<mixed, starter, planActive, planReady, inputs>> /\ pending' = "context"
        /\ ending = "no" /\ starter # "new" /\ op = "feedback"
    BY DEF InjectPlanFeedback, StopHolds, StopPlaces, Parked, planVars
  <1>2. CASE /\ loop # "off" /\ injection' = TRUE /\ UNCHANGED aborted
             /\ CloseStream /\ RequestAbort /\ op' = "settling"
             /\ UNCHANGED <<loop, status, iteration, turns>>
    <2>1. turn' \in Turn /\ turn'.plan = turn.plan
      BY <1>2, CloseStreamLemma
    <2>2. /\ aborting' \in {"none", "soft", "hard"} /\ queued' \in Nat /\ aborting' # "hard"
      BY <1>1, <1>2, RequestAbortLemma DEF Parked
    <2>3. TypeOK'
      BY <1>1, <1>2, <2>1, <2>2 DEF TypeOK
    <2>4. PlanTurnsStayInPlanning'
      BY <1>1, <1>2, <2>1, Zenon DEF PlanTurnsStayInPlanning
    <2>5. Parked' /\ StopHolds'
      BY <1>1, <1>2, <2>2 DEF Parked, StopHolds
    <2>6. QED
      BY <2>3, <2>4, <2>5
  <1>3. CASE /\ loop = "off" /\ status = "planning"
             /\ ResetFlags /\ Iterate(status, iteration)
             /\ op' = "idle" /\ UNCHANGED abortVars
    <2>1. /\ status' \in Statuses /\ iteration' \in Nat /\ turn' \in Turn /\ turns' \in Nat
          /\ loop' \in {"off", "connect"}
          /\ loop' = "connect" => iteration' > 0
          /\ loop' = "connect" /\ turn'.plan => status' # "running" /\ planActive
      BY <1>3, IterateLemma DEF TypeOK
    <2>2. /\ aborted' \in BOOLEAN /\ injection' \in BOOLEAN /\ op' = "idle"
          /\ UNCHANGED <<aborting, queued>>
      BY <1>3 DEF ResetFlags, abortVars
    <2>3. TypeOK'
      BY <1>1, <2>1, <2>2 DEF TypeOK, LoopPlaces, TurnPlaces
    <2>4. QED
      BY <1>1, <2>1, <2>2, <2>3 DEF Parked, PlanTurnsStayInPlanning, StopHolds, TurnPlaces
  <1>4. CASE /\ loop = "off" /\ status # "planning" /\ op' = "idle"
             /\ UNCHANGED <<flagVars, abortVars, loop, turn, status, iteration, turns>>
    <2>1. UNCHANGED <<aborted, injection, aborting, queued, loop, turn, status, iteration, turns>>
      BY <1>4 DEF flagVars, abortVars
    <2>2. TypeOK'
      BY <1>1, <1>4, <2>1 DEF TypeOK
    <2>3. QED
      BY <1>1, <1>4, <2>1, <2>2 DEF Parked, PlanTurnsStayInPlanning, StopHolds, TurnPlaces
  <1>5. QED
    BY <1>2, <1>3, <1>4 DEF InjectPlanFeedback

LEMMA InputKeepsInvariant ==
  ASSUME IInv, InputStep
  PROVE  IInv'
  <1>1. UNCHANGED <<streak, adapter, policy, followUp, session, ending, faults, errorRun>>
    BY DEF InputStep, fixedVars
  <1>2. CASE ClearPending \/ GiveFeedback \/ FeedbackSettles
    <2> USE DEF IInv
    <2>1. /\ UNCHANGED <<aborted, injection, aborting, queued, mixed, loop, turn, starter, status,
                         planActive, iteration, turns>>
          /\ pending' \in {pending, "none"}
          /\ planReady' = planReady \/ planReady' = FALSE
      BY <1>2 DEF ClearPending, GiveFeedback, FeedbackSettles, planVars, flagVars, abortVars
    <2>2. inputs' \in Nat /\ planReady' \in BOOLEAN
      <3>1. planReady' \in BOOLEAN
        BY <2>1, Zenon DEF TypeOK
      <3>2. inputs' \in Nat
        BY <1>2 DEF ClearPending, GiveFeedback, FeedbackSettles, TypeOK
      <3>3. QED
        BY <3>1, <3>2
    <2>3. \/ op' = op
          \/ ending = "no" /\ starter # "new" /\ aborting # "hard" /\ op' \in {"feedback", "idle"}
      BY <1>2 DEF ClearPending, GiveFeedback, FeedbackSettles, StopHolds, StopPlaces, Parked
    <2>4. TypeOK'
      BY <1>1, <2>1, <2>2, <2>3 DEF TypeOK
    <2>5. PlanTurnsStayInPlanning'
      BY <2>1, Zenon DEF PlanTurnsStayInPlanning
    <2>6. Parked' /\ StopHolds'
      BY <1>1, <2>1, <2>3 DEF Parked, StopHolds, TypeOK
    <2>7. QED
      BY <2>4, <2>5, <2>6
  <1>3. QED
    BY <1>1, <1>2, InjectKeepsInvariant, FeedbackKeepsInvariant DEF InputStep

-----------------------------------------------------------------------------
(* Acceptance, stop and the follow-up.                                     *)

LEMMA AcceptKeepsInvariant ==
  ASSUME IInv, AcceptStep
  PROVE  IInv'
  <1> USE DEF IInv
  <1>1. /\ UNCHANGED <<planReady, streak, adapter, policy, starter, followUp, session, aborting,
                       queued, ending, inputs, faults, mixed, errorRun>>
        /\ ending = "no" /\ aborting # "hard"
    BY DEF AcceptStep, AcceptBegins, AcceptTimesOut, SyncFails, ContinueExecution, AcceptPlan,
           StopHolds, StopPlaces, Parked, fixedVars, abortVars, historyVars
  <1>2. starter # "new"
    BY DEF AcceptStep, AcceptBegins, AcceptTimesOut, SyncFails, ContinueExecution, AcceptPlan, Parked
  <1>3. CASE AcceptBegins \/ AcceptTimesOut
    <2>1. /\ UNCHANGED <<pending, aborted, injection, loop, turn, status, planActive, iteration,
                         turns>>
          /\ op' \in {"accepting", "idle"}
      BY <1>3 DEF AcceptBegins, AcceptTimesOut, flagVars
    <2>2. TypeOK'
      BY <1>1, <2>1 DEF TypeOK
    <2>3. PlanTurnsStayInPlanning'
      BY <2>1, Zenon DEF PlanTurnsStayInPlanning
    <2>4. QED
      BY <1>1, <1>2, <2>1, <2>2, <2>3 DEF Parked, StopHolds
  <1>4. ASSUME NEW target \in {"starting", "completed"}, AcceptPlan(target)
        PROVE  IInv'
    <2>1. /\ UNCHANGED <<aborted, injection, loop, turn, iteration, turns>> /\ loop = "off"
          /\ status' \in Statuses /\ planActive' \in BOOLEAN
          /\ pending' \in {"none", "context", "user"} /\ op' \in {"idle", "syncing"}
      BY <1>4 DEF AcceptPlan, Busy, TypeOK, Statuses, flagVars
    <2>2. TypeOK'
      BY <1>1, <2>1 DEF TypeOK
    <2>3. QED
      BY <1>1, <1>2, <2>1, <2>2 DEF Parked, PlanTurnsStayInPlanning, StopHolds, TurnPlaces
  <1>5. CASE SyncFails
    <2>1. /\ UNCHANGED <<pending, aborted, injection, loop, turn, planActive, iteration, turns>>
          /\ status' = "failed" /\ op' = "idle"
      BY <1>5 DEF SyncFails, flagVars
    <2>2. TypeOK'
      BY <1>1, <2>1 DEF TypeOK, Statuses
    <2>3. PlanTurnsStayInPlanning'
      BY <2>1, Zenon DEF PlanTurnsStayInPlanning
    <2>4. QED
      BY <1>1, <1>2, <2>1, <2>2, <2>3 DEF Parked, StopHolds
  <1>6. CASE ContinueExecution
    <2>1. /\ op' = "idle" /\ planActive' = planActive
          /\ aborted' \in BOOLEAN /\ injection' \in BOOLEAN
          /\ pending' \in {pending, "context"}
      BY <1>6 DEF ContinueExecution, ResetFlags
    <2>2. "running" \in Statuses
      BY DEF Statuses
    <2>3. /\ status' \in Statuses /\ iteration' \in Nat /\ turn' \in Turn /\ turns' \in Nat
          /\ loop' \in {"off", "connect"}
          /\ loop' = "connect" => iteration' > 0
          /\ loop' = "connect" /\ turn'.plan => status' # "running" /\ planActive
      BY <1>6, <2>2, IterateLemma DEF ContinueExecution, TypeOK
    <2>4. TypeOK'
      BY <1>1, <2>1, <2>3 DEF TypeOK, LoopPlaces, TurnPlaces
    <2>5. QED
      BY <1>1, <1>2, <2>1, <2>3, <2>4
         DEF Parked, PlanTurnsStayInPlanning, StopHolds, TurnPlaces
  <1>7. QED
    BY <1>3, <1>4, <1>5, <1>6 DEF AcceptStep

LEMMA StopKeepsInvariant ==
  ASSUME IInv, StopStep
  PROVE  IInv'
  <1> USE DEF IInv
  <1>1. /\ UNCHANGED <<planActive, planReady, iteration, streak, pending, adapter, policy, starter,
                       loop, followUp, session, turns, inputs, faults, errorRun>>
        /\ starter # "new"
    BY DEF StopStep, StopBegins, StopCloses, StopInterrupts, MarkStopped, StopReturns,
           StopTimesOut, Parked, planVars, fixedVars, boundVars
  <1>2. ASSUME NEW kind \in {"stop", "delete"}, StopBegins(kind)
        PROVE  IInv'
    <2>1. /\ aborted' = TRUE /\ ending' = kind /\ op = "idle" /\ op' = "cut"
          /\ mixed' = (mixed \/ injection)
          /\ UNCHANGED <<injection, aborting, queued, turn, status>>
      BY <1>2 DEF StopBegins, abortVars
    <2>2. mixed' \in BOOLEAN /\ (~mixed' => ~injection')
      BY <2>1 DEF TypeOK
    <2>3. TypeOK'
      BY <1>1, <2>1, <2>2 DEF TypeOK, StopPlaces
    <2>4. PlanTurnsStayInPlanning'
      BY <1>1, <2>1, Zenon DEF PlanTurnsStayInPlanning
    <2>5. Parked' /\ StopHolds'
      BY <1>1, <2>1, <2>2 DEF Parked, StopHolds, StopPlaces
    <2>6. QED
      BY <2>3, <2>4, <2>5
  <1>3. CASE StopCloses
    <2>1. turn' \in Turn /\ turn'.plan = turn.plan
      BY <1>3, CloseStreamLemma DEF StopCloses
    <2>2. /\ UNCHANGED <<aborted, injection, ending, aborting, queued, status, mixed>>
          /\ op = "cut" /\ op' = "interrupt"
      BY <1>3 DEF StopCloses, flagVars, abortVars
    <2>3. TypeOK'
      BY <1>1, <2>1, <2>2 DEF TypeOK, StopPlaces
    <2>4. PlanTurnsStayInPlanning'
      BY <1>1, <2>1, <2>2, Zenon DEF PlanTurnsStayInPlanning
    <2>5. Parked' /\ StopHolds'
      BY <1>1, <2>2 DEF Parked, StopHolds, StopPlaces, TypeOK
    <2>6. QED
      BY <2>3, <2>4, <2>5
  <1>4. CASE StopInterrupts \/ MarkStopped \/ StopReturns \/ StopTimesOut
    <2>1. UNCHANGED <<aborted, injection, ending, queued, turn, mixed>>
      BY <1>4 DEF StopInterrupts, MarkStopped, StopReturns, StopTimesOut, flagVars, abortVars
    <2>2. /\ op' \in StopPlaces /\ aborting' \in {"none", "soft", "hard"}
          /\ aborting' = "hard" => op' = "disconnecting"
      BY <1>4 DEF StopInterrupts, MarkStopped, StopReturns, StopTimesOut, StopPlaces, abortVars,
                  Parked, TypeOK
    <2>3. status' \in {status, "stopped"}
      BY <1>4 DEF StopInterrupts, MarkStopped, StopReturns, StopTimesOut
    <2>4. TypeOK'
      BY <1>1, <2>1, <2>2, <2>3 DEF TypeOK, Statuses
    <2>5. PlanTurnsStayInPlanning'
      BY <1>1, <2>1, <2>3, Zenon DEF PlanTurnsStayInPlanning
    <2>6. Parked' /\ StopHolds'
      BY <1>1, <2>1, <2>2 DEF Parked, StopHolds, TypeOK
    <2>7. QED
      BY <2>4, <2>5, <2>6
  <1>5. QED
    BY <1>2, <1>3, <1>4 DEF StopStep

LEMMA FollowUpKeepsInvariant ==
  ASSUME IInv, FollowUpStep
  PROVE  IInv'
  <1>1. UNCHANGED <<status, planActive, planReady, iteration, streak, pending, adapter, policy,
                    aborted, injection, starter, loop, turn, session, aborting, queued, op, ending,
                    turns, inputs, faults, mixed, errorRun>>
    BY DEF FollowUpStep, planVars, fixedVars, flagVars, abortVars, opVars, boundVars, historyVars
  <1>2. followUp' \in {"none", "pushing"}
    BY DEF FollowUpStep, FollowUpRuns
  <1>3. QED
    BY <1>1, <1>2 DEF IInv, TypeOK, Parked, PlanTurnsStayInPlanning, StopHolds

-----------------------------------------------------------------------------
(* The invariant and what follows from it.                                 *)

LEMMA InitInvariant == Init => IInv
  <1> SUFFICES ASSUME Init PROVE IInv
    OBVIOUS
  <1>1. NoStreak \in Streaks /\ [code |-> "unknown", count |-> MaxErrors] \in Streaks
    BY NoStreakType, ConfigAssumption DEF Streaks
  <1>2. planActive \in BOOLEAN
    BY DEF Init
  <1>3. TypeOK
    BY <1>1, <1>2, NoTurnType DEF Init, TypeOK, Statuses, LoopPlaces, Streaks
  <1>4. QED
    BY <1>3 DEF Init, IInv, Parked, PlanTurnsStayInPlanning, StopHolds, TurnPlaces

LEMMA NextInvariant == IInv /\ [Next]_vars => IInv'
  <1> SUFFICES ASSUME IInv, [Next]_vars PROVE IInv'
    OBVIOUS
  <1>1. CASE UNCHANGED vars
    BY <1>1 DEF IInv, TypeOK, Parked, PlanTurnsStayInPlanning, StopHolds, vars,
                planVars, fixedVars, flagVars, abortVars, opVars, boundVars, historyVars
  <1>2. CASE Next
    BY <1>2, TurnKeepsInvariant, ResultKeepsInvariant, StartKeepsInvariant,
       InterruptKeepsInvariant, InputKeepsInvariant, AcceptKeepsInvariant, StopKeepsInvariant,
       FollowUpKeepsInvariant
       DEF Next
  <1>3. QED
    BY <1>1, <1>2

LEMMA Invariance == Spec => []IInv
  BY InitInvariant, NextInvariant, PTL DEF Spec

(* The state of the engine is well typed: in particular the iteration      *)
(* counter, which failed and interrupted turns roll back, is never         *)
(* negative.                                                               *)
THEOREM TypeCorrect == Spec => []TypeOK
  BY Invariance, PTL DEF IInv

(* No planning turn is in flight once the plan is accepted: acceptPlan     *)
(* rewrites the state only when the loop is idle, and the loop starts no   *)
(* planning turn from a state the acceptance has rewritten.                *)
THEOREM PlanModeHolds == Spec => []PlanTurnsStayInPlanning
  BY Invariance, PTL DEF IInv

-----------------------------------------------------------------------------
(* A stop that no injection overlaps is final.                             *)

(* What the action property says of one step. *)
Final ==
  /\ loop' = "connect" => loop = "connect"
  /\ followUp' = "pushing" => followUp = "pushing"
  /\ status' = "completed" => status = "completed"

(* mixed is history: once set it stays. *)
LEMMA MixedStays ==
  ASSUME TypeOK, Next, ~mixed' PROVE ~mixed
  <1>1. CASE InputStep
    BY <1>1 DEF InputStep, Inject, ClearPending, GiveFeedback, InjectPlanFeedback, FeedbackSettles
  <1>2. CASE StopStep
    BY <1>2 DEF StopStep, StopBegins, StopCloses, StopInterrupts, MarkStopped, StopReturns,
                StopTimesOut
  <1>3. CASE ~InputStep /\ ~StopStep
    BY <1>3 DEF Next, TurnStep, AgentStep, TurnFrame, ResultStep, StartStep, InterruptStep,
                AcceptStep, FollowUpStep, historyVars
  <1>4. QED
    BY <1>1, <1>2, <1>3

(* The steps of a turn never reach back to its start. *)
LEMMA TurnFinal ==
  ASSUME TurnStep \/ AgentStep PROVE Final
  <1>1. status' = status /\ followUp' = followUp
    BY DEF TurnStep, AgentStep, TurnFrame
  <1>2. loop' = "connect" => loop = "connect"
    BY DEF TurnStep, AgentStep, Connect, Build, OpenStream, SendPrompt, CommitIteration, StreamCut,
           TurnCancelled, RecreateSession, TurnFails, AgentAnswers, CancelledByAbort, PromptCheckpointFails,
           TurnThrows, Concludes
  <1>3. QED
    BY <1>1, <1>2 DEF Final

(* The result of a turn that stop interrupted is dropped. *)
LEMMA DroppedResult ==
  ASSUME TypeOK, HandleResult, aborted, ~injection
  PROVE  status' = "completed" => status = "completed"
  <1>1. Handling \in {"single", "dropped"}
    BY DEF Handling
  <1>2. CASE Handling = "single" /\ HandleSingleTurn
    BY <1>2 DEF HandleSingleTurn, Proceeds
  <1>3. CASE Handling = "dropped" /\ LoopEnds(status, iteration)
    BY <1>3 DEF LoopEnds
  <1>4. QED
    BY <1>1, <1>2, <1>3 DEF HandleResult

LEMMA ResultFinal ==
  ASSUME IInv, ResultStep, aborted, ~injection
  PROVE  Final
  <1>1. loop' # "connect"
    BY ResultLemma DEF LoopGoesOn, flagVars
  <1>2. followUp' = "pushing" => followUp = "pushing"
    BY DEF ResultStep, HandleResult, FinishCompletion, AnnouncePlan, LeaveLoop, RetryCheckpointed,
           NextRound, Settle, CheckpointFails
  <1>3. status' = "completed" => status = "completed"
    <2>1. Throws => status' \in {status, "failed"}
      BY DEF Throws, LoopEnds
    <2>2. ASSUME Handled("max_iterations", "limit", streak, iteration)
          PROVE  status' \in {status, "failed", "max_iterations"}
      BY <2>1, <2>2 DEF Handled, Proceeds
    <2>3. ASSUME Iterate(status, iteration)
          PROVE  status' = "completed" => status = "completed"
      BY <2>3, IterateLemma DEF IInv, TypeOK
    <2>4. CASE NextRound
      BY <2>2, <2>3, <2>4 DEF NextRound
    <2>5. CASE LeaveLoop \/ Settle
      BY <2>5 DEF LeaveLoop, Settle, LoopEnds
    <2>6. CASE FinishCompletion \/ AnnouncePlan \/ RetryCheckpointed \/ CheckpointFails
      BY <2>1, <2>6 DEF FinishCompletion, AnnouncePlan, RetryCheckpointed, CheckpointFails
    <2>7. CASE HandleResult
      BY <2>7, DroppedResult DEF IInv
    <2>8. QED
      BY <2>4, <2>5, <2>6, <2>7 DEF ResultStep
  <1>4. QED
    BY <1>1, <1>2, <1>3 DEF Final

LEMMA StoppedStep ==
  ASSUME IInv, Next, ending # "no", ~mixed'
  PROVE  Final
  <1>1. aborted /\ ~injection /\ op \in StopPlaces /\ starter # "new"
    BY MixedStays DEF IInv, StopHolds
  <1>2. CASE TurnStep \/ AgentStep
    BY <1>2, TurnFinal
  <1>3. CASE ResultStep
    BY <1>1, <1>3, ResultFinal
  <1>4. CASE StartStep
    BY <1>1, <1>4 DEF StartStep, Start, SetupDone, SetupFails, Final
  <1>5. CASE InterruptStep
    BY <1>5 DEF InterruptStep, Final
  <1>6. CASE InputStep
    BY <1>1, <1>6 DEF InputStep, Inject, ClearPending, GiveFeedback, InjectPlanFeedback,
                      FeedbackSettles, StopPlaces, Final
  <1>7. CASE AcceptStep
    BY <1>1, <1>7 DEF AcceptStep, AcceptBegins, AcceptTimesOut, SyncFails, ContinueExecution,
                      AcceptPlan, StopPlaces
  <1>8. CASE StopStep
    BY <1>8 DEF StopStep, StopBegins, StopCloses, StopInterrupts, MarkStopped, StopReturns,
                StopTimesOut, Final
  <1>9. CASE FollowUpStep
    BY <1>1, <1>9 DEF FollowUpStep, FollowUpRuns, Final
  <1>10. QED
    BY <1>2, <1>3, <1>4, <1>5, <1>6, <1>7, <1>8, <1>9 DEF Next

(* A stop that no injection overlaps is final: no later step starts a      *)
(* turn, completes the task or begins to push its branch.  The abort flag  *)
(* is raised before the first await of stop, every way to a new turn       *)
(* clears it first, and only an injection makes the loop clear it.         *)
THEOREM StopHoldsForGood == Spec => StopIsFinal
  <1>1. IInv /\ [Next]_vars
          => [ending # "no" /\ ~mixed' =>
                /\ loop' = "connect" => loop = "connect"
                /\ followUp' = "pushing" => followUp = "pushing"
                /\ status' = "completed" => status = "completed"]_vars
    BY StoppedStep DEF Final
  <1>2. QED
    BY <1>1, Invariance, PTL DEF Spec, StopIsFinal

-----------------------------------------------------------------------------
C(b) == IF b THEN 1 ELSE 0

(* What the status can be at each await, and what the abort flag stands    *)
(* for: an injection or a stop.                                            *)
LoopStatus ==
  /\ loop \in TurnPlaces => status \in Continuing \cup {"failed"} \/ op \in StopPlaces
  /\ loop # "off" => status # "starting"
  /\ status = "planning" => planActive
  /\ op \in {"syncing", "continuing"} => ~Busy
  /\ op \in {"feedback", "accepting"} => status \notin {"starting", "running"}
  /\ op = "accepting" => planReady /\ planActive
  /\ starter = "setup" => status # "running" /\ (status = "starting" => ~injection)
  /\ starter = "new" => errorRun = 0 /\ inputs = 0 /\ ~injection
  /\ aborted => injection \/ op \in StopPlaces

(* Once the streak has reached the limit the loop is on its way out, with  *)
(* a status that starts no turn.                                           *)
FailsafeReached == MaxErrors > 0 /\ errorRun > 0 /\ streak.count >= MaxErrors

FailInv ==
  FailsafeReached =>
    /\ loop \in {"leave", "off"} /\ status \notin Continuing
    /\ status = "failed" \/ (status = "completed" /\ op # "accepting") \/ op \in StopPlaces

(* The rounds that are owed but have not begun; each is paid for by an     *)
(* input, by the acceptance of the plan or by the first iteration.         *)
Owed ==
  C(injection) + C(op \in {"feedback", "syncing", "continuing"}) + C(starter = "setup")

Budget ==
  /\ C(injection) + C(op = "feedback") + C(starter = "setup" /\ loop # "off") <= inputs
  /\ MaxIterations > 0 =>
       iteration + Owed <= MaxIterations + inputs + C(planReady /\ ~planActive)

Promising == {"starting", "running"}

Works ==
  policy = "task_loop" =>
    /\ loop \in TurnPlaces /\ turn.outcome = "plan_ready" => status \notin Promising
    /\ loop \in {"plan", "leave", "finish", "limit", "settle"} => status \notin Promising
    /\ faults = 0 /\ status \in Promising =>
         Busy \/ starter = "new" \/ op \in StopPlaces \cup {"syncing"}

LInv == IInv /\ LoopStatus /\ FailInv /\ Budget /\ Works

-----------------------------------------------------------------------------

(* The steps of a turn change none of the counters.                        *)
LEMMA TurnKeepsLimits ==
  ASSUME LInv, TurnStep \/ AgentStep
  PROVE  LInv'
  <1> USE DEF LInv
  <1>1. /\ loop \in TurnPlaces /\ loop' \in TurnPlaces /\ TurnFrame
        /\ planReady' \in BOOLEAN /\ faults' \in Nat
    BY TurnLemma DEF IInv, TurnKept
  <1>2. planReady => planReady'
    BY DEF TurnStep, AgentStep, Connect, Build, OpenStream, SendPrompt, CommitIteration, StreamCut,
           TurnCancelled, RecreateSession, TurnFails, AgentAnswers, CancelledByAbort, PromptCheckpointFails,
           Concludes
  <1>3. turn'.outcome = "plan_ready" => status = "planning" \/ turn.outcome = "plan_ready"
    <2>1. turn \in Turn
      BY DEF IInv, TypeOK
    <2>2. ASSUME NEW code, TurnThrows(code)
          PROVE  turn'.outcome # "plan_ready"
      BY <2>1, <2>2 DEF TurnThrows, Turn
    <2>3. ASSUME NEW marker, Concludes(marker), turn'.outcome = "plan_ready"
          PROVE  status = "planning"
      BY <2>1, <2>3 DEF Concludes, Verdict, InPlanMode, Turn
    <2>4. QED
      BY <2>1, <2>2, <2>3
         DEF TurnStep, AgentStep, Connect, Build, OpenStream, SendPrompt, CommitIteration,
             StreamCut, TurnCancelled, RecreateSession, TurnFails, AgentAnswers, CancelledByAbort,
             PromptCheckpointFails, Turn
  <1>4. IInv'
    BY TurnKeepsInvariant
  <1>5. /\ UNCHANGED <<status, planActive, iteration, streak, aborted, injection, starter, op,
                       policy, inputs, errorRun>>
        /\ faults' = 0 => faults = 0
    BY DEF TurnStep, AgentStep, PromptCheckpointFails, TurnFrame, flagVars, opVars, fixedVars,
           historyVars, IInv, TypeOK
  <1>6. LoopStatus'
    BY <1>1, <1>2, <1>5, <1>4 DEF LoopStatus, Busy, TurnPlaces, IInv, TypeOK
  <1>7. FailInv'
    BY <1>1, <1>5 DEF FailInv, FailsafeReached, TurnPlaces
  <1>8. Budget'
    BY <1>1, <1>2, <1>4, <1>5, ConfigAssumption DEF Budget, Owed, C, TurnPlaces, IInv, TypeOK
  <1>9. Works'
    BY <1>1, <1>3, <1>5 DEF Works, Busy, TurnPlaces, Promising
  <1>10. QED
    BY <1>4, <1>6, <1>7, <1>8, <1>9

-----------------------------------------------------------------------------
(* The loop between two turns.                                             *)

(* What every way on from a result does to the status and the counters: a  *)
(* new turn starts from a status that continues, pays with the injection   *)
(* or stays below the limit; anything else counts nothing.                 *)
Onward ==
  /\ status' \in {status, "failed", "stopped", "completed", "max_iterations"}
       \/ (status \in Continuing /\ status' = IF InPlanMode(status) THEN "planning" ELSE "running")
  /\ UNCHANGED flagVars \/ (aborted' = FALSE /\ injection' = FALSE)
  /\ starter' \in {starter, "done"}
  /\ loop' \in LoopPlaces \ (TurnPlaces \ {"connect"})
  /\ loop' = "connect" =>
       /\ status \in Continuing /\ status' = IF InPlanMode(status) THEN "planning" ELSE "running"
       /\ turn'.outcome = "continue"
       /\ iteration' = iteration + 1
       /\ (injection /\ ~injection') \/ (~AtLimit /\ UNCHANGED flagVars)
  /\ loop' # "connect" => iteration' \in {iteration, iteration - 1}

(* How a loop that ends, or is on its way out, leaves the status.          *)
Departs ==
  /\ policy = "task_loop" /\ loop' \in {"plan", "leave", "finish", "limit", "settle"} =>
       status' \notin Promising
  /\ policy = "task_loop" /\ loop' = "off" /\ status' \in Promising =>
       faults' > 0 \/ op \in StopPlaces

LEMMA IterateEffect ==
  ASSUME TypeOK, NEW st \in Statuses, NEW it \in Nat, Iterate(st, it)
  PROVE  \/ /\ loop' = "off" /\ status' = st /\ iteration' = it
            /\ aborted' \/ st \notin Continuing
         \/ /\ loop' = "connect" /\ ~aborted' /\ st \in Continuing
            /\ status' = IF InPlanMode(st) THEN "planning" ELSE "running"
            /\ iteration' = it + 1 /\ turn'.outcome = "continue"
  <1>1. CASE aborted' \/ st \notin Continuing
    BY <1>1 DEF Iterate, LoopEnds
  <1>2. CASE ~(aborted' \/ st \notin Continuing)
    <2> DEFINE plan == InPlanMode(st)
               waits == aborting # "none"
    <2>1. turn' = [NoTurn EXCEPT !.plan = plan, !.waits = waits]
      BY <1>2 DEF Iterate
    <2>2. turn'.outcome = "continue"
      <3> HIDE DEF plan, waits
      <3>1. QED
        BY <2>1 DEF NoTurn
    <2>3. QED
      BY <1>2, <2>2 DEF Iterate
  <1>3. QED
    BY <1>1, <1>2

LEMMA ProceedsEffect ==
  ASSUME TypeOK, NEW place \in LoopPlaces \ TurnPlaces, NEW newStreak, NEW it,
         NEW to \in {status, "failed", "stopped", "completed", "max_iterations"},
         Proceeds(to, place, newStreak, it), it \in {iteration, iteration - 1}
  PROVE  Onward
  BY DEF TypeOK, Proceeds, Onward, LoopPlaces, TurnPlaces

(* An exception ends the loop with the status as it was, or failed.        *)
LEMMA ThrowsEffect ==
  ASSUME TypeOK, Throws
  PROVE  Onward /\ loop' = "off" /\ status' \in {status, "failed"}
  BY DEF TypeOK, Throws, LoopEnds, Caller, Onward, LoopPlaces, TurnPlaces

(* The table refuses none of these transitions to a status that continues. *)
LEMMA HandledEffect ==
  ASSUME TypeOK, NEW place \in LoopPlaces \ TurnPlaces, NEW newStreak, NEW it,
         NEW to \in {"failed", "stopped", "completed", "max_iterations"},
         Handled(to, place, newStreak, it), it \in {iteration, iteration - 1},
         status # "starting"
  PROVE  /\ Onward
         /\ \/ Accepts(status, to) /\ loop' = place /\ status' = to /\ streak' = newStreak
            \/ ~Accepts(status, to) /\ loop' = "off" /\ status' \in {status, "failed"}
         /\ status = "running" => Accepts(status, to)
         /\ to = "failed" /\ status \in Continuing \cup {"failed"} => Accepts(status, to)
         /\ ~Accepts(status, to) => UNCHANGED streak
  <1>1. status = "running" => Accepts(status, to)
    BY DEF Accepts, Legal, Targets
  <1>2. to = "failed" /\ status \in Continuing \cup {"failed"} => Accepts(status, to)
    BY DEF Accepts, Legal, Targets, Continuing
  <1>3. CASE Accepts(status, to)
    BY <1>1, <1>2, <1>3, ProceedsEffect DEF Handled, Proceeds
  <1>4. CASE ~Accepts(status, to)
    <2>1. Throws
      BY <1>4 DEF Handled
    <2>2. UNCHANGED streak
      BY <2>1 DEF Throws
    <2>3. QED
      BY <1>1, <1>2, <1>4, <2>1, <2>2, ThrowsEffect
  <1>5. QED
    BY <1>3, <1>4

LEMMA ResumeEffect ==
  ASSUME TypeOK, injection, status \in Continuing, ResumeInjected(iteration)
  PROVE  Onward /\ loop' = "connect"
  <1>1. ~aborted' /\ ~injection' /\ starter' = Caller(loop')
    BY DEF ResumeInjected, ResetFlags
  <1>2. /\ loop' = "connect"
        /\ status' = IF InPlanMode(status) THEN "planning" ELSE "running"
        /\ iteration' = iteration + 1 /\ turn'.outcome = "continue"
    BY <1>1, IterateEffect DEF ResumeInjected, TypeOK
  <1>3. QED
    BY <1>1, <1>2 DEF Onward, Caller, LoopPlaces, TurnPlaces, ResumeInjected, ResetFlags

LEMMA LoopEndsEffect ==
  ASSUME TypeOK, LoopEnds(status, iteration), starter' = Caller("off"), UNCHANGED flagVars
  PROVE  Onward
  BY DEF TypeOK, LoopEnds, Caller, Onward, LoopPlaces, TurnPlaces

(* A result is handled at the end of a turn; the status it finds there has *)
(* a legal way on, unless a stop has overtaken the loop.                   *)
LEMMA HandleResultLimits ==
  ASSUME LInv, HandleResult, UNCHANGED <<op, policy>>
  PROVE  Onward /\ Departs /\ FailInv'
  <1> USE DEF LInv
  <1>1. /\ loop = "wrapup" /\ loop \in TurnPlaces /\ TypeOK /\ UNCHANGED faults
        /\ status \in Continuing \cup {"failed"} \/ op \in StopPlaces
        /\ status # "starting"
        /\ errorRun' = IF Handling = "retry" THEN errorRun + 1 ELSE 0
    BY DEF HandleResult, LoopStatus, TurnPlaces, IInv
  <1>2. {"settle", "leave", "finish", "plan", "next", "retry"} \subseteq LoopPlaces \ TurnPlaces
    BY DEF LoopPlaces, TurnPlaces
  <1>3. Handling # "retry" => FailInv'
    BY <1>1 DEF FailInv, FailsafeReached
  <1>4. policy = "single_turn" => Departs
    BY DEF Departs, IInv, TypeOK
  <1>5. CASE Handling = "single" /\ HandleSingleTurn
    <2>1. CASE /\ aborted \/ status = "stopped"
               /\ Proceeds(status, "settle", streak, iteration)
      <3>1. Onward
        BY <1>1, <1>2, <2>1, ProceedsEffect
      <3>2. policy # "single_turn" /\ status \in Continuing => FALSE
        BY <1>5, <2>1 DEF Handling, Outcomes, Turn, IInv, TypeOK, Continuing
      <3>3. Departs
        BY <1>4, <2>1, <3>2 DEF Departs, Proceeds, Promising, Continuing
      <3>4. QED
        BY <1>3, <1>5, <3>1, <3>3
    <2>2. CASE \/ Handled("failed", "settle", streak, iteration)
               \/ Handled("stopped", "settle", NoStreak, iteration)
      <3>1. Onward /\ status' \notin Promising
        BY <1>1, <1>2, <2>2, HandledEffect DEF Promising
      <3>2. Departs
        BY <3>1 DEF Departs
      <3>3. QED
        BY <1>3, <1>5, <3>1, <3>2
    <2>3. QED
      BY <1>5, <2>1, <2>2 DEF HandleSingleTurn
  <1>6. CASE /\ Handling = "dropped" /\ LoopEnds(status, iteration) /\ starter' = Caller("off")
             /\ UNCHANGED <<flagVars, streak>>
    <2>1. Onward
      BY <1>1, <1>6, LoopEndsEffect
    <2>2. aborted /\ ~injection
      BY <1>6 DEF Handling, Outcomes, Turn, IInv, TypeOK
    <2>3. op \in StopPlaces /\ loop' = "off"
      BY <1>6, <2>2 DEF LoopStatus, LoopEnds
    <2>4. QED
      BY <1>3, <1>6, <2>1, <2>3 DEF Departs
  <1>7. CASE Handling = "superseded" /\ ResumeInjected(iteration) /\ UNCHANGED streak
    <2>1. injection /\ status \in Continuing
      BY <1>7 DEF Handling, Outcomes, Turn, IInv, TypeOK
    <2>2. Onward /\ loop' = "connect"
      BY <1>1, <1>7, <2>1, ResumeEffect
    <2>3. QED
      BY <1>3, <1>7, <2>2 DEF Departs
  <1>8. CASE \/ Handling = "blocked" /\ Handled("stopped", "leave", NoStreak, iteration)
             \/ Handling = "complete" /\ Handled("completed", "finish", NoStreak, iteration)
             \/ Handling = "fatal" /\ Handled("failed", "leave", streak, iteration)
    <2>1. Onward /\ status' \notin Promising
      BY <1>1, <1>2, <1>8, HandledEffect DEF Promising
    <2>2. QED
      BY <1>3, <1>8, <2>1 DEF Departs
  <1>9. CASE Handling = "plan_ready" /\ Proceeds(status, "plan", streak, iteration)
    <2>1. Onward
      BY <1>1, <1>2, <1>9, ProceedsEffect
    <2>2. turn.outcome = "plan_ready"
      BY <1>9 DEF Handling, Outcomes, Turn, IInv, TypeOK
    <2>3. policy = "task_loop" => status' \notin Promising
      BY <1>1, <1>9, <2>2 DEF Works, Proceeds
    <2>4. QED
      BY <1>3, <1>9, <2>1, <2>3 DEF Departs, Proceeds
  <1>10. CASE Handling = "continue" /\ Proceeds(status, "next", NoStreak, iteration)
    <2>1. Onward /\ loop' = "next"
      BY <1>1, <1>2, <1>10, ProceedsEffect DEF Proceeds
    <2>2. QED
      BY <1>3, <1>10, <2>1 DEF Departs
  <1>11. CASE Handling = "interrupted" /\ HandleInterrupted
    <2>1. Onward /\ loop' = "next"
      BY <1>1, <1>11
         DEF HandleInterrupted, ResetFlags, Onward, LoopPlaces, TurnPlaces, IInv, TypeOK
    <2>2. QED
      BY <1>3, <1>11, <2>1 DEF Departs
  <1>12. CASE Handling = "retry" /\ HandleError
    <2> DEFINE tracker == Counted(turn.code)
    <2>1. CASE Failsafe(tracker) /\ Handled("failed", "leave", tracker, iteration - 1)
      <3>1. /\ Onward /\ status' \notin Promising /\ loop' \in {"leave", "off"}
            /\ \/ status' = "failed"
               \/ op \in StopPlaces /\ status' \notin Continuing
        <4>1. CASE Accepts(status, "failed")
          BY <1>1, <1>2, <2>1, <4>1, HandledEffect DEF Promising
        <4>2. CASE ~Accepts(status, "failed")
          <5>1. status \notin Continuing /\ op \in StopPlaces
            BY <1>1, <1>2, <2>1, <4>2, HandledEffect
          <5>2. QED
            BY <1>1, <1>2, <2>1, <4>2, <5>1, HandledEffect DEF Promising, Continuing
        <4>3. QED
          BY <4>1, <4>2
      <3>2. QED
        BY <3>1 DEF Departs, FailInv, Continuing
    <2>2. CASE ~Failsafe(tracker) /\ Proceeds(status, "retry", tracker, iteration - 1)
      <3>1. Onward /\ loop' = "retry" /\ streak' = tracker
        BY <1>1, <1>2, <2>2, ProceedsEffect DEF Proceeds
      <3>2. ~FailsafeReached'
        <4>1. tracker.count \in Nat
          BY <1>1, CountedType DEF Streaks
        <4>2. QED
          BY <2>2, <3>1, <4>1, ConfigAssumption DEF FailsafeReached, Failsafe
      <3>3. QED
        BY <3>1, <3>2 DEF Departs, FailInv
    <2>3. QED
      BY <1>12, <2>1, <2>2 DEF HandleError
  <1>13. QED
    BY <1>5, <1>6, <1>7, <1>8, <1>9, <1>10, <1>11, <1>12 DEF HandleResult

(* The other ways out of the loop, and the next round.                     *)
LEMMA OnwardLimits ==
  ASSUME LInv, ResultStep, ~HandleResult
  PROVE  Onward /\ Departs /\ FailInv'
  <1> USE DEF LInv
  <1>1. /\ TypeOK /\ UNCHANGED <<op, policy, inputs>> /\ UNCHANGED errorRun
        /\ loop \notin {"off", "wrapup"} \/ CheckpointFails
    BY DEF IInv, ResultStep, opVars, fixedVars, FinishCompletion, AnnouncePlan, LeaveLoop,
           RetryCheckpointed, NextRound, Settle, CheckpointFails
  <1>2. ~FailsafeReached \/ loop \in {"leave", "off"}
    BY DEF FailInv
  <1>3. CASE FinishCompletion \/ AnnouncePlan \/ RetryCheckpointed
    <2>1. Onward
      BY <1>1, <1>3
         DEF FinishCompletion, AnnouncePlan, RetryCheckpointed, Onward, flagVars, LoopPlaces,
             TurnPlaces
    <2>2. Departs
      BY <1>1, <1>3 DEF FinishCompletion, AnnouncePlan, RetryCheckpointed, Departs, Works
    <2>3. streak' \in {streak, NoStreak} /\ loop \notin {"leave", "off"}
      BY <1>3 DEF FinishCompletion, AnnouncePlan, RetryCheckpointed
    <2>4. FailInv'
      BY <1>1, <1>2, <2>3, ConfigAssumption DEF FailInv, FailsafeReached, NoStreak
    <2>5. QED
      BY <2>1, <2>2, <2>4
  <1>4. CASE LeaveLoop
    <2>1. CASE injection /\ status \in Continuing /\ ResumeInjected(iteration)
      <3>1. Onward /\ loop' = "connect"
        BY <1>1, <2>1, ResumeEffect
      <3>2. ~FailsafeReached /\ UNCHANGED streak
        BY <1>4, <2>1 DEF FailInv, LeaveLoop
      <3>3. QED
        BY <1>1, <3>1, <3>2 DEF Departs, FailInv, FailsafeReached
    <2>2. CASE LoopEnds(status, iteration) /\ starter' = Caller("off") /\ UNCHANGED flagVars
      <3>1. Onward
        BY <1>1, <2>2, LoopEndsEffect
      <3>2. loop = "leave" /\ loop' = "off" /\ status' = status /\ UNCHANGED streak
        BY <1>4, <2>2 DEF LeaveLoop, LoopEnds
      <3>3. QED
        BY <1>1, <3>1, <3>2 DEF Departs, FailInv, FailsafeReached, Works
    <2>3. QED
      BY <1>4, <2>1, <2>2 DEF LeaveLoop
  <1>5. CASE NextRound
    <2>1. loop = "next" /\ status # "starting"
      BY <1>5 DEF NextRound, LoopStatus
    <2>2. CASE AtLimit /\ Handled("max_iterations", "limit", streak, iteration)
      <3>1. Onward /\ status' \notin Promising /\ loop' \in {"limit", "off"} /\ UNCHANGED streak
        BY <1>1, <2>1, <2>2, HandledEffect DEF LoopPlaces, TurnPlaces, Promising
      <3>2. QED
        BY <1>1, <1>2, <2>1, <3>1 DEF Departs, FailInv, FailsafeReached
    <2>3. CASE ~AtLimit /\ aborted /\ injection /\ ResumeInjected(iteration) /\ UNCHANGED streak
      <3>1. ResetFlags /\ Iterate(status, iteration) /\ starter' = Caller(loop')
        BY <2>3 DEF ResumeInjected
      <3>2. CASE status \in Continuing
        <4>1. Onward /\ loop' = "connect"
          BY <1>1, <2>3, <3>2, ResumeEffect
        <4>2. QED
          BY <1>1, <1>2, <2>1, <2>3, <4>1 DEF Departs, FailInv, FailsafeReached
      <3>3. CASE status \notin Continuing
        <4>1. loop' = "off" /\ status' = status /\ iteration' = iteration
          BY <1>1, <3>1, <3>3, IterateEffect DEF TypeOK
        <4>2. Onward
          BY <3>1, <4>1 DEF Onward, ResetFlags, Caller, LoopPlaces, TurnPlaces
        <4>3. QED
          BY <1>1, <1>2, <2>1, <2>3, <3>3, <4>1, <4>2
             DEF Departs, FailInv, FailsafeReached, Promising, Continuing
      <3>4. QED
        BY <3>2, <3>3
    <2>4. CASE /\ ~AtLimit /\ UNCHANGED <<flagVars, streak>>
               /\ Iterate(status, iteration) /\ starter' = Caller(loop')
               /\ ~(aborted /\ injection)
      <3>1. CASE /\ loop' = "connect" /\ ~aborted' /\ status \in Continuing
                 /\ status' = IF InPlanMode(status) THEN "planning" ELSE "running"
                 /\ iteration' = iteration + 1 /\ turn'.outcome = "continue"
        <4>1. Onward
          BY <2>4, <3>1 DEF Onward, Caller, LoopPlaces, TurnPlaces
        <4>2. QED
          BY <1>1, <1>2, <2>1, <2>4, <3>1, <4>1 DEF Departs, FailInv, FailsafeReached
      <3>2. CASE /\ loop' = "off" /\ status' = status /\ iteration' = iteration
                 /\ aborted' \/ status \notin Continuing
        <4>1. Onward
          BY <2>4, <3>2 DEF Onward, Caller, LoopPlaces, TurnPlaces
        <4>2. status \in Promising => op \in StopPlaces
          BY <2>4, <3>2 DEF LoopStatus, Promising, Continuing, flagVars
        <4>3. QED
          BY <1>1, <1>2, <2>1, <2>4, <3>2, <4>1, <4>2
             DEF Departs, FailInv, FailsafeReached
      <3>3. QED
        BY <1>1, <2>4, <3>1, <3>2, IterateEffect DEF TypeOK
    <2>5. QED
      BY <1>5, <2>2, <2>3, <2>4 DEF NextRound
  <1>6. CASE Settle
    <2>1. Onward
      BY <1>1, <1>6, LoopEndsEffect DEF Settle
    <2>2. /\ loop' = "off" /\ status' = status /\ UNCHANGED streak
          /\ loop \in {"limit", "settle"}
      BY <1>6 DEF Settle, LoopEnds
    <2>3. QED
      BY <1>1, <1>2, <2>1, <2>2 DEF Departs, FailInv, FailsafeReached, Works
  <1>7. CASE CheckpointFails
    <2>1. Onward /\ loop' = "off" /\ status' \in {status, "failed"} /\ UNCHANGED streak
      BY <1>1, <1>7, ThrowsEffect DEF CheckpointFails, Throws
    <2>2. faults' > 0
      BY <1>1, <1>7 DEF CheckpointFails, TypeOK
    <2>3. Departs
      BY <2>1, <2>2 DEF Departs
    <2>4. FailInv'
      BY <1>1, <2>1 DEF FailInv, FailsafeReached, Continuing
    <2>5. QED
      BY <2>1, <2>3, <2>4
  <1>8. QED
    BY <1>3, <1>4, <1>5, <1>6, <1>7 DEF ResultStep

LEMMA ResultKeepsLimits ==
  ASSUME LInv, ResultStep
  PROVE  LInv'
  <1> USE DEF LInv
  <1>1. /\ UNCHANGED <<planActive, planReady, policy, op, inputs>>
        /\ loop # "off" /\ Busy /\ starter # "new"
    BY ResultLemma DEF ResultStep, planVars, fixedVars, opVars, Busy, IInv, Parked
  <1>2. Onward /\ Departs /\ FailInv'
    BY <1>1, HandleResultLimits, OnwardLimits
  <1>3. IInv'
    BY ResultKeepsInvariant
  <1>4. status # "starting" /\ status' # "starting"
    BY <1>1, <1>2 DEF LoopStatus, Onward
  <1>5. LoopStatus'
    <2>1. loop' \in TurnPlaces => status' \in Continuing
      BY <1>2 DEF Onward, TurnPlaces, Continuing
    <2>2. status' = "planning" => planActive'
      BY <1>1, <1>2 DEF Onward, LoopStatus, InPlanMode
    <2>3. op \notin {"syncing", "continuing"}
      BY <1>1 DEF LoopStatus
    <2>4. op \in {"feedback", "accepting"} => status' # "running"
      BY <1>1, <1>2, <1>4 DEF Onward, LoopStatus, InPlanMode, Continuing
    <2>5. starter' = "setup" => status' # "running"
      BY <1>1, <1>2, <1>4 DEF Onward, LoopStatus, InPlanMode, Continuing
    <2>6. aborted' => injection' \/ op \in StopPlaces
      <3>1. CASE aborted' = FALSE /\ injection' = FALSE
        BY <3>1
      <3>2. CASE UNCHANGED flagVars
        BY <3>2, Zenon DEF LoopStatus, flagVars
      <3>3. QED
        BY <1>2, <3>1, <3>2 DEF Onward
    <2>7. starter' # "new"
      BY <1>1, <1>2 DEF Onward
    <2>8. op = "accepting" => planReady /\ planActive
      BY DEF LoopStatus
    <2>9. QED
      BY <1>1, <1>4, <2>1, <2>2, <2>3, <2>4, <2>5, <2>6, <2>7, <2>8 DEF LoopStatus
  <1>6. Budget'
    <2>1. op \notin {"syncing", "continuing"}
      BY <1>1 DEF LoopStatus
    <2>2. /\ injection' => injection
          /\ starter' = "setup" => starter = "setup"
      BY <1>2 DEF Onward, flagVars
    <2>3. iteration \in Nat /\ iteration' \in Nat /\ inputs \in Nat
      BY <1>3 DEF IInv, TypeOK
    <2>4. /\ C(injection') <= C(injection)
          /\ C(starter' = "setup" /\ loop' # "off") <= C(starter = "setup" /\ loop # "off")
      BY <1>1, <2>2 DEF C
    <2>5. C(injection') + C(op = "feedback") + C(starter' = "setup" /\ loop' # "off") <= inputs
      BY <2>3, <2>4 DEF Budget, C
    <2> DEFINE accepted == C(planReady /\ ~planActive)
               feedback == C(op \in {"feedback", "syncing", "continuing"})
    <2>11. /\ accepted \in {0, 1} /\ accepted' = accepted
           /\ feedback \in {0, 1} /\ feedback' = feedback
      BY <1>1 DEF C
    <2>12. /\ C(injection) \in {0, 1} /\ C(injection') \in {0, 1}
           /\ C(starter = "setup") \in {0, 1} /\ C(starter' = "setup") \in {0, 1}
           /\ C(starter' = "setup") <= C(starter = "setup")
      BY <2>2 DEF C
    <2>13. Owed = C(injection) + feedback + C(starter = "setup")
           /\ Owed' = C(injection') + feedback' + C(starter' = "setup")
      BY DEF Owed
    <2>14. MaxIterations > 0 => iteration + Owed <= MaxIterations + inputs + accepted
      BY DEF Budget
    <2>15. iteration' + Owed' <= iteration + Owed => Budget'
      <3> HIDE DEF accepted, feedback
      <3>1. MaxIterations > 0 /\ iteration' + Owed' <= iteration + Owed
              => iteration' + Owed' <= MaxIterations + inputs + accepted
        BY <2>3, <2>11, <2>12, <2>13, <2>14, ConfigAssumption
      <3>2. QED
        BY <1>1, <2>5, <2>11, <3>1 DEF Budget, accepted
    <2>6. ASSUME iteration' \in {iteration, iteration - 1}
          PROVE  Budget'
      <3> HIDE DEF accepted, feedback
      <3>1. QED
        BY <2>3, <2>4, <2>6, <2>11, <2>12, <2>13, <2>15
    <2>7. ASSUME iteration' = iteration + 1, injection, ~injection'
          PROVE  Budget'
      <3> HIDE DEF accepted, feedback
      <3>1. C(injection) = 1 /\ C(injection') = 0
        BY <2>7 DEF C
      <3>2. Owed = 1 + feedback + C(starter = "setup")
            /\ Owed' = feedback + C(starter' = "setup")
        <4> DEFINE was == C(injection)
                   is == C(injection')
        <4>1. was = 1 /\ is = 0 /\ Owed = was + feedback + C(starter = "setup")
              /\ Owed' = is + feedback + C(starter' = "setup")
          BY <2>11, <2>13, <3>1
        <4>2. QED
          <5> HIDE DEF was, is
          <5>1. QED
            BY <2>11, <2>12, <4>1
      <3>3. iteration' + Owed' <= iteration + Owed
        BY <2>3, <2>7, <2>11, <2>12, <3>2
      <3>4. QED
        BY <2>15, <3>3
    <2>8. ASSUME MaxIterations > 0, iteration' = iteration + 1, ~AtLimit, loop' = "connect"
          PROVE  Budget'
      <3>1. iteration' <= MaxIterations
        BY <2>3, <2>8, ConfigAssumption DEF AtLimit
      <3>2. Owed' <= inputs
        BY <1>1, <2>1, <2>3, <2>5, <2>8 DEF Owed, C
      <3>3. iteration' + Owed' <= MaxIterations + inputs + accepted
        <4> HIDE DEF accepted, feedback
        <4>1. QED
          BY <2>3, <2>11, <2>12, <2>13, <3>1, <3>2, ConfigAssumption
      <3>4. QED
        BY <1>1, <2>5, <2>11, <3>3 DEF Budget
    <2>9. CASE ~(MaxIterations > 0)
      BY <1>1, <2>5, <2>9 DEF Budget
    <2>10. QED
      BY <1>2, <2>6, <2>7, <2>8, <2>9 DEF Onward
  <1>7. Works'
    <2>1. loop' \in TurnPlaces => turn'.outcome = "continue"
      BY <1>2 DEF Onward, TurnPlaces
    <2>2. QED
      BY <1>1, <1>2, <1>3, <2>1 DEF Works, Departs, Busy, IInv, TypeOK
  <1>8. QED
    BY <1>2, <1>3, <1>5, <1>6, <1>7

-----------------------------------------------------------------------------
(* start() and the interrupts.                                             *)

LEMMA StartKeepsLimits ==
  ASSUME LInv, StartStep
  PROVE  LInv'
  <1> USE DEF LInv
  <1>1. /\ UNCHANGED <<planActive, planReady, streak, policy, op, inputs, faults, errorRun>>
        /\ IInv'
    BY StartKeepsInvariant DEF StartStep, planVars, fixedVars, opVars, historyVars
  <1>2. inputs \in Nat /\ iteration \in Nat
    BY DEF IInv, TypeOK
  <1>3. CASE Start
    <2>1. /\ starter = "new" /\ op = "idle" /\ ~planReady /\ loop = "off" /\ loop' = "off"
          /\ errorRun = 0 /\ inputs = 0
          /\ starter' = "setup" /\ iteration' = 0 /\ ~aborted' /\ ~injection'
          /\ status' = IF status = "planning" THEN "planning" ELSE "starting"
      BY <1>3 DEF Start, ResetFlags, LoopStatus, IInv, Parked
    <2>2. LoopStatus'
      BY <1>1, <2>1 DEF LoopStatus, TurnPlaces
    <2>3. FailInv'
      BY <1>1, <2>1 DEF FailInv, FailsafeReached
    <2>4. Budget'
      BY <1>1, <2>1, ConfigAssumption DEF Budget, Owed, C
    <2>5. Works'
      BY <1>1, <2>1 DEF Works, Busy, TurnPlaces
    <2>6. QED
      BY <1>1, <2>2, <2>3, <2>4, <2>5
  <1>4. ASSUME starter = "setup", starter' # "setup", UNCHANGED <<loop, turn, iteration, flagVars>>,
               starter' # "new",
               status' \in {status, "failed"},
               loop = "off" /\ status \in Promising /\ status' = status => aborted
        PROVE  LInv'
    <2>1. LoopStatus'
      BY <1>1, <1>4 DEF LoopStatus, Busy, flagVars
    <2>2. FailInv'
      BY <1>1, <1>4 DEF FailInv, FailsafeReached, Continuing
    <2>3. Budget'
      BY <1>1, <1>2, <1>4, ConfigAssumption DEF Budget, Owed, C, flagVars
    <2>4. loop = "off" /\ status \in Promising /\ status' = status => op \in StopPlaces
      BY <1>4 DEF LoopStatus, Promising
    <2>5. Works'
      BY <1>1, <1>4, <2>4 DEF Works, Busy, Promising
    <2>6. QED
      BY <1>1, <2>1, <2>2, <2>3, <2>5
  <1>5. CASE SetupFails
    <2>1. status \in Promising => Accepts(status, "failed")
      BY DEF Promising, Accepts, Legal, Targets
    <2>2. QED
      BY <1>4, <1>5, <2>1 DEF SetupFails, Promising
  <1>6. CASE SetupDone
    <2>1. CASE aborted \/ loop # "off"
      BY <1>4, <1>6, <2>1 DEF SetupDone
    <2>2. CASE ~aborted /\ loop = "off"
      <3>1. /\ Iterate(status, iteration) /\ UNCHANGED flagVars /\ starter = "setup"
            /\ starter' = IF loop' = "off" THEN "done" ELSE "waiting"
        BY <1>6, <2>2 DEF SetupDone
      <3>2. CASE loop' = "off" /\ status' = status /\ iteration' = iteration
        <4>1. status \notin Continuing
          BY <1>1, <2>2, <3>1, <3>2, IterateEffect DEF IInv, TypeOK, flagVars
        <4>2. LoopStatus'
          BY <1>1, <2>2, <3>1, <3>2 DEF LoopStatus, Busy, flagVars, TurnPlaces
        <4>3. FailInv'
          BY <1>1, <2>2, <3>1, <3>2 DEF FailInv, FailsafeReached
        <4>4. Budget'
          BY <1>1, <1>2, <3>1, <3>2, ConfigAssumption DEF Budget, Owed, C, flagVars
        <4>5. Works'
          BY <1>1, <3>1, <3>2, <4>1 DEF Works, Busy, Promising, Continuing, TurnPlaces
        <4>6. QED
          BY <1>1, <4>2, <4>3, <4>4, <4>5
      <3>3. CASE /\ loop' = "connect" /\ ~aborted' /\ status \in Continuing
                 /\ status' = IF InPlanMode(status) THEN "planning" ELSE "running"
                 /\ iteration' = iteration + 1 /\ turn'.outcome = "continue"
        <4>1. op \notin {"syncing", "continuing"}
          BY <3>1 DEF LoopStatus, Busy
        <4>2. status' = "planning" => status = "planning"
          BY <3>3 DEF InPlanMode
        <4>3. op \in {"feedback", "accepting"} => status' # "running"
          BY <3>3 DEF LoopStatus, InPlanMode, Continuing
        <4>4. LoopStatus'
          <5>1. loop' \in TurnPlaces => status' \in Continuing
            BY <3>3 DEF Continuing
          <5>2. status' # "starting" /\ starter' = "waiting"
            BY <3>1, <3>3
          <5>3. QED
            BY <1>1, <2>2, <3>1, <3>3, <4>1, <4>2, <4>3, <5>1, <5>2
               DEF LoopStatus, flagVars
        <4>5. FailInv'
          BY <1>1, <3>3 DEF FailInv, FailsafeReached
        <4>6. Budget'
          BY <1>1, <1>2, <2>2, <3>1, <3>3, ConfigAssumption DEF Budget, Owed, C, flagVars
        <4>7. Works'
          BY <1>1, <3>3 DEF Works, Busy, TurnPlaces
        <4>8. QED
          BY <1>1, <4>4, <4>5, <4>6, <4>7
      <3>4. QED
        BY <3>1, <3>2, <3>3, IterateEffect DEF IInv, TypeOK
    <2>3. QED
      BY <2>1, <2>2
  <1>7. QED
    BY <1>3, <1>5, <1>6 DEF StartStep

(* The interrupts and the follow-up touch nothing the limits are about,    *)
(* but for the disconnection stop has been waiting for.                    *)
LEMMA InterruptKeepsLimits ==
  ASSUME LInv, InterruptStep \/ FollowUpStep
  PROVE  LInv'
  <1> USE DEF LInv
  <1>1. IInv'
    BY InterruptKeepsInvariant, FollowUpKeepsInvariant
  <1>2. /\ UNCHANGED <<status, planActive, planReady, iteration, streak, policy, aborted, injection,
                       starter, loop, inputs, faults, errorRun>>
        /\ turn'.outcome = turn.outcome
    <2>1. turn \in Turn
      BY DEF IInv, TypeOK
    <2>2. turn'.outcome = turn.outcome
      BY <2>1 DEF InterruptStep, AbortDelivered, QueuedAbortBegins, DisconnectDelivered,
                  FollowUpStep, Turn
    <2>3. QED
      BY <2>2 DEF InterruptStep, FollowUpStep, planVars, flagVars, fixedVars, boundVars, historyVars
  <1>3. op' = op \/ (op \in StopPlaces /\ op' = "mark")
    BY DEF InterruptStep, AbortDelivered, QueuedAbortBegins, DisconnectDelivered, FollowUpStep,
           opVars, IInv, Parked, StopPlaces
  <1>4. /\ op' \in StopPlaces <=> op \in StopPlaces
        /\ \A place \in {"feedback", "accepting", "syncing", "continuing"} :
             op' = place <=> op = place
    BY <1>3 DEF StopPlaces
  <1>5. LoopStatus'
    BY <1>2, <1>4 DEF LoopStatus, Busy
  <1>6. FailInv'
    BY <1>2, <1>4 DEF FailInv, FailsafeReached
  <1>7. Budget'
    BY <1>2, <1>4 DEF Budget, Owed, C
  <1>8. Works'
    BY <1>2, <1>4 DEF Works, Busy
  <1>9. QED
    BY <1>1, <1>5, <1>6, <1>7, <1>8

-----------------------------------------------------------------------------
(* The operations of users.                                                *)

LEMMA InputKeepsLimits ==
  ASSUME LInv, InputStep
  PROVE  LInv'
  <1> USE DEF LInv
  <1>1. IInv' /\ UNCHANGED <<streak, policy, faults, errorRun>>
    BY InputKeepsInvariant DEF InputStep, fixedVars
  <1>2. inputs \in Nat /\ iteration \in Nat /\ turn \in Turn
    BY DEF IInv, TypeOK
  <1>3. CASE Inject \/ ClearPending
    <2>1. /\ UNCHANGED <<loop, turn, starter, status, planActive, planReady, iteration, op>>
          /\ starter # "new" /\ status \in Continuing /\ inputs' = inputs + 1
          /\ UNCHANGED <<aborted, injection>> \/ (loop # "off" /\ injection' /\ Inject)
      BY <1>3 DEF Inject, ClearPending, Reachable, planVars, flagVars
    <2>2. ~FailsafeReached
      BY <2>1 DEF FailInv
    <2>3. LoopStatus'
      <3>1. CASE UNCHANGED <<aborted, injection>>
        BY <1>1, <2>1, <3>1 DEF LoopStatus, Busy
      <3>2. CASE loop # "off" /\ injection'
        BY <1>1, <2>1, <3>2 DEF LoopStatus, Busy
      <3>3. QED
        BY <2>1, <3>1, <3>2
    <2>4. FailInv'
      BY <1>1, <2>1, <2>2 DEF FailInv, FailsafeReached
    <2>5. Budget'
      <3>1. C(injection') <= C(injection) + 1 /\ C(injection) \in {0, 1} /\ C(injection') \in {0, 1}
        BY <2>1 DEF C
      <3>2. QED
        BY <1>2, <2>1, <3>1, ConfigAssumption DEF Budget, Owed, C
    <2>6. Works'
      BY <1>1, <2>1 DEF Works, Busy
    <2>7. QED
      BY <1>1, <2>3, <2>4, <2>5, <2>6
  <1>4. CASE GiveFeedback
    <2>1. /\ UNCHANGED <<aborted, injection, loop, turn, starter, status, planActive, iteration>>
          /\ starter # "new" /\ status = "planning" /\ inputs' = inputs + 1
          /\ op = "idle" /\ op' = "feedback" /\ planReady' = FALSE /\ planActive
      BY <1>4 DEF GiveFeedback, flagVars, LoopStatus
    <2>2. LoopStatus'
      BY <1>1, <2>1 DEF LoopStatus, Busy, StopPlaces
    <2>3. FailInv'
      BY <1>1, <2>1 DEF FailInv, FailsafeReached, Continuing
    <2>4. Budget'
      BY <1>2, <2>1, ConfigAssumption DEF Budget, Owed, C
    <2>5. Works'
      BY <1>1, <2>1 DEF Works, Promising
    <2>6. QED
      BY <1>1, <2>2, <2>3, <2>4, <2>5
  <1>5. CASE InjectPlanFeedback
    <2>1. /\ op = "feedback" /\ UNCHANGED <<starter, planActive, planReady, inputs>>
          /\ status \notin Promising /\ starter # "new"
      BY <1>5 DEF InjectPlanFeedback, planVars, LoopStatus, Promising, IInv, Parked
    <2>2. CASE /\ loop # "off" /\ injection' = TRUE /\ UNCHANGED aborted
               /\ CloseStream /\ op' = "settling" /\ UNCHANGED <<loop, status, iteration>>
      <3>1. turn'.outcome = turn.outcome
        BY <1>2, <2>2 DEF CloseStream, Turn
      <3>2. LoopStatus'
        BY <1>1, <2>1, <2>2 DEF LoopStatus, Busy, StopPlaces, Promising
      <3>3. FailInv'
        BY <1>1, <2>1, <2>2 DEF FailInv, FailsafeReached, StopPlaces
      <3>4. Budget'
        BY <1>2, <2>1, <2>2, ConfigAssumption DEF Budget, Owed, C
      <3>5. Works'
        BY <1>1, <2>1, <2>2, <3>1 DEF Works, Busy
      <3>6. QED
        BY <1>1, <3>2, <3>3, <3>4, <3>5
    <2>3. CASE /\ loop = "off" /\ status = "planning"
               /\ ResetFlags /\ Iterate(status, iteration) /\ op' = "idle"
      <3>1. /\ loop' = "connect" /\ status' = "planning" /\ iteration' = iteration + 1
            /\ turn'.outcome = "continue" /\ ~aborted' /\ ~injection' /\ planActive
        BY <2>3, IterateEffect
           DEF IInv, TypeOK, ResetFlags, InPlanMode, LoopStatus, Continuing
      <3>2. LoopStatus'
        BY <1>1, <2>1, <2>3, <3>1 DEF LoopStatus, Continuing
      <3>3. FailInv'
        BY <1>1, <2>3 DEF FailInv, FailsafeReached, Continuing
      <3>4. Budget'
        <4>1. C(injection) \in {0, 1}
          BY DEF C
        <4>2. QED
          BY <1>2, <2>1, <2>3, <3>1, <4>1, ConfigAssumption DEF Budget, Owed, C
      <3>5. Works'
        BY <3>1 DEF Works, TurnPlaces, Promising
      <3>6. QED
        BY <1>1, <3>2, <3>3, <3>4, <3>5
    <2>4. CASE /\ loop = "off" /\ status # "planning" /\ op' = "idle"
               /\ UNCHANGED <<flagVars, loop, turn, status, iteration>>
      <3>1. LoopStatus'
        BY <1>1, <2>1, <2>4 DEF LoopStatus, Busy, flagVars, StopPlaces
      <3>2. FailInv'
        BY <1>1, <2>1, <2>4 DEF FailInv, FailsafeReached, StopPlaces
      <3>3. Budget'
        BY <1>2, <2>1, <2>4, ConfigAssumption DEF Budget, Owed, C, flagVars
      <3>4. Works'
        BY <1>1, <2>1, <2>4 DEF Works, TurnPlaces
      <3>5. QED
        BY <1>1, <3>1, <3>2, <3>3, <3>4
    <2>5. QED
      BY <1>5, <2>2, <2>3, <2>4 DEF InjectPlanFeedback
  <1>6. CASE FeedbackSettles
    <2>1. /\ UNCHANGED <<aborted, injection, loop, turn, starter, status, planActive, planReady,
                         iteration, inputs>>
          /\ op = "settling" /\ op' = "idle" /\ starter # "new"
      BY <1>6 DEF FeedbackSettles, flagVars, planVars, IInv, Parked
    <2>2. LoopStatus' /\ FailInv'
      BY <1>1, <2>1 DEF LoopStatus, FailInv, FailsafeReached, StopPlaces
    <2>3. Budget'
      BY <2>1 DEF Budget, Owed, C
    <2>4. Works'
      BY <1>1, <2>1 DEF Works, Busy, StopPlaces
    <2>5. QED
      BY <1>1, <2>2, <2>3, <2>4
  <1>7. QED
    BY <1>3, <1>4, <1>5, <1>6 DEF InputStep

LEMMA AcceptKeepsLimits ==
  ASSUME LInv, AcceptStep
  PROVE  LInv'
  <1> USE DEF LInv
  <1>1. /\ UNCHANGED <<planReady, streak, policy, starter, inputs, faults, errorRun>>
        /\ IInv' /\ op \notin StopPlaces /\ starter # "new"
    BY AcceptKeepsInvariant
       DEF AcceptStep, fixedVars, historyVars, AcceptBegins, AcceptTimesOut, SyncFails,
           ContinueExecution, AcceptPlan, StopPlaces, IInv, Parked
  <1>2. inputs \in Nat /\ iteration \in Nat
    BY DEF IInv, TypeOK
  <1>3. CASE AcceptBegins \/ AcceptTimesOut
    <2>1. /\ UNCHANGED <<aborted, injection, loop, turn, status, planActive, iteration>>
          /\ \/ op = "idle" /\ status = "planning" /\ planReady /\ op' = "accepting"
             \/ op = "accepting" /\ op' = "idle"
      BY <1>3 DEF AcceptBegins, AcceptTimesOut, flagVars
    <2>2. LoopStatus'
      BY <1>1, <2>1 DEF LoopStatus, StopPlaces
    <2>3. FailInv'
      BY <1>1, <2>1 DEF FailInv, FailsafeReached, Continuing
    <2>4. Budget'
      BY <1>1, <2>1 DEF Budget, Owed, C
    <2>5. Works'
      BY <1>1, <2>1 DEF Works, Busy, StopPlaces
    <2>6. QED
      BY <1>1, <2>2, <2>3, <2>4, <2>5
  <1>4. ASSUME NEW target \in {"starting", "completed"}, AcceptPlan(target)
        PROVE  LInv'
    <2>1. /\ op = "accepting" /\ ~Busy /\ loop = "off" /\ starter # "setup"
          /\ UNCHANGED <<aborted, injection, loop, turn, iteration>>
          /\ planReady /\ planActive /\ status \notin Promising
      BY <1>4 DEF AcceptPlan, Busy, flagVars, LoopStatus, Promising
    <2>2. \/ op' = "idle" /\ UNCHANGED <<status, planActive>>
          \/ /\ Legal(status, target) /\ status' = target /\ planActive' = FALSE
             /\ op' = IF target = "completed" THEN "idle" ELSE "syncing"
      BY <1>4 DEF AcceptPlan
    <2>3. LoopStatus'
      BY <1>1, <2>1, <2>2 DEF LoopStatus, Busy, TurnPlaces, StopPlaces
    <2>4. FailInv'
      <3>1. FailsafeReached => status = "failed"
        BY <1>1, <2>1 DEF FailInv
      <3>2. Legal("failed", target) => target = "completed"
        BY DEF Legal, Targets
      <3>3. QED
        BY <1>1, <2>1, <2>2, <3>1, <3>2 DEF FailInv, FailsafeReached, Continuing
    <2>5. Budget'
      <3>1. /\ C(op = "feedback") = 0 /\ C(op' = "feedback") = 0
            /\ C(op \in {"feedback", "syncing", "continuing"}) = 0
            /\ C(planReady /\ ~planActive) = 0
        BY <2>1, <2>2 DEF C
      <3>2. /\ C(injection') = C(injection) /\ C(starter' = "setup") = C(starter = "setup")
            /\ C(starter' = "setup" /\ loop' # "off") = C(starter = "setup" /\ loop # "off")
        BY <1>1, <2>1
      <3>3. \/ /\ C(op' \in {"feedback", "syncing", "continuing"}) = 0
               /\ C(planReady' /\ ~planActive') \in {0, 1}
            \/ /\ C(op' \in {"feedback", "syncing", "continuing"}) = 1
               /\ C(planReady' /\ ~planActive') = 1
        BY <1>1, <2>1, <2>2 DEF C
      <3>4. C(injection) \in {0, 1} /\ C(starter = "setup") \in {0, 1}
        BY DEF C
      <3>5. /\ C(injection') + C(op' = "feedback") + C(starter' = "setup" /\ loop' # "off") <= inputs'
            /\ iteration' = iteration /\ inputs' = inputs
        BY <1>1, <2>1, <3>1, <3>2 DEF Budget
      <3>6. MaxIterations > 0 => iteration' + Owed' <= MaxIterations + inputs' + C(planReady' /\ ~planActive')
        BY <1>2, <3>1, <3>2, <3>3, <3>4, <3>5, ConfigAssumption DEF Budget, Owed
      <3>7. QED
        BY <3>5, <3>6 DEF Budget
    <2>6. Works'
      BY <1>1, <2>1, <2>2 DEF Works, Promising, TurnPlaces
    <2>7. QED
      BY <1>1, <2>3, <2>4, <2>5, <2>6
  <1>5. CASE SyncFails
    <2>1. /\ UNCHANGED <<aborted, injection, loop, turn, planActive, iteration>>
          /\ op = "syncing" /\ status' = "failed" /\ op' = "idle" /\ loop = "off"
      BY <1>5 DEF SyncFails, flagVars, LoopStatus, Busy
    <2>2. LoopStatus' /\ FailInv'
      BY <1>1, <2>1 DEF LoopStatus, FailInv, FailsafeReached, TurnPlaces, Continuing, StopPlaces
    <2>3. Budget'
      BY <1>1, <1>2, <2>1, ConfigAssumption DEF Budget, Owed, C
    <2>4. Works'
      BY <2>1 DEF Works, Promising, TurnPlaces
    <2>5. QED
      BY <1>1, <2>2, <2>3, <2>4
  <1>6. CASE ContinueExecution
    <2>1. /\ op \in {"syncing", "continuing"} /\ status \in Promising /\ ~Busy
          /\ op' = "idle" /\ planActive' = planActive
          /\ ~aborted' /\ ~injection' /\ Iterate("running", iteration)
      BY <1>6 DEF ContinueExecution, ResetFlags, Promising
    <2>2. /\ loop' = "connect" /\ status' = "running" /\ iteration' = iteration + 1
          /\ turn'.outcome = "continue"
      <3>1. "running" \in Statuses /\ ~InPlanMode("running") /\ "running" \in Continuing
        BY DEF Statuses, InPlanMode, Continuing
      <3>2. QED
        BY <1>2, <2>1, <3>1, IterateEffect DEF IInv
    <2>3. starter # "setup" /\ loop = "off"
      BY <2>1 DEF Busy
    <2>4. LoopStatus'
      BY <1>1, <2>1, <2>2, <2>3 DEF LoopStatus, Continuing
    <2>5. FailInv'
      BY <1>1, <2>1 DEF FailInv, FailsafeReached, Promising, Continuing
    <2>6. Budget'
      <3>1. C(injection) \in {0, 1}
        BY DEF C
      <3>2. QED
        BY <1>1, <1>2, <2>1, <2>2, <2>3, <3>1, ConfigAssumption DEF Budget, Owed, C
    <2>7. Works'
      BY <2>2 DEF Works, Busy
    <2>8. QED
      BY <1>1, <2>4, <2>5, <2>6, <2>7
  <1>7. QED
    BY <1>3, <1>4, <1>5, <1>6 DEF AcceptStep

LEMMA StopKeepsLimits ==
  ASSUME LInv, StopStep
  PROVE  LInv'
  <1> USE DEF LInv
  <1>1. /\ UNCHANGED <<planActive, planReady, iteration, streak, policy, starter, loop, inputs,
                       faults, errorRun, injection>>
        /\ IInv' /\ starter # "new"
        /\ op \in StopPlaces \cup {"idle"} /\ op' \in StopPlaces
        /\ status' \in {status, "stopped"}
    BY StopKeepsInvariant
       DEF StopStep, StopBegins, StopCloses, StopInterrupts, MarkStopped, StopReturns,
           StopTimesOut, planVars, fixedVars, boundVars, flagVars, StopPlaces, IInv, Parked
  <1>2. turn'.outcome = turn.outcome
    <2>1. turn \in Turn
      BY DEF IInv, TypeOK
    <2>2. QED
      BY <2>1 DEF StopStep, StopBegins, StopCloses, CloseStream, StopInterrupts, MarkStopped,
                  StopReturns, StopTimesOut, Turn
  <1>3. op' \notin {"feedback", "accepting", "syncing", "continuing"}
    BY <1>1 DEF StopPlaces
  <1>4. op \notin {"feedback", "syncing", "continuing"}
    BY <1>1 DEF StopPlaces
  <1>5. LoopStatus'
    BY <1>1, <1>3 DEF LoopStatus
  <1>6. FailInv'
    BY <1>1 DEF FailInv, FailsafeReached, Continuing
  <1>7. Budget'
    BY <1>1, <1>3, <1>4 DEF Budget, Owed, C
  <1>8. Works'
    BY <1>1, <1>2 DEF Works, Busy, Promising
  <1>9. QED
    BY <1>1, <1>5, <1>6, <1>7, <1>8

-----------------------------------------------------------------------------
(* The invariant and what follows from it.                                 *)

LEMMA InitLimits == Init => LInv
  <1> SUFFICES ASSUME Init PROVE LInv
    OBVIOUS
  <1>1. IInv
    BY InitInvariant
  <1>2. LoopStatus
    BY DEF Init, LoopStatus, Busy, TurnPlaces
  <1>3. FailInv
    BY DEF Init, FailInv, FailsafeReached
  <1>4. Budget
    <2>1. /\ C(injection) = 0 /\ C(starter = "setup") = 0 /\ C(op = "feedback") = 0
          /\ C(starter = "setup" /\ loop # "off") = 0 /\ C(planReady /\ ~planActive) = 0
          /\ C(op \in {"feedback", "syncing", "continuing"}) \in {0, 1}
          /\ iteration = 0 /\ inputs = 0
      BY DEF Init, C
    <2>2. QED
      BY <2>1, ConfigAssumption DEF Budget, Owed
  <1>5. Works
    BY DEF Init, Works, TurnPlaces, Promising
  <1>6. QED
    BY <1>1, <1>2, <1>3, <1>4, <1>5 DEF LInv

LEMMA NextLimits == LInv /\ [Next]_vars => LInv'
  <1> SUFFICES ASSUME LInv, [Next]_vars PROVE LInv'
    OBVIOUS
  <1>1. CASE UNCHANGED vars
    <2>1. IInv'
      BY <1>1, NextInvariant DEF LInv
    <2>2. QED
      BY <1>1, <2>1 DEF LInv, LoopStatus, FailInv, FailsafeReached, Budget, Owed, C, Works, Busy,
                vars, planVars, fixedVars, flagVars, abortVars, opVars, boundVars, historyVars
  <1>2. CASE Next
    BY <1>2, TurnKeepsLimits, ResultKeepsLimits, StartKeepsLimits, InterruptKeepsLimits,
       InputKeepsLimits, AcceptKeepsLimits, StopKeepsLimits
       DEF Next
  <1>3. QED
    BY <1>1, <1>2

LEMMA LimitsInvariance == Spec => []LInv
  BY InitLimits, NextLimits, PTL DEF Spec

(* The failsafe is final: however the errors, the injections and the       *)
(* operations of users interleave, no turn is in flight once the streak    *)
(* of identical errors has reached maxConsecutiveErrors.                   *)
THEOREM FailsafeIsFinal == Spec => []FailsafeHolds
  <1>1. LInv => FailsafeHolds
    <2> SUFFICES ASSUME LInv, MaxErrors > 0, errorRun > 0, loop \in TurnPlaces
                 PROVE  streak.count < MaxErrors
      BY DEF FailsafeHolds
    <2>1. streak.count \in Nat
      BY DEF LInv, IInv, TypeOK
    <2>2. ~(streak.count >= MaxErrors)
      BY DEF LInv, FailInv, FailsafeReached, TurnPlaces
    <2>3. QED
      BY <2>1, <2>2, ConfigAssumption
  <1>2. QED
    BY <1>1, LimitsInvariance, PTL

(* maxIterations is exceeded by no more rounds than users have asked for:  *)
(* the loop never restarts on its own past the limit, whatever it rolls    *)
(* back and resumes.                                                       *)
THEOREM IterationsAreBudgeted == Spec => []IterationBudget
  <1>1. LInv => IterationBudget
    <2> SUFFICES ASSUME LInv, MaxIterations > 0
                 PROVE  iteration <= MaxIterations + inputs
                                       + (IF planReady /\ ~planActive THEN 1 ELSE 0)
      BY DEF IterationBudget
    <2>1. iteration + Owed <= MaxIterations + inputs + C(planReady /\ ~planActive)
      BY DEF LInv, Budget
    <2>2. Owed \in Nat /\ C(planReady /\ ~planActive) \in Nat
      BY DEF Owed, C
    <2>3. iteration \in Nat /\ inputs \in Nat
      BY DEF LInv, IInv, TypeOK
    <2>4. QED
      BY <2>1, <2>2, <2>3, ConfigAssumption DEF C
  <1>2. QED
    BY <1>1, LimitsInvariance, PTL

(* A task whose status promises progress has somebody to make it.  The     *)
(* flags an injection raises are cleared by the step that begins the turn  *)
(* it asked for, so the loop never ends between the two.                   *)
THEOREM NobodyIsStranded == Spec => []NoStrandedTask
  <1>1. LInv => NoStrandedTask
    BY DEF LInv, Works, NoStrandedTask, Promising, StopPlaces
  <1>2. QED
    BY <1>1, LimitsInvariance, PTL

-----------------------------------------------------------------------------
(* Feedback on a plan.  Between its injection and the turn it is put into  *)
(* the plan may be announced all the same; what keeps it from being        *)
(* accepted then is that the loop does not end.                            *)

(* Where the loop is on its way out, or past the reading of the feedback,  *)
(* only the injection brings it back.                                      *)
FeedbackHeld ==
  faults = 0 /\ status = "planning" /\ pending = "context" /\ op \notin StopPlaces =>
    \/ AtLimit /\ loop = "off"
    \/ /\ loop # "off"
       /\ loop \in {"persist", "send", "stream", "commit", "plan", "leave"} => injection
       /\ loop = "wrapup" /\ turn.outcome = "plan_ready" => injection

FeedbackInv ==
  /\ policy = "single_turn" => status # "planning"
  /\ starter = "new" => pending # "context"
  /\ loop \in {"finish", "settle", "limit"} /\ status = "planning" => op \in StopPlaces
  /\ FeedbackHeld

LEMMA TurnKeepsFeedback ==
  ASSUME LInv, FeedbackInv, TurnStep \/ AgentStep
  PROVE  FeedbackInv'
  <1>1. /\ loop \in TurnPlaces /\ loop' \in TurnPlaces
        /\ UNCHANGED <<policy, status, starter, op, injection, iteration>>
        /\ faults' = 0 => faults = 0
    <2>1. TypeOK
      BY DEF LInv, IInv
    <2>2. loop \in TurnPlaces /\ loop' \in TurnPlaces /\ TurnFrame
      BY <2>1, TurnLemma DEF TurnKept
    <2>3. faults' = 0 => faults = 0
      BY <2>1 DEF TurnStep, AgentStep, PromptCheckpointFails, TypeOK
    <2>4. QED
      BY <2>2, <2>3 DEF TurnFrame, flagVars, opVars, fixedVars
  <1>2. pending' = pending \/ pending' = "none"
    BY DEF TurnStep, AgentStep, Connect, Build, OpenStream, SendPrompt, CommitIteration, StreamCut,
           TurnCancelled, RecreateSession, TurnFails, AgentAnswers, CancelledByAbort, PromptCheckpointFails
  <1>3. \/ pending' = "none"
        \/ loop' \notin {"persist", "send", "stream", "commit"}
        \/ loop \in {"persist", "send", "stream", "commit"}
        \/ aborted
    BY DEF TurnStep, AgentStep, Connect, Build, OpenStream, SendPrompt, CommitIteration, StreamCut,
           TurnCancelled, RecreateSession, TurnFails, AgentAnswers, CancelledByAbort, PromptCheckpointFails,
           TurnThrows
  <1>4. loop # "off" /\ (aborted => injection \/ op \in StopPlaces)
    BY <1>1 DEF LInv, LoopStatus, TurnPlaces
  <1>5. ASSUME loop' = "wrapup", turn'.outcome = "plan_ready", pending' = pending
        PROVE  loop \in {"stream", "commit"} \/ aborted
    <2>1. turn \in Turn
      BY DEF LInv, IInv, TypeOK
    <2>2. ASSUME NEW code, TurnThrows(code)
          PROVE  FALSE
      BY <1>5, <2>1, <2>2 DEF TurnThrows, Turn
    <2>3. QED
      BY <1>5, <2>1, <2>2
         DEF TurnStep, AgentStep, Connect, Build, OpenStream, SendPrompt, CommitIteration,
             StreamCut, TurnCancelled, RecreateSession, TurnFails, AgentAnswers, CancelledByAbort,
             PromptCheckpointFails, Turn
  <1>6. FeedbackHeld'
    BY <1>1, <1>2, <1>3, <1>4, <1>5 DEF FeedbackInv, FeedbackHeld, TurnPlaces, AtLimit
  <1>7. QED
    BY <1>1, <1>2, <1>6 DEF FeedbackInv, TurnPlaces

(* A loop that ends in planning had no feedback to read, stands at the     *)
(* limit, or belongs to a stop.                                            *)
LEMMA HandleResultFeedback ==
  ASSUME LInv, FeedbackInv, HandleResult, UNCHANGED <<op, policy, pending>>, status' = "planning"
  PROVE  /\ loop' \in {"finish", "settle", "limit"} => op \in StopPlaces
         /\ FeedbackHeld'
  <1>1. /\ loop = "wrapup" /\ status = "planning" /\ TypeOK /\ UNCHANGED faults
        /\ aborted => injection \/ op \in StopPlaces
    BY HandleResultLimits
       DEF Onward, InPlanMode, HandleResult, LInv, IInv, LoopStatus
  <1>2. policy # "single_turn"
    BY <1>1 DEF FeedbackInv
  <1>3. \A to \in {"failed", "stopped", "completed"} : Accepts(status, to) /\ to # status
    BY <1>1 DEF Accepts, Legal, Targets
  <1>4. ASSUME NEW to \in {"failed", "stopped", "completed"}, NEW place, NEW newStreak, NEW it,
               Handled(to, place, newStreak, it)
        PROVE  FALSE
    BY <1>1, <1>3, <1>4 DEF Handled, Proceeds
  <1>5. CASE Handling = "single" /\ HandleSingleTurn
    <2>1. ~(aborted /\ ~injection) /\ ~injection
      BY <1>1, <1>2, <1>5 DEF Handling, Outcomes, Turn, TypeOK, Continuing
    <2>2. ~aborted /\ status # "stopped"
      BY <1>1, <2>1
    <2>3. QED
      BY <1>4, <1>5, <2>2 DEF HandleSingleTurn
  <1>6. CASE Handling = "dropped" /\ LoopEnds(status, iteration)
    <2>1. aborted /\ ~injection
      BY <1>1, <1>6 DEF Handling, Outcomes, Turn, TypeOK
    <2>2. QED
      BY <1>1, <1>6, <2>1 DEF LoopEnds, FeedbackHeld
  <1>7. CASE Handling = "superseded" /\ ResumeInjected(iteration)
    <2>1. injection /\ status \in Continuing
      BY <1>1, <1>7 DEF Handling, Outcomes, Turn, TypeOK
    <2>2. loop' = "connect"
      BY <1>1, <1>7, <2>1, ResumeEffect
    <2>3. QED
      BY <2>2 DEF FeedbackHeld
  <1>8. CASE Handling = "plan_ready" /\ Proceeds(status, "plan", streak, iteration)
    <2>1. turn.outcome = "plan_ready"
      BY <1>1, <1>8 DEF Handling, Outcomes, Turn, TypeOK
    <2>2. UNCHANGED injection /\ loop' = "plan"
      BY <1>8 DEF Proceeds, flagVars
    <2>3. QED
      BY <1>1, <2>1, <2>2 DEF FeedbackInv, FeedbackHeld
  <1>9. ASSUME loop' \in {"next", "retry"}
        PROVE  FeedbackHeld'
    BY <1>9 DEF FeedbackHeld
  <1>10. CASE Handling = "continue" /\ Proceeds(status, "next", NoStreak, iteration)
    BY <1>9, <1>10 DEF Proceeds
  <1>11. CASE Handling = "interrupted" /\ HandleInterrupted
    BY <1>9, <1>11 DEF HandleInterrupted
  <1>12. CASE Handling = "retry" /\ HandleError
    BY <1>4, <1>9, <1>12 DEF HandleError, Proceeds
  <1>13. QED
    BY <1>4, <1>5, <1>6, <1>7, <1>8, <1>10, <1>11, <1>12 DEF HandleResult

LEMMA ResultKeepsFeedback ==
  ASSUME LInv, FeedbackInv, ResultStep
  PROVE  FeedbackInv'
  <1>1. /\ UNCHANGED <<policy, op, pending>> /\ TypeOK /\ starter # "new" /\ starter' # "new"
        /\ loop # "off" /\ Onward
        /\ aborted => injection \/ op \in StopPlaces
    <2>1. Onward /\ TypeOK
      BY HandleResultLimits, OnwardLimits DEF LInv, IInv, ResultStep, opVars, fixedVars
    <2>2. loop # "off" /\ starter # "new"
      BY ResultLemma DEF LInv, IInv, Parked
    <2>3. QED
      BY <2>1, <2>2 DEF Onward, ResultStep, opVars, fixedVars, LInv, LoopStatus
  <1>2. status' = "planning" => status = "planning"
    BY <1>1 DEF Onward, InPlanMode
  <1>3. ASSUME status' = "planning"
        PROVE  /\ loop' \in {"finish", "settle", "limit"} => op \in StopPlaces
               /\ FeedbackHeld'
    <2>1. CASE HandleResult
      BY <1>1, <1>3, <2>1, HandleResultFeedback
    <2>2. CASE FinishCompletion \/ AnnouncePlan \/ RetryCheckpointed
      <3>1. UNCHANGED <<injection, status, faults>>
        BY <2>2 DEF FinishCompletion, AnnouncePlan, RetryCheckpointed, flagVars
      <3>2. CASE loop = "finish"
        BY <1>1, <1>3, <2>2, <3>1, <3>2
           DEF FinishCompletion, AnnouncePlan, RetryCheckpointed, FeedbackInv, FeedbackHeld
      <3>3. CASE loop # "finish"
        BY <1>1, <1>3, <2>2, <3>1, <3>3
           DEF FinishCompletion, AnnouncePlan, RetryCheckpointed, FeedbackInv, FeedbackHeld
      <3>4. QED
        BY <3>2, <3>3
    <2>3. CASE LeaveLoop
      <3>1. CASE injection /\ status \in Continuing
        <4>1. loop' = "connect"
          BY <1>1, <2>3, <3>1, ResumeEffect DEF LeaveLoop
        <4>2. QED
          BY <4>1 DEF FeedbackHeld
      <3>2. CASE ~(injection /\ status \in Continuing)
        <4>1. ~injection /\ loop = "leave" /\ loop' = "off" /\ UNCHANGED <<status, faults>>
          BY <1>2, <1>3, <2>3, <3>2 DEF LeaveLoop, LoopEnds, Continuing
        <4>2. QED
          BY <1>1, <1>3, <4>1 DEF FeedbackInv, FeedbackHeld
      <3>3. QED
        BY <3>1, <3>2
    <2>4. CASE NextRound
      <3>1. CASE AtLimit /\ Handled("max_iterations", "limit", streak, iteration)
        <4>1. ~Accepts(status, "max_iterations")
          BY <1>2, <1>3 DEF Accepts, Legal, Targets
        <4>2. loop' = "off" /\ iteration' = iteration
          BY <3>1, <4>1 DEF Handled, Throws, LoopEnds
        <4>3. QED
          BY <3>1, <4>2 DEF FeedbackHeld, AtLimit
      <3>2. CASE aborted /\ injection /\ ResumeInjected(iteration)
        <4>1. loop' = "connect"
          BY <1>1, <1>2, <1>3, <3>2, ResumeEffect DEF Continuing
        <4>2. QED
          BY <4>1 DEF FeedbackHeld
      <3>3. CASE ~(aborted /\ injection) /\ UNCHANGED flagVars /\ Iterate(status, iteration)
        <4>1. loop' = "connect" \/ (loop' = "off" /\ aborted')
          BY <1>1, <1>2, <1>3, <3>3, IterateEffect DEF TypeOK, Continuing
        <4>2. aborted' => op \in StopPlaces
          BY <1>1, <3>3 DEF flagVars
        <4>3. QED
          BY <1>1, <4>1, <4>2 DEF FeedbackHeld
      <3>4. QED
        BY <2>4, <3>1, <3>2, <3>3 DEF NextRound
    <2>5. CASE Settle
      <3>1. loop' = "off" /\ loop \in {"limit", "settle"}
        BY <2>5 DEF Settle, LoopEnds
      <3>2. QED
        BY <1>1, <1>2, <1>3, <3>1 DEF FeedbackInv, FeedbackHeld
    <2>6. CASE CheckpointFails
      <3>1. loop' = "off" /\ faults' > 0
        BY <1>1, <2>6 DEF CheckpointFails, Throws, LoopEnds, TypeOK
      <3>2. QED
        BY <3>1 DEF FeedbackHeld
    <2>7. QED
      BY <2>1, <2>2, <2>3, <2>4, <2>5, <2>6 DEF ResultStep
  <1>4. status' # "planning" => FeedbackHeld'
    BY DEF FeedbackHeld
  <1>5. QED
    BY <1>1, <1>2, <1>3, <1>4 DEF FeedbackInv

LEMMA StartKeepsFeedback ==
  ASSUME LInv, FeedbackInv, StartStep
  PROVE  FeedbackInv'
  <1>1. /\ UNCHANGED <<policy, op, pending, faults>> /\ TypeOK
        /\ starter = "new" => loop = "off"
    BY DEF StartStep, fixedVars, opVars, LInv, IInv, Parked
  <1>2. CASE Start
    BY <1>1, <1>2 DEF Start, FeedbackInv, FeedbackHeld
  <1>3. ASSUME UNCHANGED <<loop, turn, iteration, flagVars>>, status' \in {status, "failed"},
               starter' # "new"
        PROVE  FeedbackInv'
    <2>1. UNCHANGED injection
      BY <1>3 DEF flagVars
    <2>2. FeedbackHeld'
      BY <1>1, <1>3, <2>1 DEF FeedbackInv, FeedbackHeld, AtLimit
    <2>3. QED
      BY <1>1, <1>3, <2>2 DEF FeedbackInv
  <1>4. CASE SetupFails
    BY <1>3, <1>4 DEF SetupFails
  <1>5. CASE SetupDone
    <2>1. CASE aborted \/ loop # "off"
      BY <1>3, <1>5, <2>1 DEF SetupDone
    <2>2. CASE ~aborted /\ loop = "off"
      <3>1. /\ Iterate(status, iteration) /\ aborted' = aborted /\ starter' # "new"
        BY <1>5, <2>2 DEF SetupDone, flagVars
      <3>2. \/ loop' = "off" /\ status' = status /\ status \notin Continuing
            \/ loop' = "connect" /\ (status' = "planning" => status = "planning")
        BY <1>1, <2>2, <3>1, IterateEffect DEF TypeOK, InPlanMode
      <3>3. QED
        BY <1>1, <3>1, <3>2 DEF FeedbackInv, FeedbackHeld, Continuing
    <2>3. QED
      BY <2>1, <2>2
  <1>6. QED
    BY <1>2, <1>4, <1>5 DEF StartStep

LEMMA InterruptKeepsFeedback ==
  ASSUME LInv, FeedbackInv, InterruptStep \/ FollowUpStep
  PROVE  FeedbackInv'
  <1>1. /\ UNCHANGED <<policy, status, starter, pending, loop, injection, iteration, faults>>
        /\ turn'.outcome = turn.outcome
    <2>1. turn \in Turn
      BY DEF LInv, IInv, TypeOK
    <2>2. turn'.outcome = turn.outcome
      BY <2>1 DEF InterruptStep, AbortDelivered, QueuedAbortBegins, DisconnectDelivered,
                  FollowUpStep, Turn
    <2>3. QED
      BY <2>2 DEF InterruptStep, FollowUpStep, flagVars, fixedVars, boundVars
  <1>2. op' = op \/ (op \in StopPlaces /\ op' \in StopPlaces)
    BY DEF InterruptStep, AbortDelivered, QueuedAbortBegins, DisconnectDelivered, FollowUpStep,
           opVars, LInv, IInv, Parked, StopPlaces
  <1>3. QED
    BY <1>1, <1>2 DEF FeedbackInv, FeedbackHeld, AtLimit

LEMMA InputKeepsFeedback ==
  ASSUME LInv, FeedbackInv, InputStep
  PROVE  FeedbackInv'
  <1>1. UNCHANGED <<policy, faults>> /\ TypeOK
    BY DEF InputStep, fixedVars, LInv, IInv
  <1>2. CASE Inject \/ ClearPending
    BY <1>1, <1>2 DEF Inject, ClearPending, FeedbackInv, FeedbackHeld
  <1>3. CASE GiveFeedback \/ FeedbackSettles
    <2>1. /\ UNCHANGED <<pending, injection, loop, turn, starter, status, iteration>>
          /\ op \notin StopPlaces /\ op' \notin StopPlaces
      BY <1>3 DEF GiveFeedback, FeedbackSettles, flagVars, StopPlaces
    <2>2. QED
      BY <1>1, <2>1 DEF FeedbackInv, FeedbackHeld, AtLimit
  <1>4. CASE InjectPlanFeedback
    <2>1. /\ op = "feedback" /\ op \notin StopPlaces /\ UNCHANGED starter /\ starter # "new"
      BY <1>4 DEF InjectPlanFeedback, StopPlaces, LInv, IInv, Parked
    <2>2. CASE loop # "off" /\ injection' = TRUE /\ UNCHANGED <<loop, status>>
      BY <1>1, <2>1, <2>2 DEF FeedbackInv, FeedbackHeld
    <2>3. CASE loop = "off" /\ status = "planning" /\ ResetFlags /\ Iterate(status, iteration)
      <3>1. loop' = "connect"
        BY <1>1, <2>3, IterateEffect DEF TypeOK, ResetFlags, Continuing
      <3>2. QED
        BY <1>1, <2>1, <2>3, <3>1 DEF FeedbackInv, FeedbackHeld
    <2>4. CASE loop = "off" /\ status # "planning" /\ UNCHANGED <<loop, status>>
      BY <1>1, <2>1, <2>4 DEF FeedbackInv, FeedbackHeld
    <2>5. QED
      BY <1>4, <2>2, <2>3, <2>4 DEF InjectPlanFeedback
  <1>5. QED
    BY <1>2, <1>3, <1>4 DEF InputStep

LEMMA AcceptKeepsFeedback ==
  ASSUME LInv, FeedbackInv, AcceptStep
  PROVE  FeedbackInv'
  <1>1. /\ UNCHANGED <<policy, starter, faults>> /\ TypeOK /\ starter # "new"
    BY DEF AcceptStep, fixedVars, LInv, IInv, Parked, AcceptBegins, AcceptTimesOut, SyncFails,
           ContinueExecution, AcceptPlan
  <1>2. ASSUME UNCHANGED <<pending, injection, loop, turn, status, iteration>>,
               op \notin StopPlaces
        PROVE  FeedbackInv'
    BY <1>1, <1>2 DEF FeedbackInv, FeedbackHeld, AtLimit
  <1>3. ASSUME status' # "planning"
        PROVE  FeedbackInv'
    BY <1>1, <1>3 DEF FeedbackInv, FeedbackHeld
  <1>4. CASE AcceptBegins \/ AcceptTimesOut
    BY <1>2, <1>4 DEF AcceptBegins, AcceptTimesOut, flagVars, StopPlaces
  <1>5. CASE \E target \in {"starting", "completed"} : AcceptPlan(target)
    BY <1>2, <1>3, <1>5 DEF AcceptPlan, flagVars, StopPlaces
  <1>6. CASE SyncFails
    BY <1>3, <1>6 DEF SyncFails
  <1>7. CASE ContinueExecution
    <2>1. "running" \in Statuses /\ ~InPlanMode("running")
      BY DEF Statuses, InPlanMode
    <2>2. status' = "running"
      BY <1>1, <1>7, <2>1, IterateEffect DEF ContinueExecution, TypeOK
    <2>3. QED
      BY <1>3, <2>2
  <1>8. QED
    BY <1>4, <1>5, <1>6, <1>7 DEF AcceptStep

LEMMA StopKeepsFeedback ==
  ASSUME LInv, FeedbackInv, StopStep
  PROVE  FeedbackInv'
  <1>1. /\ UNCHANGED <<policy, starter, pending, loop>>
        /\ op' \in StopPlaces /\ status' \in {status, "stopped"}
    BY DEF StopStep, StopBegins, StopCloses, StopInterrupts, MarkStopped, StopReturns,
           StopTimesOut, fixedVars, StopPlaces
  <1>2. QED
    BY <1>1 DEF FeedbackInv, FeedbackHeld

LEMMA FeedbackInvariance == Spec => [](LInv /\ FeedbackInv)
  <1>1. Init => FeedbackInv
    BY DEF Init, FeedbackInv, FeedbackHeld
  <1>2. LInv /\ FeedbackInv /\ [Next]_vars => FeedbackInv'
    <2>1. CASE UNCHANGED vars
      BY <2>1 DEF FeedbackInv, FeedbackHeld, AtLimit, vars, fixedVars, flagVars, opVars, boundVars
    <2>2. CASE Next
      BY <2>2, TurnKeepsFeedback, ResultKeepsFeedback, StartKeepsFeedback, InterruptKeepsFeedback,
         InputKeepsFeedback, AcceptKeepsFeedback, StopKeepsFeedback
         DEF Next
    <2>3. QED
      BY <2>1, <2>2
  <1>3. QED
    BY <1>1, <1>2, LimitsInvariance, PTL DEF Spec

(* Below the iteration limit no plan goes into execution over feedback     *)
(* that was given on it and has not been put to the agent, wherever the    *)
(* loop was when the feedback came.                                        *)
THEOREM FeedbackIsSeen == Spec => AcceptanceSeesFeedback
  <1> DEFINE Seen ==
        faults = 0 /\ ~AtLimit /\ status = "planning" /\ status' = "starting" /\ starter # "new"
          => pending # "context"
  <1>1. ASSUME LInv, FeedbackInv, Next, faults = 0, ~AtLimit, status = "planning",
               status' = "starting", starter # "new"
        PROVE  pending # "context"
    <2>1. TypeOK /\ TypeOK'
      BY <1>1, NextInvariant DEF LInv, IInv
    <2>2. ~(TurnStep \/ AgentStep)
      BY <1>1 DEF TurnStep, AgentStep, TurnFrame
    <2>3. ~ResultStep
      <3>1. ResultStep => Onward
        BY <1>1, HandleResultLimits, OnwardLimits DEF ResultStep, opVars, fixedVars
      <3>2. QED
        BY <1>1, <3>1 DEF Onward, InPlanMode
    <2>4. ~StartStep
      <3>1. Iterate(status, iteration) => status' # "starting"
        BY <1>1, <2>1, IterateEffect DEF TypeOK, InPlanMode
      <3>2. QED
        BY <1>1, <3>1 DEF StartStep, Start, SetupDone, SetupFails
    <2>5. ~(InterruptStep \/ FollowUpStep)
      BY <1>1 DEF InterruptStep, FollowUpStep
    <2>6. ~InputStep
      <3>1. Iterate(status, iteration) => status' # "starting"
        BY <1>1, <2>1, IterateEffect DEF TypeOK, InPlanMode
      <3>2. QED
        BY <1>1, <3>1
           DEF InputStep, Inject, ClearPending, GiveFeedback, InjectPlanFeedback, FeedbackSettles
    <2>7. ~StopStep
      BY <1>1 DEF StopStep, StopBegins, StopCloses, StopInterrupts, MarkStopped, StopReturns,
                  StopTimesOut
    <2>8. AcceptStep
      BY <1>1, <2>2, <2>3, <2>4, <2>5, <2>6, <2>7 DEF Next
    <2>9. op = "accepting" /\ loop = "off"
      <3>1. ~ContinueExecution
        BY <1>1 DEF ContinueExecution
      <3>2. QED
        BY <1>1, <2>8, <3>1
           DEF AcceptStep, AcceptBegins, AcceptTimesOut, SyncFails, AcceptPlan, Busy
    <2>10. QED
      BY <1>1, <2>9 DEF FeedbackInv, FeedbackHeld, StopPlaces
  <1>2. LInv /\ FeedbackInv /\ [Next]_vars => [Seen]_vars
    BY <1>1
  <1>3. QED
    BY <1>2, FeedbackInvariance, PTL DEF Spec, AcceptanceSeesFeedback

=============================================================================
