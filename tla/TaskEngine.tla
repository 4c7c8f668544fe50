----------------------------- MODULE TaskEngine -----------------------------
(***************************************************************************)
(* The run loop of one TaskEngine (core/engine/engine-core.ts) with the    *)
(* prompt executor and the session lifecycle it drives, under the          *)
(* operations TaskManager runs on it (core/task/): plan feedback, plan     *)
(* acceptance, stop and deletion, which the per-task lifecycle queue       *)
(* serialises, and message injection (POST /pending), which nothing        *)
(* serialises.                                                             *)
(*                                                                         *)
(* JavaScript runs to the next await: an action is the code between two    *)
(* awaits, loop and op say at which await the loop and the lifecycle       *)
(* operation are parked.  The agent answers anything, at any time; its     *)
(* text is abstracted to the promise marker it ends with, an error to its  *)
(* code.                                                                   *)
(***************************************************************************)
EXTENDS Naturals, TaskStatus

CONSTANTS
  Codes,          \* the error codes the agent and the transport report
  MaxIterations,  \* config.maxIterations, 0 for null
  MaxErrors,      \* config.maxConsecutiveErrors, 0 for unlimited
  MaxTurns,       \* bound: from this turn on the agent ends what it is given
  MaxInputs,      \* bound on the injections, clears and feedback rounds
  MaxFaults       \* bound on the checkpoints that fail

ASSUME ConfigAssumption ==
  /\ MaxIterations \in Nat /\ MaxErrors \in Nat
  /\ MaxTurns \in Nat /\ MaxInputs \in Nat /\ MaxFaults \in Nat
  /\ Codes \cap {"none", "cancelled"} = {}
  /\ "unknown" \in Codes

VARIABLES
  \* TaskState
  status,
  planActive, planReady,   \* planMode.active, planMode.isPlanReady
  iteration,               \* currentIteration
  streak,                  \* consecutiveErrors
  pending,                 \* intent of the pending input, "none" without one
  \* TaskEngine
  adapter, policy,         \* fixed at construction
  aborted, injection,      \* aborted, injectionPending
  starter,                 \* start(): isStarting is "setup"
  loop,                    \* the await the loop is parked at; isTaskRunning is # "off"
  turn,                    \* the iteration in flight
  followUp,                \* completionFollowUp
  \* TaskSessionLifecycle
  session,                 \* a session exists and the backend is connected
  aborting, queued,        \* activeInterrupt, and the interrupts waiting for it
  \* the lifecycle operation of TaskManager
  op, ending,
  \* bounds and history
  turns, inputs, faults,
  mixed,                   \* an injection was pending when stop came, or came after it
  errorRun                 \* failed turns since the last one that did not fail

planVars == <<planActive, planReady>>
flagVars == <<aborted, injection>>
fixedVars == <<adapter, policy>>
abortVars == <<aborting, queued>>
opVars == <<op, ending>>
boundVars == <<turns, inputs, faults>>
historyVars == <<mixed, errorRun>>
vars == <<status, planVars, iteration, streak, pending, fixedVars, flagVars, starter, loop,
          turn, followUp, session, abortVars, opVars, boundVars, historyVars>>

Continuing == {"running", "starting", "planning"}
Markers == {"none", "complete", "plan_ready", "blocked"}
Outcomes == {"continue", "complete", "plan_ready", "blocked", "error"}
TurnPlaces == {"connect", "build", "persist", "send", "stream", "commit", "wrapup"}
LoopPlaces == TurnPlaces \cup {"off", "finish", "plan", "retry", "leave", "next", "limit",
                               "settle"}

Turn ==
  [plan : BOOLEAN, mode : {"context", "user"}, stream : {"none", "open", "closed"},
   waits : BOOLEAN, retried : BOOLEAN, cancelled : BOOLEAN, outcome : Outcomes,
   code : Codes \cup {"none", "cancelled"}]

NoTurn == [plan |-> FALSE, mode |-> "context", stream |-> "none", waits |-> FALSE,
           retried |-> FALSE, cancelled |-> FALSE, outcome |-> "continue", code |-> "none"]
StopPlaces == {"cut", "interrupt", "disconnecting", "mark", "drain", "stopped", "gone"}
NoStreak == [code |-> "none", count |-> 0]

InPlanMode(st) == st = "planning" /\ planActive
Busy == starter = "setup" \/ loop # "off"

-----------------------------------------------------------------------------

(* The three ways an engine comes to exist: startPlanMode, a (re)start or  *)
(* jumpstart, and the single-turn follow-up of a finished task.  A task    *)
(* started again after the failsafe keeps its streak of errors.            *)
Init ==
  /\ adapter \in {"acp", "native"}
  /\ \/ /\ status \in {"planning", "stopped"} /\ policy = "task_loop"
        /\ starter = "new" /\ session = FALSE /\ op = "idle" /\ pending \in {"none", "user"}
     \/ /\ status = "running" /\ policy = "single_turn"
        /\ starter = "done" /\ session = TRUE /\ op = "continuing" /\ pending = "user"
  /\ planActive = (status = "planning") /\ planReady = FALSE
  /\ iteration = 0
  /\ streak \in {NoStreak, [code |-> "unknown", count |-> MaxErrors]}
  /\ aborted = FALSE /\ injection = FALSE
  /\ loop = "off" /\ turn = NoTurn /\ followUp = "none"
  /\ aborting = "none" /\ queued = 0 /\ ending = "no"
  /\ turns = 0 /\ inputs = 0 /\ faults = 0
  /\ mixed = FALSE /\ errorRun = 0

-----------------------------------------------------------------------------
(* Entering and leaving the loop.                                          *)

Caller(place) == IF place = "off" /\ starter = "waiting" THEN "done" ELSE starter

LoopEnds(st, it) ==
  /\ loop' = "off" /\ turn' = NoTurn
  /\ status' = st /\ iteration' = it
  /\ UNCHANGED turns

(* The head of the while loop, up to the first await of runIteration.      *)
Iterate(st, it) ==
  IF aborted' \/ st \notin Continuing THEN LoopEnds(st, it)
  ELSE /\ loop' = "connect"
       /\ turn' = [NoTurn EXCEPT !.plan = InPlanMode(st), !.waits = aborting # "none"]
       /\ status' = IF InPlanMode(st) THEN "planning" ELSE "running"
       /\ iteration' = it + 1
       /\ turns' = IF turns < MaxTurns THEN turns + 1 ELSE turns

ResetFlags == aborted' = FALSE /\ injection' = FALSE

(* An exception that leaves runTask.  start() turns it into a failure, the *)
(* single-turn follow-up too; a loop started by plan feedback or by the    *)
(* acceptance of a plan only logs it.                                      *)
Throws ==
  /\ LET to == IF \/ starter = "waiting" /\ ~aborted /\ Accepts(status, "failed")
                  \/ policy = "single_turn" /\ status \in {"running", "starting"}
               THEN "failed" ELSE status
     IN LoopEnds(to, iteration)
  /\ starter' = Caller("off")
  /\ UNCHANGED <<flagVars, streak>>

Proceeds(to, place, newStreak, it) ==
  /\ status' = to /\ loop' = place /\ streak' = newStreak /\ iteration' = it
  /\ turn' = NoTurn
  /\ UNCHANGED <<turns, starter, flagVars>>

(* updateState with a new status, then an await at the given place.        *)
Handled(to, place, newStreak, it) ==
  IF Accepts(status, to) THEN Proceeds(to, place, newStreak, it) ELSE Throws

ResumeInjected(it) ==
  /\ ResetFlags
  /\ Iterate(status, it)
  /\ starter' = Caller(loop')

-----------------------------------------------------------------------------
(* One iteration: runIteration and TaskPromptExecutor.execute.             *)

(* The catch of runIteration.                                              *)
TurnThrows(code) ==
  /\ loop' = "wrapup"
  /\ turn' = IF aborted /\ adapter = "native"
             THEN [turn EXCEPT !.stream = "none", !.outcome = "continue", !.code = "none"]
             ELSE [turn EXCEPT !.stream = "none", !.outcome = "error", !.code = code]

(* waitForInterrupt, ensureSession and waitForHarnessQuiescence, which a   *)
(* native harness leaves with an error once the engine is aborted.         *)
Connect ==
  /\ loop = "connect" /\ ~turn.waits
  /\ session' = TRUE
  /\ IF adapter = "native" /\ aborted THEN TurnThrows("unknown")
     ELSE loop' = "build" /\ UNCHANGED turn
  /\ UNCHANGED <<pending, planReady>>

(* buildPrompt consumes the pending input. *)
Build ==
  /\ loop = "build"
  /\ IF aborted THEN TurnThrows("unknown") /\ UNCHANGED pending
     ELSE /\ pending' = "none"
          /\ turn' = [turn EXCEPT !.mode = IF InPlanMode(status) \/ pending = "none"
                                           THEN "context" ELSE pending]
          /\ loop' = "persist"
  /\ UNCHANGED <<session, planReady>>

(* The stream handle is registered once the prompt is checkpointed.        *)
OpenStream ==
  /\ loop = "persist"
  /\ IF ~session THEN TurnThrows("unknown")
     ELSE loop' = "send" /\ turn' = [turn EXCEPT !.stream = "open"]
  /\ UNCHANGED <<session, pending, planReady>>

(* startPrompt; a handle closed meanwhile ends the turn without an answer. *)
SendPrompt ==
  /\ loop = "send"
  /\ loop' = IF turn.stream = "open" THEN "stream" ELSE "commit"
  /\ UNCHANGED <<turn, session, pending, planReady>>

(* A transport error, or one the agent reports before the engine aborts.   *)
TurnFails(code) ==
  /\ loop \in {"connect", "send", "stream"} /\ turns < MaxTurns
  /\ loop = "connect" => ~turn.waits
  /\ TurnThrows(code)
  /\ UNCHANGED <<session, pending, planReady>>

(* The cancellation a late interrupt leaves in the stream; the event loop  *)
(* reads it only while the engine is not aborted.                          *)
TurnCancelled ==
  /\ loop = "stream" /\ turn.cancelled /\ turn.stream = "open" /\ ~aborted
  /\ loop' = "wrapup"
  /\ turn' = [turn EXCEPT !.stream = "none", !.outcome = "error", !.code = "cancelled"]
  /\ UNCHANGED <<session, pending, planReady>>

(* acp_session_not_found: recreate the session and send once more. *)
RecreateSession ==
  /\ loop \in {"send", "stream"} /\ adapter = "acp" /\ ~turn.retried /\ turns < MaxTurns
  /\ session' = TRUE
  /\ loop' = "persist"
  /\ turn' = [turn EXCEPT !.retried = TRUE, !.stream = "none", !.cancelled = FALSE]
  /\ UNCHANGED <<pending, planReady>>

(* evaluateTaskOutcome on the text received; direct turns are not judged.  *)
Verdict(marker) ==
  IF policy = "single_turn" \/ turn.mode = "user" THEN "continue"
  ELSE CASE marker = "none" -> "continue"
         [] marker = "plan_ready" -> IF InPlanMode(status) THEN "plan_ready" ELSE "continue"
         [] OTHER -> marker

Concludes(marker) ==
  /\ turn' = [turn EXCEPT !.stream = "none", !.outcome = Verdict(marker)]
  /\ planReady' = (planReady \/ Verdict(marker) = "plan_ready")
  /\ loop' = IF Verdict(marker) = "complete" THEN "wrapup" ELSE "commit"

(* The abort comes while the cancellation is being checkpointed: the turn  *)
(* counts as cut, and the text received is judged.                         *)
CancelledByAbort(marker) ==
  /\ loop = "wrapup" /\ turn.code = "cancelled" /\ turn.outcome = "error" /\ aborted
  /\ Concludes(marker)
  /\ UNCHANGED <<session, pending>>

(* The agent ends the turn, or the activity timeout of ACP does. *)
AgentAnswers(marker) ==
  /\ loop = "stream" /\ turn.stream = "open" /\ session
  /\ turns < MaxTurns \/ Verdict(marker) # "continue" \/ turn.mode = "user"
                      \/ policy = "single_turn"
  /\ Concludes(marker)
  /\ UNCHANGED <<session, pending>>

(* Mutant: shouldStop does not look at the abort flag. *)
StreamCutBlind(marker) ==
  /\ loop = "stream" /\ (turn.stream = "closed" \/ ~session)
  /\ IF adapter = "native" /\ ~aborted THEN TurnThrows("unknown") /\ UNCHANGED planReady
     ELSE Concludes(marker)
  /\ UNCHANGED <<session, pending>>

(* shouldStop, a closed handle or a dropped connection ends the stream; a  *)
(* native stream without a terminal event is an error unless aborted.      *)
StreamCut(marker) ==
  /\ loop = "stream" /\ (aborted \/ turn.stream = "closed" \/ ~session)
  /\ IF adapter = "native" /\ ~aborted THEN TurnThrows("unknown") /\ UNCHANGED planReady
     ELSE Concludes(marker)
  /\ UNCHANGED <<session, pending>>

(* A failed commit is only logged; the native safety query may throw.      *)
CommitIteration ==
  /\ loop = "commit"
  /\ \/ loop' = "wrapup" /\ UNCHANGED turn
     \/ adapter = "native" /\ TurnThrows("unknown")
  /\ UNCHANGED <<session, pending, planReady>>

PromptCheckpointFails ==
  /\ loop = "persist" /\ faults < MaxFaults /\ faults' = faults + 1
  /\ TurnThrows("unknown")
  /\ UNCHANGED <<session, pending, planReady>>

-----------------------------------------------------------------------------
(* What runTask does with the result.                                      *)

(* Mutant: the result of a turn that stop interrupted is not dropped. *)
HandlingAfterStop ==
  CASE policy = "single_turn" -> "single"
    [] OTHER ->
       IF turn.mode = "user"
       THEN IF injection /\ status \in Continuing THEN "superseded" ELSE "single"
       ELSE IF turn.outcome # "error" THEN turn.outcome
       ELSE IF injection THEN "interrupted"
       ELSE IF adapter = "native" THEN "fatal" ELSE "retry"

Handling ==
  CASE policy = "single_turn" -> "single"
    [] policy # "single_turn" /\ aborted /\ ~injection -> "dropped"
    [] OTHER ->
       IF turn.mode = "user"
       THEN IF injection /\ status \in Continuing THEN "superseded" ELSE "single"
       ELSE IF turn.outcome # "error" THEN turn.outcome
       ELSE IF injection THEN "interrupted"
       ELSE IF adapter = "native" THEN "fatal" ELSE "retry"

(* handleSingleTurnResult. *)
HandleSingleTurn ==
  IF aborted \/ status = "stopped" THEN Proceeds(status, "settle", streak, iteration)
  ELSE IF turn.outcome = "error" THEN Handled("failed", "settle", streak, iteration)
  ELSE Handled("stopped", "settle", NoStreak, iteration)

(* trackConsecutiveError: only an identical code lengthens the streak. *)
Counted(code) ==
  [code |-> code, count |-> IF streak.code = code THEN streak.count + 1 ELSE 1]

(* Mutant: the failsafe tolerates one error too many. *)
FailsafeLate(tracker) == MaxErrors > 0 /\ tracker.count > MaxErrors

Failsafe(tracker) == MaxErrors > 0 /\ tracker.count >= MaxErrors

(* The ACP branch of handleErrorOutcome. *)
HandleError ==
  LET tracker == Counted(turn.code)
  IN IF Failsafe(tracker) THEN Handled("failed", "leave", tracker, iteration - 1)
     ELSE Proceeds(status, "retry", tracker, iteration - 1)

(* continueWithAbortFallbackInjection. *)
HandleInterrupted ==
  /\ ResetFlags
  /\ loop' = "next" /\ turn' = NoTurn /\ streak' = NoStreak
  /\ iteration' = IF adapter = "acp" THEN iteration - 1 ELSE iteration
  /\ UNCHANGED <<status, starter, turns>>

HandleResult ==
  /\ loop = "wrapup"
  /\ \/ Handling = "single" /\ HandleSingleTurn
     \/ /\ Handling = "dropped"
        /\ LoopEnds(status, iteration) /\ starter' = Caller("off")
        /\ UNCHANGED <<flagVars, streak>>
     \/ Handling = "superseded" /\ ResumeInjected(iteration) /\ UNCHANGED streak
     \/ Handling = "blocked" /\ Handled("stopped", "leave", NoStreak, iteration)
     \/ Handling = "complete" /\ Handled("completed", "finish", NoStreak, iteration)
     \/ Handling = "plan_ready" /\ Proceeds(status, "plan", streak, iteration)
     \/ Handling = "continue" /\ Proceeds(status, "next", NoStreak, iteration)
     \/ Handling = "interrupted" /\ HandleInterrupted
     \/ Handling = "fatal" /\ Handled("failed", "leave", streak, iteration)
     \/ Handling = "retry" /\ HandleError
  /\ errorRun' = IF Handling = "retry" THEN errorRun + 1 ELSE 0
  /\ UNCHANGED <<followUp, faults>>

(* finalizeCompletedOutcome: commit, and schedule the follow-up when the   *)
(* workspace is safe.                                                      *)
FinishCompletion ==
  /\ loop = "finish" /\ loop' = "leave"
  /\ followUp' \in {"none", "due"}
  /\ UNCHANGED <<status, iteration, streak, turn, turns, starter, flagVars, errorRun, faults>>

(* handlePlanReadyOutcome after it has read the plan file. *)
AnnouncePlan ==
  /\ loop = "plan" /\ loop' = "leave"
  /\ streak' = NoStreak
  /\ UNCHANGED <<status, iteration, turn, turns, starter, flagVars, followUp, errorRun, faults>>

(* Mutant: an injection that arrives while the outcome is handled is lost. *)
LeaveLoopAtOnce ==
  /\ loop = "leave"
  /\ LoopEnds(status, iteration) /\ starter' = Caller("off") /\ UNCHANGED flagVars
  /\ UNCHANGED <<streak, followUp, errorRun, faults>>

(* shouldExit: an injection that arrived while the outcome was handled     *)
(* keeps the loop going.                                                   *)
LeaveLoop ==
  /\ loop = "leave"
  /\ IF injection /\ status \in Continuing THEN ResumeInjected(iteration)
     ELSE LoopEnds(status, iteration) /\ starter' = Caller("off") /\ UNCHANGED flagVars
  /\ UNCHANGED <<streak, followUp, errorRun, faults>>

RetryCheckpointed ==
  /\ loop = "retry" /\ loop' = "next"
  /\ UNCHANGED <<status, iteration, streak, turn, turns, starter, flagVars, followUp, errorRun,
                 faults>>

(* Mutant: one iteration beyond the limit. *)
BeyondLimit == MaxIterations > 0 /\ iteration > MaxIterations

AtLimit == MaxIterations > 0 /\ iteration >= MaxIterations

(* hasReachedMaxIterations, the abort checks and the next round. *)
NextRound ==
  /\ loop = "next"
  /\ \/ AtLimit /\ Handled("max_iterations", "limit", streak, iteration)
     \/ ~AtLimit /\ aborted /\ injection /\ ResumeInjected(iteration) /\ UNCHANGED streak
     \/ /\ ~AtLimit /\ ~(aborted /\ injection)
        /\ UNCHANGED <<flagVars, streak>>
        /\ Iterate(status, iteration) /\ starter' = Caller(loop')
  /\ UNCHANGED <<followUp, errorRun, faults>>

Settle ==
  /\ loop \in {"limit", "settle"}
  /\ LoopEnds(status, iteration) /\ starter' = Caller("off")
  /\ UNCHANGED <<flagVars, streak, followUp, errorRun, faults>>

(* triggerPersistence rejects outside the try of runIteration. *)
CheckpointFails ==
  /\ \/ loop \in {"finish", "plan", "retry", "leave", "limit", "settle"}
     \/ loop = "wrapup" /\ turn.outcome = "continue"
  /\ faults < MaxFaults /\ faults' = faults + 1
  /\ Throws
  /\ UNCHANGED <<followUp, errorRun>>

-----------------------------------------------------------------------------
(* start().                                                                *)

Start ==
  /\ starter = "new"
  /\ status' = IF status = "planning" THEN "planning" ELSE "starting"
  /\ iteration' = 0
  /\ ResetFlags
  /\ starter' = "setup"
  /\ UNCHANGED <<loop, turn, turns, session>>

(* Git, the planning directory and the session are set up; runTask does    *)
(* nothing when plan feedback has started the loop in the meantime.        *)
SetupDone ==
  /\ starter = "setup"
  /\ session' = TRUE
  /\ UNCHANGED flagVars
  /\ IF aborted \/ loop # "off"
     THEN starter' = "done" /\ UNCHANGED <<loop, turn, turns, status, iteration>>
     ELSE /\ Iterate(status, iteration)
          /\ starter' = IF loop' = "off" THEN "done" ELSE "waiting"

SetupFails ==
  /\ starter = "setup"
  /\ starter' = "done"
  /\ status' = IF ~aborted /\ Accepts(status, "failed") THEN "failed" ELSE status
  /\ UNCHANGED <<flagVars, loop, turn, turns, iteration, session>>

-----------------------------------------------------------------------------
(* interruptSession: one abort at a time, later ones wait for it.          *)

RequestAbort ==
  IF aborting # "none" THEN queued' = queued + 1 /\ UNCHANGED aborting
  ELSE /\ aborting' = IF session THEN "soft" ELSE "none"
       /\ UNCHANGED queued

CloseStream ==
  turn' = [turn EXCEPT !.stream = IF @ = "open" THEN "closed" ELSE @]

(* backend.abortSession returns: whatever prompt the session runs by then  *)
(* is cancelled.                                                           *)
AbortDelivered ==
  /\ aborting = "soft" /\ aborting' = "none"
  /\ turn' = [turn EXCEPT !.waits = FALSE, !.cancelled = @ \/ loop = "stream"]
  /\ UNCHANGED <<queued, session, op>>

QueuedAbortBegins ==
  /\ queued > 0 /\ aborting = "none"
  /\ queued' = queued - 1
  /\ aborting' = IF session THEN "soft" ELSE "none"
  /\ UNCHANGED <<turn, session, op>>

(* The interrupt of stop disconnects and forgets the session.              *)
DisconnectDelivered ==
  /\ aborting = "hard" /\ aborting' = "none"
  /\ session' = FALSE
  /\ turn' = [turn EXCEPT !.waits = FALSE]
  /\ op' = "mark"
  /\ UNCHANGED queued

-----------------------------------------------------------------------------
(* What users do.                                                          *)

Reachable == starter # "new" /\ ending # "delete" /\ op \notin {"stopped", "gone"}

(* Mutant: a message raises the abort even when no loop runs. *)
InjectAborting ==
  /\ Reachable /\ status \in Continuing
  /\ inputs < MaxInputs /\ inputs' = inputs + 1
  /\ pending' = "user"
  /\ injection' = TRUE /\ aborted' = TRUE
  /\ mixed' = (mixed \/ ending # "no")
  /\ RequestAbort
  /\ UNCHANGED <<loop, turn, starter, status, planVars, iteration, op, turns>>

(* injectPendingImpl and injectPendingNow. *)
Inject ==
  /\ Reachable /\ status \in Continuing
  /\ inputs < MaxInputs /\ inputs' = inputs + 1
  /\ pending' = "user"
  /\ IF loop = "off" THEN UNCHANGED <<flagVars, abortVars, mixed>>
     ELSE /\ injection' = TRUE /\ aborted' = TRUE
          /\ mixed' = (mixed \/ ending # "no")
          /\ RequestAbort
  /\ UNCHANGED <<loop, turn, starter, status, planVars, iteration, op, turns>>

ClearPending ==
  /\ Reachable /\ status \in Continuing /\ pending # "none"
  /\ inputs < MaxInputs /\ inputs' = inputs + 1
  /\ pending' = "none"
  /\ UNCHANGED <<flagVars, abortVars, mixed, loop, turn, starter, status, planVars, iteration,
                 op, turns>>

(* sendPlanFeedbackImpl up to its write of the feedback round. *)
GiveFeedback ==
  /\ op = "idle" /\ ending = "no" /\ starter # "new" /\ status = "planning"
  /\ inputs < MaxInputs /\ inputs' = inputs + 1
  /\ planReady' = FALSE
  /\ op' = "feedback"
  /\ UNCHANGED <<pending, flagVars, abortVars, mixed, loop, turn, starter, status, planActive,
                 iteration, turns>>

(* injectPlanFeedback: interrupt the running turn, or start a plan         *)
(* iteration, which runPlanIteration refuses outside planning.             *)
InjectPlanFeedback ==
  /\ op = "feedback"
  /\ pending' = "context"
  /\ \/ /\ loop # "off"
        /\ injection' = TRUE /\ UNCHANGED aborted
        /\ CloseStream /\ RequestAbort
        /\ op' = "settling"
        /\ UNCHANGED <<loop, status, iteration, turns>>
     \/ /\ loop = "off" /\ status = "planning"
        /\ ResetFlags /\ Iterate(status, iteration)
        /\ op' = "idle"
        /\ UNCHANGED abortVars
     \/ /\ loop = "off" /\ status # "planning"
        /\ op' = "idle"
        /\ UNCHANGED <<flagVars, abortVars, loop, turn, status, iteration, turns>>
  /\ UNCHANGED <<mixed, starter, planVars, inputs>>

FeedbackSettles ==
  /\ op = "settling" /\ aborting = "none" /\ queued = 0
  /\ op' = "idle"
  /\ UNCHANGED <<pending, flagVars, abortVars, mixed, loop, turn, starter, status, planVars,
                 iteration, turns, inputs>>

-----------------------------------------------------------------------------
(* Accepting a plan, and running what was accepted.                        *)

AcceptBegins ==
  /\ op = "idle" /\ ending = "no" /\ status = "planning" /\ planReady
  /\ op' = "accepting"
  /\ UNCHANGED <<pending, flagVars, loop, turn, status, planActive, iteration, turns>>

(* Mutant: the plan is accepted without waiting for the loop. *)
AcceptPlanAtOnce(target) ==
  /\ op = "accepting"
  /\ IF Legal(status, target)
     THEN /\ status' = target /\ planActive' = FALSE
          /\ pending' = IF target = "completed" THEN "none" ELSE pending
          /\ op' = IF target = "completed" THEN "idle" ELSE "syncing"
     ELSE op' = "idle" /\ UNCHANGED <<status, planActive, pending>>
  /\ UNCHANGED <<flagVars, loop, turn, iteration, turns>>

(* acceptPlanImpl once the engine is idle: the state is written directly,  *)
(* to execute the plan or to hand it to a terminal.                        *)
AcceptPlan(target) ==
  /\ op = "accepting" /\ ~Busy
  /\ IF Legal(status, target)
     THEN /\ status' = target /\ planActive' = FALSE
          /\ pending' = IF target = "completed" THEN "none" ELSE pending
          /\ op' = IF target = "completed" THEN "idle" ELSE "syncing"
     ELSE op' = "idle" /\ UNCHANGED <<status, planActive, pending>>
  /\ UNCHANGED <<flagVars, loop, turn, iteration, turns>>

AcceptTimesOut ==
  /\ op = "accepting" /\ Busy
  /\ op' = "idle"
  /\ UNCHANGED <<pending, flagVars, loop, turn, status, planActive, iteration, turns>>

(* syncBaseBranchBeforeExecution failed. *)
SyncFails ==
  /\ op = "syncing" /\ Accepts(status, "failed")
  /\ status' = "failed" /\ op' = "idle"
  /\ UNCHANGED <<pending, flagVars, loop, turn, planActive, iteration, turns>>

(* beginAcceptedPlanExecution and continueExecution; for a follow-up       *)
(* engine, continueExecution alone.                                        *)
ContinueExecution ==
  /\ <<op, status>> \in {<<"syncing", "starting">>, <<"continuing", "running">>}
  /\ ~Busy
  /\ pending' = IF op = "syncing" THEN "context" ELSE pending
  /\ ResetFlags
  /\ Iterate("running", iteration)
  /\ op' = "idle"
  /\ UNCHANGED planActive

-----------------------------------------------------------------------------
(* stop() and stopForDeletion().                                           *)

(* Mutant: stop disconnects the agent but does not abort the loop. *)
StopBeginsQuietly(kind) ==
  /\ op = "idle" /\ ending = "no" /\ starter # "new"
  /\ ending' = kind /\ op' = "cut"
  /\ mixed' = (mixed \/ injection)
  /\ UNCHANGED <<flagVars, abortVars, turn, status>>

StopBegins(kind) ==
  /\ op = "idle" /\ ending = "no" /\ starter # "new"
  /\ aborted' = TRUE
  /\ ending' = kind /\ op' = "cut"
  /\ mixed' = (mixed \/ injection)
  /\ UNCHANGED <<injection, abortVars, turn, status>>

(* interruptBackendForStop closes the handle, then waits for the interrupt *)
(* in flight.                                                              *)
StopCloses ==
  /\ op = "cut" /\ op' = "interrupt"
  /\ CloseStream
  /\ UNCHANGED <<flagVars, ending, abortVars, status, mixed>>

StopInterrupts ==
  /\ op = "interrupt" /\ aborting = "none"
  /\ IF session THEN aborting' = "hard" /\ op' = "disconnecting"
     ELSE op' = "mark" /\ UNCHANGED aborting
  /\ UNCHANGED <<flagVars, ending, queued, turn, status, mixed>>

MarkStopped ==
  /\ op = "mark" /\ op' = "drain"
  /\ status' = IF ending = "stop" /\ status # "completed" /\ Accepts(status, "stopped")
               THEN "stopped" ELSE status
  /\ UNCHANGED <<flagVars, ending, abortVars, turn, mixed>>

(* waitForTaskIdle returns, or gives up after 30 s; TaskManager drops the  *)
(* engine either way.                                                      *)
StopReturns ==
  /\ op = "drain" /\ ~Busy /\ op' = "stopped"
  /\ UNCHANGED <<flagVars, ending, abortVars, turn, status, mixed>>

StopTimesOut ==
  /\ op = "drain" /\ Busy /\ op' = "gone"
  /\ UNCHANGED <<flagVars, ending, abortVars, turn, status, mixed>>

-----------------------------------------------------------------------------
(* startCompletionFollowUp: once the completion has settled, unless the    *)
(* engine was stopped.                                                     *)
FollowUpRuns ==
  /\ followUp = "due" /\ loop # "finish"
  /\ followUp' = IF aborted THEN "none" ELSE "pushing"

-----------------------------------------------------------------------------

TurnFrame ==
  UNCHANGED <<status, planActive, iteration, streak, flagVars, starter, followUp, abortVars,
              opVars, fixedVars, turns, inputs, historyVars>>

(* The engine's own steps of a turn, and those the agent, the transport or *)
(* the database decide on.                                                 *)
TurnStep ==
  /\ \/ Connect \/ Build \/ OpenStream \/ SendPrompt \/ CommitIteration
     \/ \E marker \in Markers : StreamCut(marker)
  /\ UNCHANGED faults /\ TurnFrame

AgentStep ==
  /\ \/ /\ \/ TurnCancelled \/ RecreateSession
           \/ \E code \in Codes : TurnFails(code)
           \/ \E marker \in Markers : AgentAnswers(marker) \/ CancelledByAbort(marker)
        /\ UNCHANGED faults
     \/ PromptCheckpointFails
  /\ TurnFrame

ResultStep ==
  /\ \/ HandleResult \/ FinishCompletion \/ AnnouncePlan \/ LeaveLoop \/ RetryCheckpointed
     \/ NextRound \/ Settle \/ CheckpointFails
  /\ UNCHANGED <<planVars, pending, fixedVars, session, abortVars, opVars, inputs, mixed>>

StartStep ==
  /\ Start \/ SetupDone \/ SetupFails
  /\ UNCHANGED <<planVars, pending, streak, fixedVars, followUp, abortVars, opVars, inputs, faults,
                 historyVars>>

InterruptStep ==
  /\ AbortDelivered \/ QueuedAbortBegins \/ DisconnectDelivered
  /\ UNCHANGED <<status, planVars, iteration, streak, pending, fixedVars, flagVars, starter, loop,
                 followUp, ending, boundVars, historyVars>>

InputStep ==
  /\ Inject \/ ClearPending \/ GiveFeedback \/ InjectPlanFeedback \/ FeedbackSettles
  /\ UNCHANGED <<streak, fixedVars, followUp, session, ending, faults, errorRun>>

AcceptStep ==
  /\ \/ AcceptBegins \/ AcceptTimesOut \/ SyncFails \/ ContinueExecution
     \/ \E target \in {"starting", "completed"} : AcceptPlan(target)
  /\ UNCHANGED <<planReady, streak, fixedVars, starter, followUp, session, abortVars, ending,
                 inputs, faults, historyVars>>

StopStep ==
  /\ \/ \E kind \in {"stop", "delete"} : StopBegins(kind)
     \/ StopCloses \/ StopInterrupts \/ MarkStopped \/ StopReturns \/ StopTimesOut
  /\ UNCHANGED <<planVars, iteration, streak, pending, fixedVars, starter, loop, followUp,
                 session, boundVars, errorRun>>

FollowUpStep ==
  /\ FollowUpRuns
  /\ UNCHANGED <<status, planVars, iteration, streak, pending, fixedVars, flagVars, starter, loop,
                 turn, session, abortVars, opVars, boundVars, historyVars>>

Next ==
  \/ TurnStep \/ AgentStep \/ ResultStep \/ StartStep \/ InterruptStep
  \/ InputStep \/ AcceptStep \/ StopStep \/ FollowUpStep

Spec == Init /\ [][Next]_vars

(* Fairness: awaited calls return.  The loop, start(), the interrupts, and *)
(* the lifecycle operation go on once what they wait for has happened; the *)
(* agent never has to answer, no user has to act, no timeout has to fire.  *)
(* A stream that was closed, disconnected or marked aborted is left, which *)
(* for an aborted stream presumes one more event or the activity timeout.  *)
FairSpec ==
  /\ Spec
  /\ WF_vars(TurnStep) /\ WF_vars(ResultStep) /\ WF_vars(StartStep)
  /\ WF_vars(InterruptStep)
  /\ WF_vars(StopStep /\ op # "idle" /\ op' # "gone")

-----------------------------------------------------------------------------

TypeOK ==
  /\ status \in Statuses
  /\ planActive \in BOOLEAN /\ planReady \in BOOLEAN
  /\ iteration \in Nat
  /\ streak \in [code : Codes \cup {"none", "cancelled"}, count : Nat]
  /\ pending \in {"none", "context", "user"}
  /\ adapter \in {"acp", "native"} /\ policy \in {"task_loop", "single_turn"}
  /\ aborted \in BOOLEAN /\ injection \in BOOLEAN
  /\ starter \in {"new", "setup", "waiting", "done"}
  /\ loop \in LoopPlaces
  /\ turn \in Turn
  /\ followUp \in {"none", "due", "pushing"}
  /\ session \in BOOLEAN
  /\ aborting \in {"none", "soft", "hard"} /\ queued \in Nat
  /\ op \in StopPlaces \cup {"idle", "feedback", "settling", "accepting", "syncing",
                            "continuing"}
  /\ ending \in {"no", "stop", "delete"}
  /\ turns \in Nat /\ inputs \in Nat /\ faults \in Nat
  /\ mixed \in BOOLEAN /\ errorRun \in Nat

(* A stop that no injection overlaps is final: from then on no turn is     *)
(* sent to the agent, the outcome of the interrupted turn is dropped and   *)
(* no completion follow-up pushes the branch (the aborted checks of        *)
(* runTask, startOwned and startCompletionFollowUp).                       *)
StopIsFinal ==
  [][ending # "no" /\ ~mixed' =>
       /\ loop' = "connect" => loop = "connect"
       /\ followUp' = "pushing" => followUp = "pushing"
       /\ status' = "completed" => status = "completed"]_vars

(* While a planning turn is in flight the task stays in plan mode: the     *)
(* acceptance waits for the loop before it rewrites the state the turn     *)
(* was started from.                                                       *)
PlanTurnsStayInPlanning == loop \in TurnPlaces /\ turn.plan => status # "running" /\ planActive

(* A task whose status promises progress has somebody to make it: a loop,  *)
(* a start, or the lifecycle operation about to run one.  Injections are   *)
(* the hazard: they abort the loop and rely on it to go on.                *)
NoStrandedTask ==
  policy = "task_loop" /\ faults = 0 /\ status \in {"starting", "running"}
    => Busy \/ starter = "new" \/ op # "idle"

(* No turn follows the failsafe: after a failed turn the next one runs     *)
(* only below maxConsecutiveErrors.                                        *)
FailsafeHolds ==
  MaxErrors > 0 /\ errorRun > 0 /\ loop \in TurnPlaces => streak.count < MaxErrors

(* maxIterations is exceeded only by the rounds that users ask for         *)
(* themselves: an injection, a feedback round, the acceptance of the plan. *)
IterationBudget ==
  MaxIterations > 0
    => iteration <= MaxIterations + inputs + (IF planReady /\ ~planActive THEN 1 ELSE 0)

(* Below the iteration limit a plan is executed only when the feedback     *)
(* given before has been put to the agent, even when the plan was          *)
(* announced while the feedback was being injected.                        *)
AcceptanceSeesFeedback ==
  [][faults = 0 /\ ~AtLimit /\ status = "planning" /\ status' = "starting" /\ starter # "new"
       => pending # "context"]_vars

(* A stop drains the engine: the loop and start() end, whatever the agent  *)
(* does, unless an injection restarts the loop.                            *)
StopDrains == ending # "no" ~> ~Busy \/ mixed

(* A message injected into a running loop is put to the agent even if the  *)
(* agent never finishes the turn it interrupts, unless the user withdraws  *)
(* or replaces it or the task ends first.                                  *)
InjectionIsServed ==
  policy = "task_loop" /\ loop # "off" /\ injection /\ pending = "user"
    ~> pending # "user" \/ status \notin Continuing \/ ending # "no"

-----------------------------------------------------------------------------
(* What the documentation and the comments of the code say, and the code   *)
(* does not do.                                                            *)

(* A stop by the user is not taken for the abort of an injection: after it *)
(* the loop starts no further turn.                                        *)
UserStopIsNotAnInjection ==
  [][ending # "no" => (loop' = "connect" => loop = "connect")]_vars

=============================================================================
