---------------------------- MODULE TaskLifecycle ----------------------------
(***************************************************************************)
(* One task under TaskManager (core/task/): the queue that runs its        *)
(* operations one at a time with the slot a deletion reserves for its      *)
(* deferred cleanup, the engines map, the status in the tasks table, the   *)
(* operations, and the two that pass the queue by, markMerged and          *)
(* forceResetAll.                                                          *)
(*                                                                         *)
(* An engine is what the operations see of it: whether its loop executes,  *)
(* whether it may still write the row.  Its first checkpoint is part of    *)
(* start(), up to the first await.  Plan mode, reviews and conflict        *)
(* resolution are left out: an accepted plan is a started engine here.     *)
(* Engines are numbered in the order they are built; 0 is no engine.       *)
(***************************************************************************)
EXTENDS Naturals, Sequences, TaskStatus

CONSTANTS
  Capacity,     \* requests one task may have queued (128 in the code)
  MaxEngines,   \* bound on the engines built
  MaxRequests,  \* bound on the requests of users
  MaxTimeouts,  \* bound on loops that outlive the 30 s wait of a stop
  MaxCrashes    \* bound on restarts of the server

ASSUME LifecycleBounds ==
  /\ Capacity \in Nat \ {0} /\ MaxEngines \in Nat
  /\ MaxRequests \in Nat /\ MaxTimeouts \in Nat /\ MaxCrashes \in Nat

VARIABLES
  row,       \* status in the tasks table, "gone" once the row is deleted
  engines,   \* ctx.engines
  eng,       \* every engine built, in the map or not
  queue,     \* the requests in the order they run; the first one runs
  run,       \* the await the first one is parked at, and what it read before
  deferred,  \* the cleanup a deletion handed to the slot behind it
  side,      \* markMerged or forceResetAll, which do not queue
  lost,      \* history: how an engine first lost the map or its row, still executing
  requests, timeouts, crashes

bounds == <<requests, timeouts, crashes>>
vars == <<row, engines, eng, queue, run, deferred, side, lost, bounds>>

-----------------------------------------------------------------------------

EngineIds == 1..MaxEngines
Rows == Statuses \cup {"gone"}
Kinds == {"start", "stop", "delete", "purge", "cleanup", "jumpstart", "followup", "push",
          "revive", "complete", "terminal", "idle"}
Places == {"queued", "building", "restarting", "stopping", "waiting", "disconnecting",
           "linking", "git", "checking", "reconnecting", "pushing", "finalizing"}
Causes == {"no", "timeout", "cleanup", "refused", "settling", "merge", "reset"}

Engine == [phase : {"unborn", "loop", "settle", "idle"}, status : Statuses,
           aborted : BOOLEAN, keeps : BOOLEAN]
Request == [kind : Kinds, id : EngineIds \cup {0}]
Run == [at : Places, snap : Statuses, id : EngineIds \cup {0}]
Side == [kind : {"none", "merge", "reset"}, at : {"none", "read", "written", "waiting", "stopped"},
         id : EngineIds \cup {0}]
\* ready: the slot knows what to do; git: there is a branch to clean up
Deferred == [ready : BOOLEAN, id : EngineIds \cup {0}, git : BOOLEAN]

Unborn == [phase |-> "unborn", status |-> "idle", aborted |-> FALSE, keeps |-> FALSE]
Queued == [at |-> "queued", snap |-> "idle", id |-> 0]
NoSide == [kind |-> "none", at |-> "none", id |-> 0]
NotReady == [ready |-> FALSE, id |-> 0, git |-> FALSE]
NoCleanup == [ready |-> TRUE, id |-> 0, git |-> FALSE]

Executing(e) == eng[e].phase \in {"loop", "settle"}
Terminal == {"completed", "stopped", "failed", "max_iterations"}
Startable == {"idle", "starting", "stopped"}
Stale == {"idle", "starting", "running", "waiting"}

Init ==
  /\ row = "idle" /\ engines = 0 /\ eng = [e \in EngineIds |-> Unborn]
  /\ queue = <<>> /\ run = Queued /\ deferred = NotReady /\ side = NoSide
  /\ lost = [e \in EngineIds |-> "no"]
  /\ requests = 0 /\ timeouts = 0 /\ crashes = 0

(* updateTaskStateForUser: no row, nothing to update; a deleted row takes  *)
(* another status only from a revival.                                     *)
Written(st, reviving) ==
  IF row = "gone" \/ (row = "deleted" /\ st # "deleted" /\ ~reviving) THEN row ELSE st

(* getTask: the live status of the engine in the map, or the row's.        *)
Live == IF row = "gone" THEN "gone" ELSE IF engines = 0 THEN row ELSE eng[engines].status

(* What becomes of an engine the code loses sight of.                      *)
Lose(e, cause) ==
  lost' = IF e # 0 /\ Executing(e) /\ lost[e] = "no" THEN [lost EXCEPT ![e] = cause] ELSE lost

-----------------------------------------------------------------------------
(* The queue.                                                              *)

Running(kind, place) == queue # <<>> /\ Head(queue).kind = kind /\ run.at = place

Parks(place, snap, id) ==
  run' = [at |-> place, snap |-> snap, id |-> id] /\ UNCHANGED <<queue, deferred>>
Returns == run' = Queued /\ queue' = Tail(queue) /\ UNCHANGED deferred

(* Mutant: an operation that deleted nothing leaves its slot waiting. *)
ReturnsWithCleanupOnly(cleanup) ==
  /\ run' = Queued /\ queue' = Tail(queue)
  /\ deferred' = IF Len(queue) > 1 /\ queue[2].kind = "cleanup" /\ cleanup # NoCleanup
                   THEN cleanup ELSE NotReady

(* A deletion leaves: the slot behind it, if it got one, knows its task.   *)
ReturnsWith(cleanup) ==
  /\ run' = Queued /\ queue' = Tail(queue)
  /\ deferred' = IF Len(queue) > 1 /\ queue[2].kind = "cleanup" THEN cleanup ELSE NotReady

Plain(kind) == [kind |-> kind, id |-> 0]
Settling == engines # 0 /\ eng[engines].phase = "settle"

(* run() behind waitForCompletionSettlement, where the operation has one.  *)
Submit(kind) ==
  /\ requests < MaxRequests /\ Len(queue) < Capacity
  /\ kind \in {"jumpstart", "followup", "push", "complete"} => ~Settling
  /\ requests' = requests + 1 /\ queue' = Append(queue, Plain(kind))
  /\ UNCHANGED <<row, engines, eng, run, deferred, side, lost, timeouts, crashes>>

(* A deletion reserves the next place for its cleanup at once.  At         *)
(* capacity the second run() rejects, which is only logged.                *)
SubmitDeletion(kind) ==
  /\ requests < MaxRequests /\ Len(queue) < Capacity
  /\ requests' = requests + 1
  /\ queue' = IF Len(queue) + 1 < Capacity
                THEN queue \o <<Plain(kind), Plain("cleanup")>>
                ELSE Append(queue, Plain(kind))
  /\ UNCHANGED <<row, engines, eng, run, deferred, side, lost, timeouts, crashes>>

(* injectPending without an engine: an active status in the row is stale,  *)
(* resetStaleTask stops it and a jumpstart follows.                        *)
InjectStale ==
  /\ requests < MaxRequests /\ Len(queue) < Capacity
  /\ engines = 0 /\ row \in Stale
  /\ row' = "stopped" /\ requests' = requests + 1
  /\ queue' = Append(queue, Plain("jumpstart"))
  /\ UNCHANGED <<engines, eng, run, deferred, side, lost, timeouts, crashes>>

Ask ==
  \/ \E kind \in {"start", "stop", "jumpstart", "followup", "push", "revive", "complete",
                  "terminal"} : Submit(kind)
  \/ \E kind \in {"delete", "purge"} : SubmitDeletion(kind)
  \/ InjectStale

(* The interval of startStatePersistence and the end of                    *)
(* runEngineInBackground ask to retire the engine of the map.              *)
AskIdle ==
  /\ engines # 0 /\ ~Executing(engines) /\ Len(queue) < Capacity
  /\ \A i \in 1..Len(queue) : queue[i].kind # "idle"
  /\ queue' = Append(queue, [kind |-> "idle", id |-> engines])
  /\ UNCHANGED <<row, engines, eng, run, deferred, side, lost, bounds>>

-----------------------------------------------------------------------------
(* The engines.                                                            *)

(* new TaskEngine and the code of start() up to its first await, which     *)
(* saves the status; start() throws when the status it was built with      *)
(* cannot start.                                                           *)
Builds(st, active) ==
  \E e \in EngineIds :
    /\ eng[e].phase = "unborn" /\ \A d \in 1..(e - 1) : eng[d].phase # "unborn"
    /\ eng' = [eng EXCEPT ![e] = [phase |-> IF active # "no" THEN "loop" ELSE "idle",
                                  status |-> IF active # "no" THEN active ELSE st,
                                  aborted |-> FALSE, keeps |-> TRUE]]
    /\ row' = IF active # "no" THEN Written(active, FALSE) ELSE row
    /\ engines' = e

Starts(st) == Builds(st, IF st \in Startable THEN "starting" ELSE "no")

Saved(e, st) == IF eng[e].keeps THEN Written(st, FALSE) ELSE row

Becomes(e, phase, st) ==
  /\ eng' = [eng EXCEPT ![e].phase = phase, ![e].status = st]
  /\ row' = Saved(e, st)
  /\ UNCHANGED <<engines, queue, run, deferred, side, lost, bounds>>

(* The session is there and the loop runs its first iteration.             *)
Begin(e) ==
  /\ eng[e].phase = "loop" /\ eng[e].status = "starting" /\ ~eng[e].aborted
  /\ Becomes(e, "loop", "running")

(* finalizeCompletedOutcome: the row says completed before the workspace   *)
(* is committed.                                                           *)
Complete(e) ==
  /\ eng[e].phase = "loop" /\ eng[e].status = "running" /\ ~eng[e].aborted
  /\ Becomes(e, "settle", "completed")

Settle(e) == eng[e].phase = "settle" /\ Becomes(e, "idle", eng[e].status)

(* Mutant: the status a loop ends with is not saved. *)
EndUnsaved(e) ==
  /\ eng[e].phase = "loop" /\ ~eng[e].aborted
  /\ \E st \in {"stopped", "failed", "max_iterations"} :
       /\ Legal(eng[e].status, st) /\ (eng[e].status = "starting" => st = "failed")
       /\ eng' = [eng EXCEPT ![e].phase = "idle", ![e].status = st]
  /\ UNCHANGED <<row, engines, queue, run, deferred, side, lost, bounds>>

(* The loop ends blocked, failed or at its limit.                          *)
End(e) ==
  /\ eng[e].phase = "loop" /\ ~eng[e].aborted
  /\ \E st \in {"stopped", "failed", "max_iterations"} :
       /\ Legal(eng[e].status, st) /\ (eng[e].status = "starting" => st = "failed")
       /\ Becomes(e, "idle", st)

(* An aborted loop ends at its next check and leaves the status alone.     *)
Unwind(e) ==
  /\ eng[e].phase = "loop" /\ eng[e].aborted
  /\ eng' = [eng EXCEPT ![e].phase = "idle"]
  /\ UNCHANGED <<row, engines, queue, run, deferred, side, lost, bounds>>

(* A checkpoint of the loop writes the whole state, status included.       *)
Save(e) ==
  /\ Executing(e) /\ eng[e].keeps /\ row # Written(eng[e].status, FALSE)
  /\ Becomes(e, eng[e].phase, eng[e].status)

EngineStep(e) == Begin(e) \/ Complete(e) \/ Settle(e) \/ End(e) \/ Unwind(e) \/ Save(e)

-----------------------------------------------------------------------------
(* startTask, and the restart a jumpstart ends in without a branch.        *)

Starting == Running("start", "building") \/ Running("jumpstart", "restarting")
              \/ Running("followup", "restarting")

StartLoad ==
  /\ Running("start", "queued")
  /\ IF row \in {"gone", "deleted"} \/ engines # 0 THEN Returns ELSE Parks("building", row, 0)
  /\ UNCHANGED <<row, engines, eng, side, lost, bounds>>

StartBuild == Starting /\ Starts(run.snap) /\ Returns /\ UNCHANGED <<side, lost, bounds>>

(* Any await of an operation that has not changed anything may throw.      *)
Fail ==
  /\ \/ Starting \/ Running("push", "pushing") \/ Running("complete", "checking")
     \/ \E kind \in {"jumpstart", "followup"}, at \in {"building", "checking", "reconnecting"} :
          Running(kind, at)
  /\ Returns
  /\ UNCHANGED <<row, engines, eng, side, lost, bounds>>

-----------------------------------------------------------------------------
(* stopTask.                                                               *)

Abort(e) == eng' = [eng EXCEPT ![e].aborted = TRUE]

Stop ==
  /\ Running("stop", "queued")
  /\ IF engines = 0 THEN Returns /\ UNCHANGED eng
     ELSE Parks("stopping", "idle", engines) /\ Abort(engines)
  /\ UNCHANGED <<row, engines, side, lost, bounds>>

(* The backend is interrupted.  A status stop() may not leave makes it     *)
(* throw into the finally of stopTask.                                     *)
StopMarks ==
  /\ Running("stop", "stopping")
  /\ LET st == eng[run.id].status
     IN IF st = "completed" \/ Accepts(st, "stopped")
        THEN /\ eng' = [eng EXCEPT ![run.id].status = IF st = "completed" THEN st ELSE "stopped"]
             /\ Parks("waiting", "idle", run.id) /\ UNCHANGED <<engines, lost>>
        ELSE engines' = 0 /\ Lose(engines, "timeout") /\ Returns /\ UNCHANGED eng
  /\ UNCHANGED <<row, side, bounds>>

(* Mutant: stop does not wait for the loop. *)
StopAtOnce ==
  /\ Running("stop", "waiting")
  /\ row' = Saved(run.id, eng[run.id].status)
  /\ eng' = [eng EXCEPT ![run.id].keeps = FALSE]
  /\ engines' = 0
  /\ Parks("disconnecting", "idle", run.id)
  /\ UNCHANGED <<side, lost, bounds>>

StopSettles ==
  /\ Running("stop", "waiting") /\ ~Executing(run.id)
  /\ row' = Saved(run.id, eng[run.id].status)
  /\ eng' = [eng EXCEPT ![run.id].keeps = FALSE]
  /\ engines' = 0
  /\ Parks("disconnecting", "idle", run.id)
  /\ UNCHANGED <<side, lost, bounds>>

(* waitForTaskIdle gives up after 30 s: the engine leaves the map with its *)
(* loop and its checkpoints alive, the row keeps its active status.        *)
StopTimesOut ==
  /\ Running("stop", "waiting") /\ Executing(run.id) /\ timeouts < MaxTimeouts
  /\ timeouts' = timeouts + 1
  /\ engines' = 0 /\ Lose(run.id, "timeout") /\ Returns
  /\ UNCHANGED <<row, eng, side, requests, crashes>>

StopRecords ==
  /\ Running("stop", "disconnecting")
  /\ row' = Written(eng[run.id].status, FALSE) /\ Returns
  /\ UNCHANGED <<engines, eng, side, lost, bounds>>

-----------------------------------------------------------------------------
(* deleteTask and discardTask, purgeTask, and their deferred cleanup.      *)

Purgeable == {"draft", "accepted_local", "merged", "pushed", "deleted"}

Delete ==
  /\ Running("delete", "queued")
  /\ IF row = "gone" THEN ReturnsWith(NoCleanup) /\ UNCHANGED <<row, engines>>
     ELSE row' = "deleted" /\ engines' = 0 /\ Parks("linking", "idle", engines)
  /\ UNCHANGED <<eng, side, lost, bounds>>

Purge ==
  /\ Running("purge", "queued")
  /\ IF row \notin Purgeable THEN ReturnsWith(NoCleanup) /\ UNCHANGED <<row, engines>>
     ELSE row' = "gone" /\ engines' = 0 /\ Parks("linking", "idle", engines)
  /\ UNCHANGED <<eng, side, lost, bounds>>

(* The linked chat is deleted, the cleanup goes to its slot.  Whether Git  *)
(* has anything to clean up depends on the task.                           *)
Defer ==
  /\ Running("delete", "linking") \/ Running("purge", "linking")
  /\ \E git \in BOOLEAN : ReturnsWith([ready |-> TRUE, id |-> run.id, git |-> git])
  /\ Lose(IF deferred'.ready THEN 0 ELSE run.id, "refused")
  /\ UNCHANGED <<row, engines, eng, side, bounds>>

CleanedUp == run' = Queued /\ queue' = Tail(queue) /\ deferred' = NotReady

(* Mutant: the loop is not told to stop. *)
CleanupQuietly ==
  /\ Running("cleanup", "queued") /\ deferred.ready
  /\ IF deferred.id = 0 THEN /\ CleanedUp \/ (deferred.git /\ Parks("git", "idle", 0))
                             /\ UNCHANGED eng
     ELSE /\ eng' = [eng EXCEPT ![deferred.id].keeps = FALSE]
          /\ Parks("waiting", "idle", deferred.id)
  /\ UNCHANGED <<row, engines, side, lost, bounds>>

(* stopForDeletion disables the checkpoints before it waits.               *)
Cleanup ==
  /\ Running("cleanup", "queued") /\ deferred.ready
  /\ IF deferred.id = 0 THEN /\ CleanedUp \/ (deferred.git /\ Parks("git", "idle", 0))
                             /\ UNCHANGED eng
     ELSE /\ eng' = [eng EXCEPT ![deferred.id].aborted = TRUE, ![deferred.id].keeps = FALSE]
          /\ Parks("waiting", "idle", deferred.id)
  /\ UNCHANGED <<row, engines, side, lost, bounds>>

(* Mutant: the cleanup does not wait for the loop. *)
CleanupDetached ==
  /\ Running("cleanup", "waiting") /\ CleanedUp
  /\ UNCHANGED <<row, engines, eng, side, lost, bounds>>

CleanupSettles ==
  /\ Running("cleanup", "waiting") /\ ~Executing(run.id)
  /\ CleanedUp \/ (deferred.git /\ Parks("git", "idle", run.id))
  /\ UNCHANGED <<row, engines, eng, side, lost, bounds>>

(* Mutant: a wait that gave up counts as a stopped loop. *)
CleanupTimesOutSafely ==
  /\ Running("cleanup", "waiting") /\ Executing(run.id) /\ timeouts < MaxTimeouts
  /\ timeouts' = timeouts + 1
  /\ Lose(run.id, "cleanup")
  /\ CleanedUp \/ (deferred.git /\ Parks("git", "idle", run.id))
  /\ UNCHANGED <<row, engines, eng, side, requests, crashes>>

(* The wait gave up: Git is left alone.                                    *)
CleanupTimesOut ==
  /\ Running("cleanup", "waiting") /\ Executing(run.id) /\ timeouts < MaxTimeouts
  /\ timeouts' = timeouts + 1
  /\ Lose(run.id, "cleanup") /\ CleanedUp
  /\ UNCHANGED <<row, engines, eng, side, requests, crashes>>

(* cleanupTaskGit: reset --hard, or the worktree and the branch removed.   *)
CleanupGit ==
  /\ Running("cleanup", "git") /\ CleanedUp
  /\ UNCHANGED <<row, engines, eng, side, lost, bounds>>

-----------------------------------------------------------------------------
(* jumpstart, and sendFollowUp on a task that is not completed or pushed.  *)

Jumping(place) == Running("jumpstart", place) \/ Running("followup", place)

Jumpstart ==
  /\ Jumping("queued") /\ ~(Head(queue).kind = "followup" /\ row \in {"completed", "pushed"})
  /\ IF row \in Terminal \cup {"deleted"}
       THEN row' = Written("stopped", TRUE) /\ Parks("building", "stopped", 0)
       ELSE Returns /\ UNCHANGED row
  /\ UNCHANGED <<engines, eng, side, lost, bounds>>

(* An engine whose completion still settles is dropped for the new one.    *)
Replaces(e) == Lose(IF e # 0 /\ eng[e].phase = "settle" THEN e ELSE 0, "settling")

(* jumpstartOnExistingBranch puts its engine into the map unconditionally. *)
JumpstartBuilds ==
  /\ Jumping("building") /\ Replaces(engines) /\ Starts(run.snap) /\ Returns
  /\ UNCHANGED <<side, bounds>>

(* Without a branch to reuse it goes through the checks of startTask.      *)
JumpstartRestarts ==
  /\ Jumping("building")
  /\ IF row \in {"gone", "deleted"} \/ engines # 0 THEN Returns ELSE Parks("restarting", row, 0)
  /\ UNCHANGED <<row, engines, eng, side, lost, bounds>>

(* reviveDeletedTask.                                                      *)
Revive ==
  /\ Running("revive", "queued")
  /\ row' = IF row = "deleted" THEN Written("stopped", TRUE) ELSE row
  /\ Returns
  /\ UNCHANGED <<engines, eng, side, lost, bounds>>

(* startSingleTurnFollowUp: the engine read at the start leaves the map    *)
(* before the session is reconnected.                                      *)
FollowUp ==
  /\ Running("followup", "queued") /\ row \in {"completed", "pushed"}
  /\ IF engines # 0 /\ eng[engines].status \in {"starting", "running"}
       THEN Returns ELSE Parks("checking", row, engines)
  /\ UNCHANGED <<row, engines, eng, side, lost, bounds>>

FollowUpDrops ==
  /\ Running("followup", "checking")
  /\ engines' = IF run.id # 0 THEN 0 ELSE engines
  /\ IF run.id # 0 THEN Replaces(engines) ELSE UNCHANGED lost
  /\ Parks("reconnecting", run.snap, 0)
  /\ UNCHANGED <<row, eng, side, bounds>>

FollowUpRuns ==
  /\ Running("followup", "reconnecting") /\ Builds(run.snap, "running") /\ Returns
  /\ UNCHANGED <<side, lost, bounds>>

-----------------------------------------------------------------------------
(* pushTask, manualCompleteTask, the terminal, idle cleanup.               *)

Push ==
  /\ Running("push", "queued")
  /\ IF Live \in {"completed", "max_iterations"} THEN Parks("pushing", Live, 0) ELSE Returns
  /\ UNCHANGED <<row, engines, eng, side, lost, bounds>>

PushWrites ==
  /\ Running("push", "pushing")
  /\ row' = Written("pushed", FALSE) /\ Parks("finalizing", "pushed", 0)
  /\ UNCHANGED <<engines, eng, side, lost, bounds>>

PushFinishes ==
  /\ Running("push", "finalizing")
  /\ engines' = 0 /\ Replaces(engines) /\ Returns
  /\ UNCHANGED <<row, eng, side, bounds>>

ManualComplete ==
  /\ Running("complete", "queued")
  /\ IF Live \in {"stopped", "failed"} THEN Parks("checking", "idle", 0) ELSE Returns
  /\ UNCHANGED <<row, engines, eng, side, lost, bounds>>

ManualCompleteApplies ==
  /\ Running("complete", "checking")
  /\ IF Live \notin {"stopped", "failed"} THEN Returns /\ UNCHANGED <<row, engines, eng>>
     ELSE IF engines = 0
     THEN row' = Written("completed", FALSE) /\ Returns /\ UNCHANGED <<engines, eng>>
     ELSE /\ eng' = [eng EXCEPT ![engines].status = "completed"] /\ engines' = 0
          /\ Parks("disconnecting", "idle", engines) /\ UNCHANGED row
  /\ UNCHANGED <<side, lost, bounds>>

ManualCompleteRecords ==
  /\ Running("complete", "disconnecting")
  /\ row' = Written("completed", FALSE) /\ Returns
  /\ UNCHANGED <<engines, eng, side, lost, bounds>>

(* Opening a terminal takes its turn too.                                  *)
OpenTerminal ==
  /\ Running("terminal", "queued") /\ Returns
  /\ UNCHANGED <<row, engines, eng, side, lost, bounds>>

IdleCheck ==
  /\ Running("idle", "queued")
  /\ LET e == Head(queue).id
     IN IF e = engines /\ ~Executing(e) /\ eng[e].status \in Terminal
        THEN Parks("disconnecting", "idle", e) ELSE Returns
  /\ UNCHANGED <<row, engines, eng, side, lost, bounds>>

IdleRetires ==
  /\ Running("idle", "disconnecting")
  /\ engines' \in {engines, IF engines = run.id THEN 0 ELSE engines}
  /\ Returns
  /\ UNCHANGED <<row, eng, side, lost, bounds>>

Operation ==
  \/ StartLoad \/ StartBuild \/ Fail
  \/ Stop \/ StopMarks \/ StopSettles \/ StopTimesOut \/ StopRecords
  \/ Delete \/ Purge \/ Defer \/ Cleanup \/ CleanupSettles \/ CleanupTimesOut \/ CleanupGit
  \/ Jumpstart \/ JumpstartBuilds \/ JumpstartRestarts \/ Revive
  \/ FollowUp \/ FollowUpDrops \/ FollowUpRuns
  \/ Push \/ PushWrites \/ PushFinishes
  \/ ManualComplete \/ ManualCompleteApplies \/ ManualCompleteRecords
  \/ OpenTerminal \/ IdleCheck \/ IdleRetires

-----------------------------------------------------------------------------
(* markMerged, which a request or the pull request monitor calls.          *)

Beside(kind, at, id) == side' = [kind |-> kind, at |-> at, id |-> id]
At(kind, place) == side.kind = kind /\ side.at = place

Merge ==
  /\ side = NoSide /\ requests < MaxRequests /\ Live = "pushed"
  /\ requests' = requests + 1 /\ Beside("merge", "read", 0)
  /\ UNCHANGED <<row, engines, eng, queue, run, deferred, lost, timeouts, crashes>>

(* The state read before the await is written whole.                       *)
MergeWrites ==
  /\ At("merge", "read")
  /\ row' = Written("merged", FALSE) /\ Beside("merge", "written", 0)
  /\ UNCHANGED <<engines, eng, queue, run, deferred, lost, bounds>>

MergeFinishes ==
  /\ At("merge", "written")
  /\ engines' = 0 /\ Lose(engines, "merge") /\ side' = NoSide
  /\ UNCHANGED <<row, eng, queue, run, deferred, bounds>>

(* forceResetAll: stop() on the engine of the map, then the map is cleared *)
(* whatever it holds by then, and stale rows are stopped.                  *)
Reset ==
  /\ side = NoSide /\ requests < MaxRequests
  /\ requests' = requests + 1
  /\ IF engines = 0 THEN Beside("reset", "stopped", 0) /\ UNCHANGED eng
     ELSE Beside("reset", "waiting", engines) /\ Abort(engines)
  /\ UNCHANGED <<row, engines, queue, run, deferred, lost, timeouts, crashes>>

(* stop() settled, or threw, which is logged.  If a new engine is in the   *)
(* map by now, the row it works under is overwritten.                      *)
ResetSettles ==
  /\ At("reset", "waiting") /\ ~Executing(side.id)
  /\ LET st == eng[side.id].status
     IN IF st = "completed" \/ Accepts(st, "stopped")
        THEN LET to == IF st = "completed" THEN st ELSE "stopped"
             IN /\ eng' = [eng EXCEPT ![side.id].status = to, ![side.id].keeps = FALSE]
                /\ row' = Written(to, FALSE)
        ELSE UNCHANGED <<row, eng>>
  /\ Lose(IF engines = side.id THEN 0 ELSE engines, "reset")
  /\ Beside("reset", "stopped", side.id)
  /\ UNCHANGED <<engines, queue, run, deferred, bounds>>

ResetTimesOut ==
  /\ At("reset", "waiting") /\ Executing(side.id) /\ timeouts < MaxTimeouts
  /\ timeouts' = timeouts + 1 /\ Beside("reset", "stopped", side.id)
  /\ UNCHANGED <<row, engines, eng, queue, run, deferred, lost, requests, crashes>>

ResetClears ==
  /\ At("reset", "stopped")
  /\ engines' = 0 /\ Lose(engines, "reset") /\ side' = NoSide
  /\ row' = IF row \in Stale THEN "stopped" ELSE row
  /\ UNCHANGED <<eng, queue, run, deferred, bounds>>

SideStep == MergeWrites \/ MergeFinishes \/ ResetSettles \/ ResetTimesOut \/ ResetClears

(* The server dies: only the row is left.                                  *)
Crash ==
  /\ crashes < MaxCrashes /\ crashes' = crashes + 1
  /\ engines' = 0 /\ queue' = <<>> /\ run' = Queued /\ deferred' = NotReady /\ side' = NoSide
  /\ eng' = [e \in EngineIds |->
               IF Executing(e) THEN [eng[e] EXCEPT !.phase = "idle", !.keeps = FALSE] ELSE eng[e]]
  /\ lost' = [e \in EngineIds |-> "no"]
  /\ UNCHANGED <<row, requests, timeouts>>

Next ==
  \/ Ask \/ AskIdle \/ Operation
  \/ Merge \/ Reset \/ SideStep
  \/ \E e \in EngineIds : EngineStep(e)
  \/ Crash

(* Operations run while the process does, whatever they call answers or    *)
(* fails, and an aborted loop or a settlement ends.  Nothing makes an      *)
(* agent finish on its own, and no wait has to time out.                   *)
Fairness ==
  /\ WF_vars(Operation /\ timeouts' = timeouts) /\ WF_vars(SideStep /\ timeouts' = timeouts)
  /\ \A e \in EngineIds : WF_vars(Unwind(e)) /\ WF_vars(Settle(e))

Spec == Init /\ [][Next]_vars
FairSpec == Spec /\ Fairness

-----------------------------------------------------------------------------
(* Properties.                                                             *)

TypeOK ==
  /\ row \in Rows /\ engines \in EngineIds \cup {0} /\ eng \in [EngineIds -> Engine]
  /\ queue \in Seq(Request) /\ Len(queue) <= Capacity /\ run \in Run
  /\ deferred \in Deferred /\ side \in Side /\ lost \in [EngineIds -> Causes]
  /\ requests \in 0..MaxRequests /\ timeouts \in 0..MaxTimeouts /\ crashes \in 0..MaxCrashes

(* The ways of losing an engine are stop's timeout, a full queue, a        *)
(* successor that does not wait for a completion to settle, markMerged and *)
(* forceResetAll; its checkpoints go on writing the row.  A cleanup that   *)
(* times out has disabled them, so it does no further damage.              *)
Intact == \A e \in EngineIds : lost[e] \in {"no", "cleanup"}
Loops == {e \in EngineIds : Executing(e) /\ lost[e] = "no"}

(* The worktree has one writer: at most one loop of the task executes,     *)
(* however its operations follow one another.  A deletion followed by a    *)
(* revival and a restart is what the reserved slot of                      *)
(* task-lifecycle-operations.ts is for.                                    *)
SingleLoop == Intact => \A d, e \in Loops : d = e

(* Every loop can still be stopped: it is the engine of the map, or a      *)
(* deletion took it and its cleanup is on its way.                         *)
LoopIsReachable ==
  Intact => \A e \in Loops : \/ e = engines \/ e = deferred.id
                             \/ run.at = "linking" /\ e = run.id

(* The Git cleanup of a deletion runs under no loop: neither the one the   *)
(* deletion took over nor another.                                         *)
CleanupIsAlone ==
  run.at = "git" => /\ Intact => Loops = {}
                    /\ run.id # 0 => ~Executing(run.id)

(* A task whose row says it runs has a loop that runs it once nothing is   *)
(* under way, unless the server restarted: the operations leave no row     *)
(* behind that shows work nobody does.                                     *)
ActiveRowHasLoop ==
  Intact /\ queue = <<>> /\ side = NoSide /\ crashes = 0 /\ row \in {"starting", "running"}
    => engines # 0 /\ eng[engines].phase = "loop"

(* The queue of a task always empties: no operation waits for one behind   *)
(* it, and a reserved slot always learns what to do.                       *)
QueueDrains == []<>(queue = <<>>)

(* The loop a deletion took over ends, although its agent need not.        *)
DeletionEndsLoop ==
  \A e \in EngineIds : (deferred.id = e) ~> (~Executing(e) \/ lost[e] # "no")

=============================================================================
