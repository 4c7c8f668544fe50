------------------------- MODULE TaskLifecycleProofs -------------------------
(***************************************************************************)
(* For every capacity of the queue and every number of engines, requests,  *)
(* timeouts and restarts: the state of a task's lifecycle is well typed,   *)
(* at most one loop executes, every loop can be stopped, Git is cleaned up *)
(* under no loop, and a row that says the task runs has a loop.  All of it *)
(* rests on what an operation parked at an await may still rely on         *)
(* (Parked, Held, Worked): the queue keeps the other operations out, but   *)
(* not the engines, markMerged and forceResetAll.                          *)
(***************************************************************************)
EXTENDS TaskLifecycle, TLAPS

Doing == IF queue = <<>> THEN "none" ELSE Head(queue).kind
Doomed == row \in {"deleted", "gone"}
MapLoops == engines # 0 /\ eng[engines].phase = "loop"

(* Which operation is parked where.  A deletion that has left its place to *)
(* the slot behind it leaves no engine in the map, and a row that only a   *)
(* revival could make live again.                                          *)
Parked ==
  /\ run.at # "queued" => queue # <<>>
  /\ deferred.ready => Doing = "cleanup"
  /\ deferred.id # 0 \/ deferred.git => deferred.ready /\ engines = 0 /\ Doomed
  /\ run.at = "linking" => Doing \in {"delete", "purge"} /\ engines = 0 /\ Doomed
  /\ run.at = "git" => Doing = "cleanup" /\ deferred.git /\ run.id = deferred.id
  /\ run.at = "git" /\ run.id # 0 => ~Executing(run.id)
  /\ Running("cleanup", "waiting") =>
       run.id # 0 /\ run.id = deferred.id /\ ~eng[run.id].keeps
  /\ Running("stop", "stopping") \/ Running("stop", "waiting") =>
       run.id # 0 /\ engines \in {0, run.id}
  /\ Running("stop", "disconnecting") => run.id # 0
  /\ At("reset", "waiting") => side.id # 0

(* What the phases of an engine mean; only a stop leaves a loop that has   *)
(* been marked stopped in the map, and it waits for it.                    *)
Phases ==
  \A e \in EngineIds :
    /\ eng[e].phase = "unborn" => lost[e] = "no"
    /\ eng[e].phase = "loop" => eng[e].status \in {"starting", "running", "stopped"}
    /\ eng[e].phase = "settle" => eng[e].status = "completed"
    /\ lost[e] = "cleanup" => ~eng[e].keeps
    /\ e = engines /\ eng[e].phase = "loop" /\ eng[e].status = "stopped" =>
         Running("stop", "waiting")

(* The places from which an operation puts a new engine into the map that  *)
(* it has seen empty.                                                      *)
Building ==
  \/ Running("start", "building") \/ Running("jumpstart", "restarting")
  \/ Running("followup", "restarting") \/ Running("followup", "reconnecting")

(* What holds while no engine has been lost: where the loops are, that the *)
(* row does not say a running task could be started again, and what each   *)
(* operation has seen of the map and still relies on.                      *)
Held ==
  /\ \A e \in Loops : e = engines \/ e = deferred.id \/ (run.at = "linking" /\ e = run.id)
  /\ engines # 0 => lost[engines] = "no"
  /\ MapLoops => row \notin Terminal \cup {"deleted", "gone"} \/ Running("stop", "waiting")
  /\ Building => engines = 0 /\ ~Doomed
  /\ Jumping("building") \/ Running("followup", "checking") => ~MapLoops /\ ~Doomed
  /\ Running("followup", "checking") => engines \in {0, run.id}
  /\ Running("push", "pushing") \/ Running("push", "finalizing") => ~MapLoops
  /\ Running("stop", "disconnecting") \/ Running("complete", "disconnecting") => engines = 0
  /\ Running("idle", "disconnecting") /\ engines # 0 /\ engines = run.id => ~Executing(engines)

IInv == TypeOK /\ Parked /\ Phases /\ (Intact => Held)

-----------------------------------------------------------------------------
(* The helpers.                                                            *)

LEMMA WrittenType ==
  ASSUME TypeOK, NEW st \in Statuses, NEW reviving
  PROVE  Written(st, reviving) \in Rows /\ Written(st, reviving) \in {row, st}
  BY DEF TypeOK, Written, Rows

(* A deleted row stays one unless it is revived. *)
LEMMA WrittenDoomed ==
  ASSUME TypeOK, NEW st, st \notin {"deleted", "gone"}
  PROVE  /\ Doomed => Written(st, FALSE) = row
         /\ ~Doomed => Written(st, FALSE) = st
         /\ row # "gone" => Written(st, TRUE) = st
         /\ row = "gone" => Written(st, TRUE) = row
  BY DEF TypeOK, Written, Doomed

LEMMA LoseLemma ==
  ASSUME TypeOK, NEW e \in EngineIds \cup {0}, NEW cause \in Causes \ {"no"}, Lose(e, cause)
  PROVE  /\ lost' \in [EngineIds -> Causes]
         /\ \A d \in EngineIds : lost'[d] = lost[d] \/ (d = e /\ lost'[d] = cause /\ Executing(d))
         /\ e # 0 /\ Executing(e) => lost'[e] # "no"
         /\ \A d \in EngineIds : lost[d] # "no" => lost'[d] = lost[d]
  BY DEF TypeOK, Lose, EngineIds

LEMMA QueueTypes ==
  ASSUME TypeOK
  PROVE  /\ \A r \in Request :
              /\ Append(queue, r) \in Seq(Request) /\ Append(queue, r) # <<>>
              /\ Len(Append(queue, r)) = Len(queue) + 1
              /\ queue # <<>> => Head(Append(queue, r)) = Head(queue)
         /\ queue # <<>> => /\ Tail(queue) \in Seq(Request) /\ Len(Tail(queue)) = Len(queue) - 1
                            /\ Head(queue) \in Request
         /\ Len(queue) \in Nat
  BY DEF TypeOK

LEMMA ParksLemma ==
  ASSUME TypeOK, NEW place \in Places, NEW snap \in Statuses, NEW id \in EngineIds \cup {0},
         Parks(place, snap, id)
  PROVE  /\ queue' = queue /\ deferred' = deferred /\ run' \in Run
         /\ run'.at = place /\ run'.snap = snap /\ run'.id = id
  BY DEF TypeOK, Parks, Run

LEMMA ReturnsLemma ==
  ASSUME TypeOK, Returns, queue # <<>>
  PROVE  /\ queue' \in Seq(Request) /\ Len(queue') <= Capacity /\ run' \in Run
         /\ run'.at = "queued" /\ deferred' = deferred
  BY QueueTypes, LifecycleBounds
     DEF TypeOK, Returns, Queued, Run, Places, Statuses

LEMMA ReturnsWithLemma ==
  ASSUME TypeOK, NEW cleanup \in Deferred, ReturnsWith(cleanup), queue # <<>>, cleanup.ready
  PROVE  /\ queue' \in Seq(Request) /\ Len(queue') <= Capacity /\ run' \in Run
         /\ run'.at = "queued" /\ deferred' \in {cleanup, NotReady} /\ deferred' \in Deferred
         /\ deferred' = cleanup => queue' # <<>> /\ Head(queue').kind = "cleanup"
  <1>1. NotReady \in Deferred /\ ~NotReady.ready
    BY DEF NotReady, Deferred
  <1>2. Len(queue) > 1 => Tail(queue) # <<>> /\ Head(Tail(queue)) = queue[2]
    <2> DEFINE rest == Tail(queue)
    <2>1. queue \in Seq(Request) /\ rest \in Seq(Request) /\ Len(rest) = Len(queue) - 1
          /\ Len(queue) \in Nat
      BY QueueTypes DEF TypeOK
    <2>2. Len(queue) > 1 => rest[1] = queue[2]
      BY <2>1
    <2>3. Len(queue) > 1 => rest # <<>> /\ Head(rest) = rest[1]
      <3> HIDE DEF rest
      <3>1. QED
        BY <2>1
    <2>4. QED
      BY <2>2, <2>3
  <1>3. QED
    BY <1>1, <1>2, QueueTypes, LifecycleBounds
       DEF TypeOK, ReturnsWith, Queued, Run, Places, Statuses

-----------------------------------------------------------------------------
(* The types.                                                              *)

QueueTyped ==
  /\ queue' \in Seq(Request) /\ Len(queue') <= Capacity
  /\ run' \in Run /\ deferred' \in Deferred

EngineTyped ==
  /\ row' \in Rows /\ engines' \in EngineIds \cup {0} /\ eng' \in [EngineIds -> Engine]
  /\ lost' \in [EngineIds -> Causes] /\ side' \in Side

LEMMA ParksTyped ==
  ASSUME TypeOK, NEW place \in Places, NEW snap \in Statuses, NEW id \in EngineIds \cup {0},
         Parks(place, snap, id)
  PROVE  QueueTyped
  BY ParksLemma DEF QueueTyped, TypeOK

LEMMA ReturnsTyped ==
  ASSUME TypeOK, Returns, queue # <<>>
  PROVE  QueueTyped
  BY ReturnsLemma DEF QueueTyped, TypeOK

LEMMA CleanedUpTyped ==
  ASSUME TypeOK, CleanedUp, queue # <<>>
  PROVE  /\ QueueTyped /\ run'.at = "queued"
         /\ ~deferred'.ready /\ deferred'.id = 0 /\ ~deferred'.git
  BY QueueTypes, LifecycleBounds
     DEF QueueTyped, TypeOK, CleanedUp, Queued, Run, Places, Statuses, NotReady, Deferred

LEMMA BuildsTyped ==
  ASSUME TypeOK, NEW st \in Statuses, NEW active \in {"no", "starting", "running"},
         Builds(st, active)
  PROVE  row' \in Rows /\ engines' \in EngineIds \cup {0} /\ eng' \in [EngineIds -> Engine]
  <1>1. PICK e \in EngineIds :
          /\ eng[e].phase = "unborn"
          /\ eng' = [eng EXCEPT ![e] = [phase |-> IF active # "no" THEN "loop" ELSE "idle",
                                        status |-> IF active # "no" THEN active ELSE st,
                                        aborted |-> FALSE, keeps |-> TRUE]]
          /\ row' = IF active # "no" THEN Written(active, FALSE) ELSE row
          /\ engines' = e
    BY DEF Builds
  <1>2. active # "no" => active \in Statuses
    BY DEF Statuses
  <1>3. eng' \in [EngineIds -> Engine]
    BY <1>1, <1>2 DEF TypeOK, Engine
  <1>4. row' \in Rows
    BY <1>1, <1>2, WrittenType DEF TypeOK
  <1>5. QED
    BY <1>1, <1>3, <1>4

LEMMA StartsTyped ==
  ASSUME TypeOK, NEW st \in Statuses, Starts(st)
  PROVE  row' \in Rows /\ engines' \in EngineIds \cup {0} /\ eng' \in [EngineIds -> Engine]
  BY BuildsTyped DEF Starts

(* The operations of the queue, one after the other. *)
LEMMA StartTyped ==
  ASSUME TypeOK, StartLoad \/ StartBuild \/ Fail
  PROVE  QueueTyped /\ EngineTyped
  <1> USE DEF EngineTyped
  <1>1. run.snap \in Statuses
    BY DEF TypeOK, Run
  <1>2. CASE StartLoad
    BY <1>2, ParksTyped, ReturnsTyped DEF StartLoad, Running, TypeOK, Rows, Places
  <1>3. CASE StartBuild
    BY <1>1, <1>3, StartsTyped, ReturnsTyped DEF StartBuild, Starting, Running, TypeOK
  <1>4. CASE Fail
    BY <1>4, ReturnsTyped DEF Fail, Starting, Running, TypeOK
  <1>5. QED
    BY <1>2, <1>3, <1>4

LEMMA SavedType ==
  ASSUME TypeOK, NEW e, NEW st \in Statuses PROVE Saved(e, st) \in Rows
  BY WrittenType DEF Saved, TypeOK

LEMMA AbortTyped ==
  ASSUME TypeOK, NEW e \in EngineIds, Abort(e) PROVE eng' \in [EngineIds -> Engine]
  <1>1. [eng[e] EXCEPT !.aborted = TRUE] \in Engine
    BY DEF TypeOK, Engine
  <1>2. QED
    BY <1>1 DEF Abort, TypeOK

LEMMA StopTyped ==
  ASSUME TypeOK, Parked, Stop \/ StopMarks \/ StopSettles \/ StopTimesOut \/ StopRecords
  PROVE  QueueTyped /\ EngineTyped
  <1> USE DEF EngineTyped
  <1>1. run.id \in EngineIds \cup {0}
    BY DEF TypeOK, Run
  <1>2. CASE Stop
    <2>1. QueueTyped
      BY <1>2, ParksTyped, ReturnsTyped DEF Stop, Running, TypeOK, Places, Statuses
    <2>2. eng' \in [EngineIds -> Engine]
      BY <1>2, AbortTyped DEF Stop, TypeOK
    <2>3. QED
      BY <1>2, <2>1, <2>2 DEF Stop, TypeOK
  <1>3. CASE StopMarks
    <2>1. run.id \in EngineIds
      BY <1>1, <1>3 DEF StopMarks, Parked
    <2>2. "stopped" \in Statuses /\ "waiting" \in Places /\ "idle" \in Statuses
          /\ "timeout" \in Causes \ {"no"}
      BY DEF Statuses, Places, Causes
    <2>3. QueueTyped
      BY <1>3, <2>1, <2>2, ParksTyped, ReturnsTyped DEF StopMarks, Running
    <2>4. eng' \in [EngineIds -> Engine]
      <3>1. eng[run.id] \in Engine
        BY <2>1 DEF TypeOK
      <3>2. PICK to \in Statuses : eng' = [eng EXCEPT ![run.id].status = to] \/ eng' = eng
        BY <1>3, <2>1, <2>2, <3>1 DEF StopMarks, Engine
      <3>3. QED
        BY <2>1, <3>1, <3>2 DEF TypeOK, Engine
    <2>5. engines' \in EngineIds \cup {0} /\ lost' \in [EngineIds -> Causes]
      BY <1>3, <2>2, LoseLemma DEF StopMarks, TypeOK
    <2>6. QED
      BY <1>3, <2>3, <2>4, <2>5 DEF StopMarks, TypeOK
  <1>4. CASE StopSettles
    <2>1. run.id \in EngineIds
      BY <1>1, <1>4 DEF StopSettles, Parked
    <2>2. QueueTyped
      BY <1>1, <1>4, ParksTyped DEF StopSettles, Places, Statuses
    <2>3. eng[run.id].status \in Statuses
      BY <2>1 DEF TypeOK, Engine
    <2>4. QED
      BY <1>4, <2>1, <2>2, <2>3, SavedType DEF StopSettles, TypeOK, Engine
  <1>5. CASE StopTimesOut
    BY <1>1, <1>5, ReturnsTyped, LoseLemma DEF StopTimesOut, Running, TypeOK, Causes
  <1>6. CASE StopRecords
    <2>1. eng[run.id].status \in Statuses
      BY <1>1, <1>6 DEF StopRecords, Parked, TypeOK, Engine
    <2>2. QED
      BY <1>6, <2>1, ReturnsTyped, WrittenType DEF StopRecords, Running, TypeOK
  <1>7. QED
    BY <1>2, <1>3, <1>4, <1>5, <1>6

LEMMA DeleteTyped ==
  ASSUME TypeOK, Parked,
         \/ Delete \/ Purge \/ Defer \/ Cleanup \/ CleanupSettles \/ CleanupTimesOut \/ CleanupGit
  PROVE  QueueTyped /\ EngineTyped
  <1> USE DEF EngineTyped
  <1>1. run.id \in EngineIds \cup {0} /\ deferred.id \in EngineIds \cup {0}
    BY DEF TypeOK, Run, Deferred
  <1>2. {"linking", "git", "waiting"} \subseteq Places /\ "idle" \in Statuses
        /\ "refused" \in Causes \ {"no"} /\ "cleanup" \in Causes \ {"no"}
        /\ NoCleanup \in Deferred /\ NoCleanup.ready /\ {"deleted", "gone"} \subseteq Rows
    BY DEF Places, Statuses, Causes, NoCleanup, Deferred, Rows
  <1>3. CASE Delete
    BY <1>2, <1>3, ParksTyped, ReturnsWithLemma DEF Delete, Running, TypeOK, QueueTyped
  <1>4. CASE Purge
    BY <1>2, <1>4, ParksTyped, ReturnsWithLemma DEF Purge, Running, TypeOK, QueueTyped
  <1>5. CASE Defer
    <2>1. PICK git \in BOOLEAN : ReturnsWith([ready |-> TRUE, id |-> run.id, git |-> git])
      BY <1>5 DEF Defer
    <2>2. [ready |-> TRUE, id |-> run.id, git |-> git] \in Deferred
      BY <1>1 DEF Deferred
    <2>3. QueueTyped
      BY <1>5, <2>1, <2>2, ReturnsWithLemma DEF Defer, Running, QueueTyped
    <2>4. lost' \in [EngineIds -> Causes]
      BY <1>1, <1>2, <1>5, LoseLemma DEF Defer
    <2>5. QED
      BY <1>5, <2>3, <2>4 DEF Defer, TypeOK
  <1>6. CASE Cleanup
    <2>1. QueueTyped
      BY <1>1, <1>2, <1>6, ParksTyped, CleanedUpTyped DEF Cleanup, Running
    <2>2. eng' \in [EngineIds -> Engine]
      <3>1. CASE deferred.id = 0
        BY <1>6, <3>1 DEF Cleanup, TypeOK
      <3>2. CASE deferred.id # 0
        <4>1. eng' = [eng EXCEPT ![deferred.id] = [@ EXCEPT !.aborted = TRUE, !.keeps = FALSE]]
          BY <1>6, <3>2 DEF Cleanup
        <4>2. [eng[deferred.id] EXCEPT !.aborted = TRUE, !.keeps = FALSE] \in Engine
          BY <1>1, <3>2 DEF TypeOK, Engine
        <4>3. QED
          BY <1>1, <3>2, <4>1, <4>2 DEF TypeOK
      <3>3. QED
        BY <3>1, <3>2
    <2>3. QED
      BY <1>6, <2>1, <2>2 DEF Cleanup, TypeOK
  <1>7. CASE CleanupSettles
    BY <1>1, <1>2, <1>7, ParksTyped, CleanedUpTyped DEF CleanupSettles, Running, TypeOK
  <1>8. CASE CleanupTimesOut
    BY <1>1, <1>2, <1>8, LoseLemma, CleanedUpTyped DEF CleanupTimesOut, Running, TypeOK
  <1>9. CASE CleanupGit
    BY <1>9, CleanedUpTyped DEF CleanupGit, Running, TypeOK
  <1>10. QED
    BY <1>3, <1>4, <1>5, <1>6, <1>7, <1>8, <1>9

LEMMA ReplacesTyped ==
  ASSUME TypeOK, NEW e \in EngineIds \cup {0}, Replaces(e)
  PROVE  lost' \in [EngineIds -> Causes]
  BY LoseLemma DEF Replaces, Causes

LEMMA JumpstartTyped ==
  ASSUME TypeOK,
         \/ Jumpstart \/ JumpstartBuilds \/ JumpstartRestarts \/ Revive
         \/ FollowUp \/ FollowUpDrops \/ FollowUpRuns
  PROVE  QueueTyped /\ EngineTyped
  <1> USE DEF EngineTyped
  <1>1. run.id \in EngineIds \cup {0} /\ run.snap \in Statuses
        /\ engines \in EngineIds \cup {0}
    BY DEF TypeOK, Run
  <1>2. {"building", "restarting", "checking", "reconnecting"} \subseteq Places
        /\ "stopped" \in Statuses
    BY DEF Places, Statuses
  <1>3. CASE Jumpstart
    BY <1>2, <1>3, ParksTyped, ReturnsTyped, WrittenType DEF Jumpstart, Jumping, Running, TypeOK
  <1>4. CASE JumpstartBuilds
    BY <1>1, <1>4, StartsTyped, ReplacesTyped, ReturnsTyped
       DEF JumpstartBuilds, Jumping, Running, TypeOK
  <1>5. CASE JumpstartRestarts
    BY <1>2, <1>5, ParksTyped, ReturnsTyped DEF JumpstartRestarts, Jumping, Running, TypeOK, Rows
  <1>6. CASE Revive
    BY <1>2, <1>6, ReturnsTyped, WrittenType DEF Revive, Running, TypeOK
  <1>7. CASE FollowUp
    <2>1. row \in {"completed", "pushed"} => row \in Statuses
      BY DEF Statuses
    <2>2. QED
      BY <1>1, <1>2, <1>7, <2>1, ParksTyped, ReturnsTyped DEF FollowUp, Running, TypeOK
  <1>8. CASE FollowUpDrops
    BY <1>1, <1>2, <1>8, ParksTyped, ReplacesTyped DEF FollowUpDrops, TypeOK
  <1>9. CASE FollowUpRuns
    BY <1>1, <1>9, BuildsTyped, ReturnsTyped DEF FollowUpRuns, Running, TypeOK
  <1>10. QED
    BY <1>3, <1>4, <1>5, <1>6, <1>7, <1>8, <1>9

LEMMA PushTyped ==
  ASSUME TypeOK,
         \/ Push \/ PushWrites \/ PushFinishes
         \/ ManualComplete \/ ManualCompleteApplies \/ ManualCompleteRecords
         \/ OpenTerminal \/ IdleCheck \/ IdleRetires
  PROVE  QueueTyped /\ EngineTyped
  <1> USE DEF EngineTyped
  <1>1. engines \in EngineIds \cup {0}
    BY DEF TypeOK
  <1>2. {"pushing", "finalizing", "checking", "disconnecting"} \subseteq Places
        /\ {"idle", "pushed", "completed", "max_iterations"} \subseteq Statuses
    BY DEF Places, Statuses
  <1>3. CASE Push
    BY <1>1, <1>2, <1>3, ParksTyped, ReturnsTyped DEF Push, Running, TypeOK
  <1>4. CASE PushWrites
    BY <1>2, <1>4, ParksTyped, WrittenType DEF PushWrites, TypeOK
  <1>5. CASE PushFinishes
    BY <1>1, <1>5, ReplacesTyped, ReturnsTyped DEF PushFinishes, Running, TypeOK
  <1>6. CASE ManualComplete
    BY <1>2, <1>6, ParksTyped, ReturnsTyped DEF ManualComplete, Running, TypeOK
  <1>7. CASE ManualCompleteApplies
    <2>1. QueueTyped
      BY <1>1, <1>2, <1>7, ParksTyped, ReturnsTyped DEF ManualCompleteApplies, Running
    <2>2. CASE UNCHANGED eng
      BY <1>2, <1>7, <2>1, <2>2, WrittenType DEF ManualCompleteApplies, TypeOK
    <2>3. CASE engines # 0 /\ eng' = [eng EXCEPT ![engines].status = "completed"]
               /\ engines' = 0 /\ UNCHANGED row
      <3>1. [eng[engines] EXCEPT !.status = "completed"] \in Engine
        BY <1>1, <1>2, <2>3 DEF TypeOK, Engine
      <3>2. QED
        BY <1>1, <1>7, <2>1, <2>3, <3>1 DEF ManualCompleteApplies, TypeOK
    <2>4. QED
      BY <1>7, <2>2, <2>3 DEF ManualCompleteApplies
  <1>8. CASE ManualCompleteRecords
    BY <1>2, <1>8, ReturnsTyped, WrittenType DEF ManualCompleteRecords, Running, TypeOK
  <1>9. CASE OpenTerminal
    BY <1>9, ReturnsTyped DEF OpenTerminal, Running, TypeOK
  <1>10. CASE IdleCheck
    <2>1. Head(queue).id \in EngineIds \cup {0}
      BY <1>10, QueueTypes DEF IdleCheck, Running, Request
    <2>2. QED
      BY <1>2, <1>10, <2>1, ParksTyped, ReturnsTyped DEF IdleCheck, Running, TypeOK
  <1>11. CASE IdleRetires
    BY <1>11, ReturnsTyped DEF IdleRetires, Running, TypeOK
  <1>12. QED
    BY <1>3, <1>4, <1>5, <1>6, <1>7, <1>8, <1>9, <1>10, <1>11

LEMMA OperationTyped ==
  ASSUME TypeOK, Parked, Operation
  PROVE  TypeOK'
  <1>1. QueueTyped /\ EngineTyped
    BY StartTyped, StopTyped, DeleteTyped, JumpstartTyped, PushTyped DEF Operation
  <1>2. requests' = requests /\ crashes' = crashes /\ timeouts' \in 0..MaxTimeouts
    <2>1. CASE StopTimesOut \/ CleanupTimesOut
      BY <2>1, LifecycleBounds DEF StopTimesOut, CleanupTimesOut, TypeOK
    <2>2. CASE ~(StopTimesOut \/ CleanupTimesOut)
      <3>1. UNCHANGED bounds
        BY <2>2
           DEF Operation, StartLoad, StartBuild, Fail, Stop, StopMarks, StopSettles, StopRecords,
               Delete, Purge, Defer, Cleanup, CleanupSettles, CleanupGit, Jumpstart,
               JumpstartBuilds, JumpstartRestarts, Revive, FollowUp, FollowUpDrops, FollowUpRuns,
               Push, PushWrites, PushFinishes, ManualComplete, ManualCompleteApplies,
               ManualCompleteRecords, OpenTerminal, IdleCheck, IdleRetires
      <3>2. QED
        BY <3>1 DEF bounds, TypeOK
    <2>3. QED
      BY <2>1, <2>2
  <1>3. QED
    BY <1>1, <1>2 DEF TypeOK, QueueTyped, EngineTyped

(* A request joins the queue at its end. *)
Joined == /\ queue' \in Seq(Request) /\ Len(queue') <= Capacity /\ queue' # <<>>
          /\ queue # <<>> => Head(queue') = Head(queue)

LEMMA AskJoins ==
  ASSUME TypeOK, Ask \/ AskIdle
  PROVE  Joined /\ TypeOK'
  <1>1. /\ UNCHANGED <<engines, eng, run, deferred, side, lost, timeouts, crashes>>
        /\ requests' \in 0..MaxRequests /\ row' \in Rows
    BY LifecycleBounds
       DEF Ask, Submit, SubmitDeletion, InjectStale, AskIdle, TypeOK, bounds, Rows, Statuses
  <1>2. Joined
    <2>1. ASSUME NEW r \in Request, Len(queue) < Capacity, queue' = Append(queue, r)
          PROVE  Joined
      BY <2>1, QueueTypes, LifecycleBounds DEF Joined
    <2>2. \A kind \in Kinds : Plain(kind) \in Request
      BY DEF Plain, Request
    <2>3. ASSUME NEW kind \in Kinds, Len(queue) + 1 < Capacity,
                 queue' = queue \o <<Plain(kind), Plain("cleanup")>>
          PROVE  Joined
      <3>1. Plain("cleanup") \in Request /\ Plain(kind) \in Request
        BY <2>2 DEF Kinds
      <3>2. queue \in Seq(Request) /\ Len(queue) \in Nat
        BY QueueTypes DEF TypeOK
      <3>3. /\ queue' \in Seq(Request) /\ Len(queue') = Len(queue) + 2
            /\ Len(queue) > 0 => queue'[1] = queue[1]
        BY <2>3, <3>1, <3>2
      <3>4. QED
        BY <2>3, <3>2, <3>3, LifecycleBounds DEF Joined
    <2>4. CASE AskIdle
      <3>1. [kind |-> "idle", id |-> engines] \in Request
        BY <2>4 DEF AskIdle, TypeOK, Request, Kinds
      <3>2. QED
        BY <2>1, <2>4, <3>1 DEF AskIdle
    <2>5. CASE InjectStale
      BY <2>1, <2>2, <2>5 DEF InjectStale, Kinds
    <2>6. ASSUME NEW kind \in Kinds, Submit(kind)
          PROVE  Joined
      BY <2>1, <2>2, <2>6 DEF Submit
    <2>7. ASSUME NEW kind \in Kinds, SubmitDeletion(kind)
          PROVE  Joined
      BY <2>1, <2>2, <2>3, <2>7 DEF SubmitDeletion
    <2>8. QED
      BY <2>4, <2>5, <2>6, <2>7 DEF Ask, Kinds
  <1>3. QED
    BY <1>1, <1>2 DEF TypeOK, Joined

(* A step of an engine. *)
LEMMA BecomesTyped ==
  ASSUME TypeOK, NEW e \in EngineIds, NEW phase \in {"loop", "settle", "idle"},
         NEW st \in Statuses, Becomes(e, phase, st)
  PROVE  eng' \in [EngineIds -> Engine] /\ row' \in Rows
  <1>1. [eng[e] EXCEPT !.phase = phase, !.status = st] \in Engine
    BY DEF TypeOK, Engine
  <1>2. eng' = [eng EXCEPT ![e] = [@ EXCEPT !.phase = phase, !.status = st]]
    BY DEF Becomes
  <1>3. QED
    BY <1>1, <1>2, SavedType DEF TypeOK, Becomes

LEMMA EngineStepTyped ==
  ASSUME TypeOK, NEW e \in EngineIds, EngineStep(e)
  PROVE  TypeOK'
  <1>1. UNCHANGED <<engines, queue, run, deferred, side, lost, bounds>>
    BY DEF EngineStep, Begin, Complete, Settle, End, Unwind, Save, Becomes
  <1>2. eng[e] \in Engine /\ {"running", "completed", "stopped", "failed", "max_iterations"} \subseteq Statuses
    BY DEF TypeOK, Statuses
  <1>3. eng' \in [EngineIds -> Engine] /\ row' \in Rows
    <2>1. CASE Begin(e) \/ Complete(e) \/ End(e)
      BY <1>2, <2>1, BecomesTyped DEF Begin, Complete, End
    <2>2. CASE Settle(e) \/ Save(e)
      BY <1>2, <2>2, BecomesTyped DEF Settle, Save, Executing, Engine
    <2>3. CASE Unwind(e)
      <3>1. [eng[e] EXCEPT !.phase = "idle"] \in Engine
        BY <1>2 DEF Engine
      <3>2. QED
        BY <2>3, <3>1 DEF Unwind, TypeOK
    <2>4. QED
      BY <2>1, <2>2, <2>3 DEF EngineStep
  <1>4. QED
    BY <1>1, <1>3 DEF TypeOK, bounds

(* markMerged, forceResetAll and a restart. *)
SideAction == Merge \/ Reset \/ SideStep

LEMMA SideTyped ==
  ASSUME TypeOK, Parked, SideAction
  PROVE  TypeOK' /\ UNCHANGED <<queue, run, deferred>>
  <1>1. UNCHANGED <<queue, run, deferred, crashes>>
    BY DEF SideAction, SideStep, Merge, Reset, MergeWrites, MergeFinishes, ResetSettles,
           ResetTimesOut, ResetClears, bounds
  <1>2. requests' \in 0..MaxRequests /\ timeouts' \in 0..MaxTimeouts
    <2>1. CASE Merge \/ Reset \/ ResetTimesOut
      BY <2>1, LifecycleBounds DEF Merge, Reset, ResetTimesOut, TypeOK
    <2>2. CASE MergeWrites \/ MergeFinishes \/ ResetSettles \/ ResetClears
      <3>1. UNCHANGED bounds
        BY <2>2 DEF MergeWrites, MergeFinishes, ResetSettles, ResetClears
      <3>2. QED
        BY <3>1 DEF bounds, TypeOK
    <2>3. QED
      BY <2>1, <2>2 DEF SideAction, SideStep
  <1>3. engines \in EngineIds \cup {0} /\ side.id \in EngineIds \cup {0}
        /\ {"merge", "reset"} \subseteq Causes \ {"no"}
        /\ {"stopped", "merged", "completed"} \subseteq Statuses
    BY DEF TypeOK, Side, Causes, Statuses
  <1>4. EngineTyped
    <2> USE DEF EngineTyped
    <2>1. CASE Merge
      BY <1>3, <2>1 DEF Merge, Beside, TypeOK, Side
    <2>2. CASE MergeWrites
      BY <1>3, <2>2, WrittenType DEF MergeWrites, Beside, TypeOK, Side
    <2>3. CASE MergeFinishes
      BY <1>3, <2>3, LoseLemma DEF MergeFinishes, NoSide, TypeOK, Side
    <2>4. CASE Reset
      <3>1. side' \in Side
        BY <1>3, <2>4 DEF Reset, Beside, Side
      <3>2. eng' \in [EngineIds -> Engine]
        BY <1>3, <2>4, AbortTyped DEF Reset, TypeOK
      <3>3. QED
        BY <2>4, <3>1, <3>2 DEF Reset, TypeOK
    <2>5. CASE ResetSettles
      <3>1. side.id \in EngineIds
        BY <1>3, <2>5 DEF ResetSettles, Parked
      <3>2. PICK to \in Statuses :
              \/ /\ eng' = [eng EXCEPT ![side.id].status = to, ![side.id].keeps = FALSE]
                 /\ row' = Written(to, FALSE)
              \/ UNCHANGED <<row, eng>>
        BY <1>3, <2>5 DEF ResetSettles
      <3>3. row' \in Rows
        BY <3>2, WrittenType DEF TypeOK
      <3>4. eng' \in [EngineIds -> Engine]
        <4>1. [eng[side.id] EXCEPT !.status = to, !.keeps = FALSE] \in Engine
          BY <3>1 DEF TypeOK, Engine
        <4>2. \/ eng' = [eng EXCEPT ![side.id] = [@ EXCEPT !.status = to, !.keeps = FALSE]]
              \/ eng' = eng
          BY <3>2
        <4>3. QED
          BY <3>1, <4>1, <4>2 DEF TypeOK
      <3>5. side' \in Side
        BY <1>3, <2>5 DEF ResetSettles, Beside, Side
      <3>6. lost' \in [EngineIds -> Causes]
        BY <1>3, <2>5, LoseLemma DEF ResetSettles
      <3>7. QED
        BY <2>5, <3>3, <3>4, <3>5, <3>6 DEF ResetSettles, TypeOK
    <2>6. CASE ResetTimesOut
      BY <1>3, <2>6 DEF ResetTimesOut, Beside, TypeOK, Side
    <2>7. CASE ResetClears
      BY <1>3, <2>7, LoseLemma DEF ResetClears, NoSide, TypeOK, Side, Rows
    <2>8. QED
      BY <2>1, <2>2, <2>3, <2>4, <2>5, <2>6, <2>7 DEF SideAction, SideStep
  <1>5. QED
    BY <1>1, <1>2, <1>4 DEF EngineTyped, TypeOK

LEMMA CrashTyped ==
  ASSUME TypeOK, Crash
  PROVE  TypeOK' /\ (\A e \in EngineIds : ~Executing(e)' /\ lost'[e] = "no")
  <1>1. \A e \in EngineIds : eng[e] \in Engine /\ [eng[e] EXCEPT !.phase = "idle", !.keeps = FALSE] \in Engine
    BY DEF TypeOK, Engine
  <1>2. \A e \in EngineIds :
          eng'[e] = IF Executing(e) THEN [eng[e] EXCEPT !.phase = "idle", !.keeps = FALSE]
                    ELSE eng[e]
    BY DEF Crash
  <1>3. eng' \in [EngineIds -> Engine]
    BY <1>1 DEF Crash
  <1>4. \A e \in EngineIds : ~Executing(e)'
    BY <1>1, <1>2 DEF Executing, Engine
  <1>5. lost' \in [EngineIds -> Causes] /\ \A e \in EngineIds : lost'[e] = "no"
    BY DEF Crash, Causes
  <1>6. Queued \in Run /\ NotReady \in Deferred /\ NoSide \in Side
    BY DEF Queued, Run, NotReady, Deferred, NoSide, Side, Places, Statuses
  <1>7. crashes' \in 0..MaxCrashes
    <2>1. crashes < MaxCrashes /\ crashes' = crashes + 1
      BY DEF Crash
    <2>2. QED
      BY <2>1, LifecycleBounds DEF TypeOK
  <1>8. /\ UNCHANGED <<row, requests, timeouts>> /\ engines' = 0 /\ queue' = <<>>
        /\ run' = Queued /\ deferred' = NotReady /\ side' = NoSide
    BY DEF Crash
  <1>9. queue' \in Seq(Request) /\ Len(queue') <= Capacity
    BY <1>8, LifecycleBounds
  <1>10. QED
    BY <1>3, <1>4, <1>5, <1>6, <1>7, <1>8, <1>9 DEF TypeOK

-----------------------------------------------------------------------------
(* Requests, restarts and the loops' own steps.                            *)

LEMMA AskKeeps ==
  ASSUME IInv, Ask \/ AskIdle
  PROVE  IInv'
  <1>1. TypeOK' /\ Joined
    BY AskJoins DEF IInv
  <1>2. /\ UNCHANGED <<engines, eng, run, deferred, side, lost>>
        /\ row' = row \/ (engines = 0 /\ row \in Stale /\ row' = "stopped")
    BY DEF Ask, Submit, SubmitDeletion, InjectStale, AskIdle
  <1>3. \A kind \in Kinds, place \in Places \ {"queued"} :
          Running(kind, place)' <=> Running(kind, place)
    BY <1>1, <1>2 DEF Joined, Running, IInv, Parked
  <1>4. \/ Doing' = Doing
        \/ Doing = "none"
    BY <1>1 DEF Joined, Doing
  <1>5. Doomed' <=> Doomed
    BY <1>2 DEF Doomed, Stale
  <1>6. Parked'
    BY <1>1, <1>2, <1>3, <1>4, <1>5 DEF IInv, Parked, Joined, At, Executing, Kinds, Places
  <1>7. Phases'
    BY <1>2, <1>3 DEF IInv, Phases, Kinds, Places
  <1>8. (Intact => Held)'
    <2> SUFFICES ASSUME Intact' PROVE Held'
      OBVIOUS
    <2>1. Held
      BY <1>2 DEF IInv, Intact
    <2>2. QED
      BY <1>2, <1>3, <1>5, <2>1
         DEF Held, Loops, Executing, MapLoops, Building, Jumping, Kinds, Places
  <1>9. QED
    BY <1>1, <1>6, <1>7, <1>8 DEF IInv

LEMMA CrashKeeps ==
  ASSUME IInv, Crash
  PROVE  IInv'
  <1>1. TypeOK' /\ (\A e \in EngineIds : ~Executing(e)' /\ lost'[e] = "no")
    BY CrashTyped DEF IInv
  <1>2. /\ run'.at = "queued" /\ queue' = <<>> /\ engines' = 0 /\ side' = NoSide
        /\ ~deferred'.ready /\ deferred'.id = 0 /\ ~deferred'.git
    BY DEF Crash, Queued, NotReady
  <1>3. Parked'
    BY <1>2 DEF Parked, Running, At, NoSide
  <1>4. Phases'
    BY <1>1 DEF Phases, Executing
  <1>5. Held'
    BY <1>1, <1>2 DEF Held, Loops, MapLoops, Building, Jumping, Running
  <1>6. QED
    BY <1>1, <1>3, <1>4, <1>5 DEF IInv

(* What a step of an engine changes: it never executes again once it is    *)
(* idle, it saves what it says, and only while it may.                     *)
LEMMA EngineStepEffect ==
  ASSUME IInv, NEW e \in EngineIds, EngineStep(e)
  PROVE  /\ UNCHANGED <<engines, queue, run, deferred, side, lost>> /\ Executing(e)
         /\ \A d \in EngineIds : d # e => eng'[d] = eng[d]
         /\ eng'[e].keeps = eng[e].keeps
         /\ eng'[e].phase \in {"loop", "settle", "idle"}
         /\ eng'[e].phase = "loop" =>
              eng[e].phase = "loop" /\ eng'[e].status \in {eng[e].status, "running"}
         /\ eng'[e].phase = "settle" => eng'[e].status = "completed"
         /\ eng'[e].status \notin {"deleted", "gone"}
         /\ row' = row \/ (eng[e].keeps /\ ~Doomed /\ row' = eng'[e].status)
  <1>1. /\ eng[e] \in Engine /\ TypeOK
        /\ eng[e].phase = "loop" => eng[e].status \in {"starting", "running", "stopped"}
        /\ eng[e].phase = "settle" => eng[e].status = "completed"
    BY DEF IInv, TypeOK, Phases
  <1>2. ASSUME NEW phase \in {"loop", "settle", "idle"}, NEW st, Becomes(e, phase, st)
        PROVE  /\ UNCHANGED <<engines, queue, run, deferred, side, lost>>
               /\ \A d \in EngineIds : d # e => eng'[d] = eng[d]
               /\ eng'[e].phase = phase /\ eng'[e].status = st
               /\ eng'[e].keeps = eng[e].keeps
               /\ row' = row \/ (eng[e].keeps /\ ~Doomed /\ row' = st) \/ st = "deleted"
    <2>1. /\ \A d \in EngineIds : d # e => eng'[d] = eng[d]
          /\ eng'[e] = [eng[e] EXCEPT !.phase = phase, !.status = st]
      <3>1. eng' = [eng EXCEPT ![e] = [@ EXCEPT !.phase = phase, !.status = st]]
        BY <1>2 DEF Becomes
      <3>2. QED
        BY <3>1 DEF IInv, TypeOK
    <2>2. row' = row \/ (eng[e].keeps /\ ~Doomed /\ row' = st) \/ st = "deleted"
      BY <1>1, <1>2 DEF Becomes, Saved, Written, Doomed
    <2>3. eng'[e].phase = phase /\ eng'[e].status = st /\ eng'[e].keeps = eng[e].keeps
      BY <1>1, <2>1 DEF Engine
    <2>4. QED
      BY <1>2, <2>1, <2>2, <2>3 DEF Becomes
  <1>3. CASE Begin(e)
    <2>1. eng[e].phase = "loop" /\ Becomes(e, "loop", "running")
      BY <1>3 DEF Begin
    <2>2. QED
      BY <1>2, <2>1 DEF Executing
  <1>4. CASE Complete(e)
    <2>1. eng[e].phase = "loop" /\ Becomes(e, "settle", "completed")
      BY <1>4 DEF Complete
    <2>2. QED
      BY <1>2, <2>1 DEF Executing
  <1>5. CASE Settle(e)
    <2>1. /\ eng[e].phase = "settle" /\ eng[e].status = "completed"
          /\ Becomes(e, "idle", eng[e].status)
      BY <1>1, <1>5 DEF Settle
    <2>2. QED
      BY <1>2, <2>1 DEF Executing
  <1>6. CASE End(e)
    <2>1. PICK st \in {"stopped", "failed", "max_iterations"} : Becomes(e, "idle", st)
      BY <1>6 DEF End
    <2>2. eng[e].phase = "loop"
      BY <1>6 DEF End
    <2>3. st # "deleted" /\ st # "gone"
      OBVIOUS
    <2>4. QED
      BY <1>2, <2>1, <2>2, <2>3 DEF Executing
  <1>7. CASE Unwind(e)
    BY <1>1, <1>7 DEF Unwind, Executing, Engine, TypeOK
  <1>8. CASE Save(e)
    <2>1. Executing(e) /\ Becomes(e, eng[e].phase, eng[e].status)
      BY <1>8 DEF Save
    <2>2. /\ eng[e].phase \in {"loop", "settle"}
          /\ eng[e].status \in {"starting", "running", "stopped", "completed"}
      BY <1>1, <2>1 DEF Executing
    <2>3. /\ eng'[e].phase = eng[e].phase /\ eng'[e].status = eng[e].status
          /\ UNCHANGED <<engines, queue, run, deferred, side, lost>>
          /\ \A d \in EngineIds : d # e => eng'[d] = eng[d]
          /\ eng'[e].keeps = eng[e].keeps
          /\ row' = row \/ (eng[e].keeps /\ ~Doomed /\ row' = eng[e].status)
      BY <1>2, <2>1, <2>2
    <2>4. QED
      BY <1>1, <2>1, <2>2, <2>3
  <1>9. QED
    BY <1>3, <1>4, <1>5, <1>6, <1>7, <1>8 DEF EngineStep

LEMMA EngineStepKeeps ==
  ASSUME IInv, NEW e \in EngineIds, EngineStep(e)
  PROVE  IInv'
  <1>1. TypeOK' /\ TypeOK
    BY EngineStepTyped DEF IInv
  <1>2. /\ UNCHANGED <<engines, queue, run, deferred, side, lost>> /\ Executing(e)
        /\ \A d \in EngineIds : d # e => eng'[d] = eng[d]
        /\ eng'[e].keeps = eng[e].keeps
        /\ eng'[e].phase \in {"loop", "settle", "idle"}
        /\ eng'[e].phase = "loop" =>
             eng[e].phase = "loop" /\ eng'[e].status \in {eng[e].status, "running"}
        /\ eng'[e].phase = "settle" => eng'[e].status = "completed"
        /\ eng'[e].status \notin {"deleted", "gone"}
        /\ row' = row \/ (eng[e].keeps /\ ~Doomed /\ row' = eng'[e].status)
    BY EngineStepEffect
  <1>3. /\ Doing' = Doing /\ (Doomed' <=> Doomed)
        /\ \A kind, place : Running(kind, place)' <=> Running(kind, place)
        /\ \A kind, place : At(kind, place)' <=> At(kind, place)
    BY <1>2 DEF Doing, Doomed, Running, At
  <1>4. \A d \in EngineIds : Executing(d)' => Executing(d)
    BY <1>2 DEF Executing
  <1>5. \A d \in EngineIds : eng'[d].keeps = eng[d].keeps
    BY <1>2
  <1>6. Parked'
    <2>1. run.id \in EngineIds \cup {0}
      BY <1>1 DEF TypeOK, Run
    <2>2. QED
      BY <1>2, <1>3, <1>4, <1>5, <2>1 DEF IInv, Parked
  <1>7. Phases'
    <2> SUFFICES ASSUME NEW d \in EngineIds
                 PROVE  /\ eng'[d].phase = "unborn" => lost'[d] = "no"
                        /\ eng'[d].phase = "loop" =>
                             eng'[d].status \in {"starting", "running", "stopped"}
                        /\ eng'[d].phase = "settle" => eng'[d].status = "completed"
                        /\ lost'[d] = "cleanup" => ~eng'[d].keeps
                        /\ d = engines' /\ eng'[d].phase = "loop" /\ eng'[d].status = "stopped"
                             => Running("stop", "waiting")'
      BY DEF Phases
    <2>1. QED
      BY <1>2, <1>3 DEF IInv, Phases
  <1>8. (Intact => Held)'
    <2> SUFFICES ASSUME Intact' PROVE Held'
      OBVIOUS
    <2>1. Held /\ Intact
      BY <1>2 DEF IInv, Intact
    <2>2. \A d \in EngineIds : d \in Loops' => d \in Loops
      BY <1>2, <1>4 DEF Loops
    <2>3. MapLoops' => MapLoops
      BY <1>1, <1>2 DEF MapLoops, TypeOK
    <2>4. ASSUME MapLoops', ~Running("stop", "waiting")
          PROVE  row' \notin Terminal \cup {"deleted", "gone"}
      <3>1. MapLoops /\ row \notin Terminal \cup {"deleted", "gone"}
        BY <2>1, <2>3, <2>4 DEF Held
      <3>2. CASE e = engines
        <4>1. eng'[e].phase = "loop" /\ eng[e].phase = "loop"
          BY <1>2, <2>4, <3>2 DEF MapLoops
        <4>2. eng'[e].status \in {"starting", "running"}
          BY <1>2, <2>4, <3>2, <4>1 DEF IInv, Phases
        <4>3. QED
          BY <1>2, <3>1, <4>2 DEF Terminal
      <3>3. CASE e # engines
        <4>1. ASSUME eng[e].keeps
              PROVE  FALSE
          <5>1. lost[e] = "no"
            BY <2>1, <4>1 DEF IInv, Phases, Intact
          <5>2. e \in Loops
            BY <1>2, <5>1 DEF Loops
          <5>3. engines = 0
            BY <2>1, <3>3, <5>2 DEF Held, IInv, Parked, EngineIds
          <5>4. QED
            BY <3>1, <5>3 DEF MapLoops
        <4>2. QED
          BY <1>2, <3>1, <4>1
      <3>4. QED
        BY <3>2, <3>3
    <2>5. \A d \in Loops' :
            d = engines' \/ d = deferred'.id \/ (run'.at = "linking" /\ d = run'.id)
      BY <1>2, <2>1, <2>2 DEF Held, Loops
    <2>6. engines # 0 => (~Executing(engines) => ~Executing(engines)')
      BY <1>1, <1>2, <1>4 DEF TypeOK
    <2>7. QED
      BY <1>2, <1>3, <2>1, <2>3, <2>4, <2>5, <2>6 DEF Held, Building, Jumping
  <1>9. QED
    BY <1>1, <1>6, <1>7, <1>8 DEF IInv

-----------------------------------------------------------------------------
(* The shapes the steps that lose or replace an engine have in common.     *)

Sound ==
  \A e \in EngineIds :
    /\ eng[e].phase = "unborn" => lost[e] = "no"
    /\ eng[e].phase = "loop" => eng[e].status \in {"starting", "running", "stopped"}
    /\ eng[e].phase = "settle" => eng[e].status = "completed"
    /\ lost[e] = "cleanup" => ~eng[e].keeps

Awaited == MapLoops /\ eng[engines].status = "stopped" => Running("stop", "waiting")

LEMMA PhasesSplit == TypeOK => (Phases <=> Sound /\ Awaited)
  BY DEF TypeOK, Phases, Sound, Awaited, MapLoops, EngineIds

(* An operation that starts finds the loop in the map or none. *)
OnlyMap ==
  /\ \A e \in Loops : e = engines
  /\ engines # 0 => lost[engines] = "no"
  /\ MapLoops => row \notin Terminal \cup {"deleted", "gone"}

LEMMA FindsOnlyMap ==
  ASSUME IInv, Intact, Doing # "cleanup", run.at # "linking", ~Running("stop", "waiting")
  PROVE  OnlyMap
  <1>1. deferred.id = 0 /\ Held
    BY DEF IInv, Parked
  <1>2. \A e \in Loops : e # 0
    BY DEF Loops, EngineIds
  <1>3. QED
    BY <1>1, <1>2 DEF OnlyMap, Held

(* Losing more engines never makes a history intact. *)
LEMMA LosesLemma ==
  ASSUME TypeOK, NEW e \in EngineIds \cup {0}, NEW cause \in Causes \ {"no"}, Lose(e, cause),
         \A d \in EngineIds : Executing(d)' <=> Executing(d)
  PROVE  /\ Intact' => Intact
         /\ \A d \in Loops' : d \in Loops /\ d # e
         /\ Intact' /\ cause # "cleanup" /\ e # 0 /\ Executing(e) => lost[e] # "no"
  <1>1. /\ \A d \in EngineIds : lost'[d] = lost[d] \/ (d = e /\ lost'[d] = cause /\ Executing(d))
        /\ e # 0 /\ Executing(e) => lost'[e] # "no"
        /\ \A d \in EngineIds : lost[d] # "no" => lost'[d] = lost[d]
    BY LoseLemma
  <1>2. QED
    BY <1>1 DEF Intact, Loops, TypeOK

(* The operation leaves the queue. *)
LEMMA ReturnsKeeps ==
  ASSUME IInv, TypeOK', queue # <<>>, Doing # "cleanup", Returns, side' = side, Sound',
         MapLoops' => eng'[engines'].status # "stopped",
         Intact' => OnlyMap'
  PROVE  IInv'
  <1>1. /\ run'.at = "queued" /\ deferred' = deferred
        /\ ~deferred.ready /\ deferred.id = 0 /\ ~deferred.git
    BY DEF IInv, Parked, Returns, Queued
  <1>2. \A kind : \A place : place # "queued" => ~Running(kind, place)'
    BY <1>1 DEF Running
  <1>3. Parked'
    BY <1>1, <1>2 DEF IInv, Parked, At
  <1>4. Phases'
    <2>1. Awaited'
      BY DEF Awaited
    <2>2. (Phases <=> Sound /\ Awaited)'
      BY PhasesSplit, PTL
    <2>3. QED
      BY <2>1, <2>2
  <1>5. Intact' => Held'
    BY <1>1, <1>2 DEF OnlyMap, Held, Building, Jumping
  <1>6. QED
    BY <1>3, <1>4, <1>5 DEF IInv

LEMMA ReturnsUnchanged ==
  ASSUME IInv, TypeOK', queue # <<>>, Doing # "cleanup", run.at # "linking",
         ~Running("stop", "waiting"), Returns, UNCHANGED <<row, engines, eng, side, lost>>
  PROVE  IInv'
  <1>1. Sound /\ Awaited /\ TypeOK
    BY PhasesSplit DEF IInv
  <1>2. Sound' /\ (MapLoops' => eng'[engines'].status # "stopped")
    BY <1>1 DEF Sound, Awaited, MapLoops
  <1>3. Intact' => OnlyMap'
    <2>1. Intact => OnlyMap
      BY FindsOnlyMap
    <2>2. QED
      BY <2>1 DEF Intact, OnlyMap, Loops, Executing, MapLoops
  <1>4. QED
    BY <1>2, <1>3, ReturnsKeeps

(* A step beside the queue. *)
LEMMA BesideKeeps ==
  ASSUME IInv, TypeOK', UNCHANGED <<queue, run, deferred>>, At("reset", "waiting")' => side'.id # 0,
         \A e \in EngineIds : eng'[e].phase = eng[e].phase /\ (eng'[e].keeps => eng[e].keeps),
         engines' \in {0, engines}, Doomed' <=> Doomed, Sound',
         MapLoops' => eng'[engines'].status = eng[engines].status,
         Intact' => /\ Intact /\ \A e \in Loops' : e \in Loops /\ (engines' = 0 => e # engines)
                    /\ engines' # 0 => lost'[engines'] = "no"
                    /\ MapLoops' => row' \in {row, "merged"}
  PROVE  IInv'
  <1>1. TypeOK /\ Sound /\ Awaited
    BY PhasesSplit DEF IInv
  <1>2. Doing' = Doing /\ \A kind, place : Running(kind, place)' <=> Running(kind, place)
    BY DEF Doing, Running
  <1>3. \A e \in EngineIds : Executing(e)' <=> Executing(e)
    BY DEF Executing
  <1>4. Parked'
    <2>1. run.id \in EngineIds \cup {0}
      BY <1>1 DEF TypeOK, Run
    <2>2. QED
      BY <1>2, <1>3, <2>1 DEF IInv, Parked
  <1>5. MapLoops' => MapLoops /\ engines' = engines
    BY <1>1 DEF MapLoops, TypeOK
  <1>6. Phases'
    <2>1. Awaited'
      BY <1>1, <1>2, <1>5 DEF Awaited
    <2>2. (Phases <=> Sound /\ Awaited)'
      BY PhasesSplit, PTL
    <2>3. QED
      BY <2>1, <2>2
  <1>7. Intact' => Held'
    <2> SUFFICES ASSUME Intact' PROVE Held'
      OBVIOUS
    <2>1. Held
      BY DEF IInv
    <2>2. engines' # 0 => (Executing(engines)' <=> Executing(engines)) /\ engines' = engines
      BY <1>1, <1>3 DEF TypeOK
    <2>3. \A e \in Loops' :
            e = engines' \/ e = deferred'.id \/ (run'.at = "linking" /\ e = run'.id)
      BY <2>1 DEF Held
    <2>4. MapLoops' => row' \notin Terminal \cup {"deleted", "gone"} \/ Running("stop", "waiting")'
      <3>1. "merged" \notin Terminal \cup {"deleted", "gone"}
        BY DEF Terminal
      <3>2. QED
        BY <1>2, <1>5, <2>1, <3>1 DEF Held
    <2>5. QED
      BY <1>2, <1>5, <2>1, <2>2, <2>3, <2>4 DEF Held, Building, Jumping
  <1>8. QED
    BY <1>4, <1>6, <1>7 DEF IInv

LEMMA SideKeeps ==
  ASSUME IInv, SideAction
  PROVE  IInv'
  <1>1. TypeOK /\ TypeOK' /\ UNCHANGED <<queue, run, deferred>> /\ Sound
    BY SideTyped, PhasesSplit DEF IInv
  <1>2. engines \in EngineIds \cup {0} /\ side.id \in EngineIds \cup {0}
        /\ {"merge", "reset"} \subseteq Causes \ {"no"}
        /\ \A e \in EngineIds : eng[e] \in Engine
    BY <1>1 DEF TypeOK, Side, Causes
  <1>3. Intact /\ engines # 0 => lost[engines] = "no"
    BY DEF IInv, Held
  <1>4. CASE Merge \/ MergeWrites \/ ResetTimesOut
    <2>1. /\ UNCHANGED <<engines, eng, lost>> /\ side'.at # "waiting"
          /\ row' = row \/ row' = Written("merged", FALSE)
      <3>1. CASE Merge
        BY <3>1 DEF Merge, Beside
      <3>2. CASE MergeWrites
        BY <3>2 DEF MergeWrites, Beside
      <3>3. CASE ResetTimesOut
        BY <3>3 DEF ResetTimesOut, Beside
      <3>4. QED
        BY <1>4, <3>1, <3>2, <3>3
    <2>2. /\ (Doomed' <=> Doomed) /\ row' \in {row, "merged"}
          /\ ~At("reset", "waiting")'
      BY <1>1, <2>1 DEF Doomed, Written, At
    <2>3. /\ Sound' /\ Intact' = Intact /\ (\A e \in Loops' : e \in Loops)
          /\ MapLoops' = MapLoops
      BY <1>1, <2>1 DEF Sound, Intact, Loops, Executing, MapLoops
    <2>4. \A e \in Loops' : engines' = 0 => e # engines
      BY <2>1 DEF Loops, EngineIds
    <2>5. QED
      BY <1>1, <1>3, <2>1, <2>2, <2>3, <2>4, BesideKeeps
  <1>5. CASE MergeFinishes \/ ResetClears
    <2>1. /\ engines' = 0 /\ UNCHANGED eng /\ ~At("reset", "waiting")'
          /\ \E cause \in {"merge", "reset"} : Lose(engines, cause)
          /\ row' = row \/ (row \in Stale /\ row' = "stopped")
      BY <1>5 DEF MergeFinishes, ResetClears, NoSide, At
    <2>2. PICK cause \in {"merge", "reset"} : Lose(engines, cause)
      BY <2>1
    <2>3. \A e \in EngineIds : Executing(e)' <=> Executing(e)
      BY <2>1 DEF Executing
    <2>4. /\ Intact' => Intact
          /\ \A e \in Loops' : e \in Loops /\ e # engines
      BY <1>1, <1>2, <2>2, <2>3, LosesLemma
    <2>5. \A e \in EngineIds : lost'[e] = lost[e] \/ (lost'[e] = cause /\ Executing(e))
      BY <1>1, <1>2, <2>2, LoseLemma
    <2>6. Sound'
      BY <1>1, <2>1, <2>5 DEF Sound, Executing
    <2>7. (Doomed' <=> Doomed) /\ ~MapLoops'
      BY <2>1 DEF Doomed, Stale, MapLoops
    <2>8. QED
      BY <1>1, <2>1, <2>4, <2>6, <2>7, BesideKeeps
  <1>6. CASE Reset
    <2>1. /\ UNCHANGED <<engines, row, lost>>
          /\ At("reset", "waiting")' => side'.id # 0
          /\ eng' = eng \/ (engines # 0 /\ eng' = [eng EXCEPT ![engines].aborted = TRUE])
      BY <1>6 DEF Reset, Beside, At, Abort
    <2>2. \A e \in EngineIds : /\ eng'[e].phase = eng[e].phase /\ eng'[e].keeps = eng[e].keeps
                               /\ eng'[e].status = eng[e].status
      BY <1>1, <1>2, <2>1 DEF TypeOK, Engine
    <2>3. /\ Sound' /\ Intact' = Intact /\ (\A e \in Loops' : e \in Loops /\ e # 0)
          /\ Doomed' = Doomed
      BY <1>1, <2>1, <2>2 DEF Sound, Intact, Loops, Executing, Doomed, EngineIds
    <2>4. MapLoops' => eng'[engines'].status = eng[engines].status
      BY <1>2, <2>1, <2>2 DEF MapLoops
    <2>5. QED
      BY <1>1, <1>3, <2>1, <2>2, <2>3, <2>4, BesideKeeps
  <1>7. CASE ResetSettles
    <2>1. side.id \in EngineIds /\ ~Executing(side.id)
      BY <1>2, <1>7 DEF ResetSettles, IInv, Parked
    <2>2. PICK to \in {"stopped", "completed"} :
            \/ /\ eng' = [eng EXCEPT ![side.id].status = to, ![side.id].keeps = FALSE]
               /\ row' = Written(to, FALSE)
            \/ UNCHANGED <<row, eng>>
      BY <1>7 DEF ResetSettles
    <2>3. \A e \in EngineIds : /\ eng'[e].phase = eng[e].phase
                               /\ eng'[e].keeps => eng[e].keeps
                               /\ e # side.id => eng'[e] = eng[e]
      <3>1. \/ eng' = [eng EXCEPT ![side.id] = [@ EXCEPT !.status = to, !.keeps = FALSE]]
            \/ eng' = eng
        BY <2>2
      <3>2. \A e \in EngineIds : e # side.id => eng'[e] = eng[e]
        BY <1>1, <3>1 DEF TypeOK
      <3>3. \/ eng'[side.id] = [eng[side.id] EXCEPT !.status = to, !.keeps = FALSE]
            \/ eng' = eng
        BY <1>1, <2>1, <3>1 DEF TypeOK
      <3>4. eng'[side.id].phase = eng[side.id].phase /\ (eng'[side.id].keeps => eng[side.id].keeps)
        BY <1>2, <2>1, <3>3 DEF Engine
      <3>5. QED
        BY <3>2, <3>4
    <2>4. \A e \in EngineIds : Executing(e)' <=> Executing(e)
      BY <2>3 DEF Executing
    <2>5. /\ UNCHANGED engines /\ ~At("reset", "waiting")'
          /\ Lose(IF engines = side.id THEN 0 ELSE engines, "reset")
      BY <1>7 DEF ResetSettles, Beside, At
    <2>6. /\ Intact' => Intact
          /\ \A e \in Loops' : e \in Loops /\ e # 0
          /\ Intact' /\ engines # side.id /\ engines # 0 /\ Executing(engines)
               => lost[engines] # "no"
      <3>1. /\ Intact' => Intact
            /\ \A e \in Loops' : e \in Loops
            /\ engines # side.id => (Intact' /\ engines # 0 /\ Executing(engines)
                                       => lost[engines] # "no")
        <4>1. CASE engines = side.id
          BY <1>1, <1>2, <2>4, <2>5, <4>1, LosesLemma
        <4>2. CASE engines # side.id
          BY <1>1, <1>2, <2>4, <2>5, <4>2, LosesLemma
        <4>3. QED
          BY <4>1, <4>2
      <3>2. QED
        BY <3>1 DEF Loops, EngineIds
    <2>7. \A e \in EngineIds : lost'[e] = lost[e] \/ (lost'[e] = "reset" /\ Executing(e))
      BY <1>1, <1>2, <2>5, LoseLemma
    <2>8. Sound'
      BY <1>1, <2>1, <2>3, <2>7 DEF Sound, Executing
    <2>9. Doomed' <=> Doomed
      BY <1>1, <2>2, WrittenDoomed DEF Doomed
    <2>10. MapLoops' => /\ eng'[engines'].status = eng[engines].status
                        /\ ~Intact'
      <3>1. SUFFICES ASSUME MapLoops'
                     PROVE  engines # 0 /\ Executing(engines) /\ engines # side.id
        BY <1>2, <1>3, <2>3, <2>5, <2>6
      <3>2. QED
        BY <1>2, <2>1, <2>3, <2>5, <3>1 DEF MapLoops, Executing
    <2>11. Intact' /\ engines' # 0 => lost'[engines'] = "no"
      <3>1. SUFFICES ASSUME Intact', engines # 0
                     PROVE  lost'[engines] = "no"
        BY <2>5
      <3>2. lost[engines] = "no"
        BY <1>3, <2>6, <3>1
      <3>3. lost'[engines] # "reset"
        BY <1>2, <3>1 DEF Intact
      <3>4. QED
        BY <1>2, <2>7, <3>1, <3>2, <3>3
    <2>12. QED
      BY <1>1, <2>3, <2>5, <2>6, <2>8, <2>9, <2>10, <2>11, BesideKeeps
  <1>8. QED
    BY <1>4, <1>5, <1>6, <1>7 DEF SideAction, SideStep

-----------------------------------------------------------------------------
(* The operations of the queue.                                            *)

(* A new engine enters the map where no other loop is left.                *)
LEMMA BuildsKeeps ==
  ASSUME IInv, TypeOK', queue # <<>>, Doing # "cleanup", Returns, side' = side,
         NEW st \in Statuses, NEW active \in {"no", "starting", "running"}, Builds(st, active),
         \A d \in EngineIds : lost'[d] = lost[d] \/ (lost'[d] = "settling" /\ Executing(d)),
         Intact' => ~Doomed /\ \A d \in EngineIds : ~(Executing(d) /\ lost'[d] = "no")
  PROVE  IInv'
  <1>1. TypeOK /\ Sound
    BY PhasesSplit DEF IInv
  <1>2. PICK e \in EngineIds :
          /\ eng[e].phase = "unborn"
          /\ eng' = [eng EXCEPT ![e] = [phase |-> IF active # "no" THEN "loop" ELSE "idle",
                                        status |-> IF active # "no" THEN active ELSE st,
                                        aborted |-> FALSE, keeps |-> TRUE]]
          /\ row' = IF active # "no" THEN Written(active, FALSE) ELSE row
          /\ engines' = e
    BY DEF Builds
  <1>3. /\ \A d \in EngineIds : d # e => eng'[d] = eng[d]
        /\ eng'[e].phase = IF active # "no" THEN "loop" ELSE "idle"
        /\ active # "no" => eng'[e].status = active
    BY <1>1, <1>2 DEF TypeOK
  <1>4. lost'[e] = "no"
    BY <1>1, <1>2 DEF Sound, Executing
  <1>5. Sound'
    <2> SUFFICES ASSUME NEW d \in EngineIds
                 PROVE  /\ eng'[d].phase = "unborn" => lost'[d] = "no"
                        /\ eng'[d].phase = "loop" =>
                             eng'[d].status \in {"starting", "running", "stopped"}
                        /\ eng'[d].phase = "settle" => eng'[d].status = "completed"
                        /\ lost'[d] = "cleanup" => ~eng'[d].keeps
      BY DEF Sound
    <2>1. CASE d = e
      BY <1>3, <1>4, <2>1
    <2>2. CASE d # e
      BY <1>1, <1>3, <2>2 DEF Sound, Executing
    <2>3. QED
      BY <2>1, <2>2
  <1>6. MapLoops' => eng'[engines'].status # "stopped"
    BY <1>2, <1>3 DEF MapLoops
  <1>7. Intact' => OnlyMap'
    <2> SUFFICES ASSUME Intact' PROVE OnlyMap'
      OBVIOUS
    <2>1. \A d \in Loops' : d = engines'
      BY <1>2, <1>3 DEF Loops, Executing
    <2>2. MapLoops' => row' = active /\ active # "no"
      BY <1>1, <1>2, <1>3 DEF MapLoops, Written, Doomed
    <2>3. QED
      BY <1>2, <1>4, <2>1, <2>2 DEF OnlyMap, Terminal
  <1>8. QED
    BY <1>5, <1>6, <1>7, ReturnsKeeps

LEMMA StartKeeps ==
  ASSUME IInv, TypeOK', StartLoad \/ StartBuild \/ Fail
  PROVE  IInv'
  <1>1. TypeOK
    BY DEF IInv
  <1>2. queue # <<>> /\ Doing # "cleanup" /\ run.at # "linking" /\ ~Running("stop", "waiting")
    BY DEF StartLoad, StartBuild, Fail, Starting, Running, Doing
  <1>3. Intact => OnlyMap
    BY <1>2, FindsOnlyMap
  <1>4. CASE StartLoad
    <2>1. CASE Returns
      BY <1>2, <1>4, <2>1, ReturnsUnchanged DEF StartLoad
    <2>2. CASE ~Returns
      <3>1. /\ queue' = queue /\ deferred' = deferred /\ run'.at = "building"
            /\ UNCHANGED <<row, engines, eng, side, lost>> /\ engines = 0 /\ ~Doomed
        BY <1>4, <2>2 DEF StartLoad, Parks, Doomed
      <3>2. /\ Doing' = Doing /\ Running("start", "queued")
            /\ \A kind, place : Running(kind, place)' => place = "building"
        BY <1>4, <3>1 DEF Doing, Running, StartLoad
      <3>3. Parked'
        BY <1>2, <3>1, <3>2 DEF IInv, Parked, At, Doomed
      <3>4. Phases'
        BY <1>2, <3>1, <3>2 DEF IInv, Phases
      <3>5. Intact' => Held'
        BY <1>2, <1>3, <3>1, <3>2
           DEF Intact, Held, OnlyMap, Loops, Executing, MapLoops, Doomed
      <3>6. QED
        BY <3>3, <3>4, <3>5 DEF IInv
    <2>3. QED
      BY <2>1, <2>2
  <1>5. CASE StartBuild
    <2>1. run.snap \in Statuses
      BY <1>1 DEF TypeOK, Run
    <2>2. PICK active \in {"no", "starting", "running"} : Builds(run.snap, active)
      BY <1>5 DEF StartBuild, Starts
    <2>3. Returns /\ UNCHANGED <<side, lost>>
      BY <1>5 DEF StartBuild
    <2>4. Intact' => ~Doomed /\ \A d \in EngineIds : ~(Executing(d) /\ lost'[d] = "no")
      <3>1. Intact => Held /\ OnlyMap /\ Building
        BY <1>3, <1>5 DEF IInv, StartBuild, Starting, Building
      <3>2. Intact' = Intact
        BY <2>3 DEF Intact
      <3>3. QED
        BY <2>3, <3>1, <3>2 DEF Held, OnlyMap, Loops, EngineIds
    <2>5. QED
      BY <1>2, <2>1, <2>2, <2>3, <2>4, BuildsKeeps
  <1>6. CASE Fail
    BY <1>2, <1>6, ReturnsUnchanged DEF Fail
  <1>7. QED
    BY <1>4, <1>5, <1>6

(* An operation that is no deletion and no cleanup waits. *)
LEMMA ParksKeeps ==
  ASSUME IInv, TypeOK', queue # <<>>, Doing # "cleanup", side' = side,
         NEW place \in Places \ {"queued", "linking", "git"}, NEW snap, NEW id,
         Parks(place, snap, id), Sound', Awaited',
         Running("stop", "stopping")' \/ Running("stop", "waiting")'
           => id # 0 /\ engines' \in {0, id},
         Running("stop", "disconnecting")' => id # 0,
         Intact' =>
           /\ \A e \in Loops' : e = engines'
           /\ engines' # 0 => lost'[engines'] = "no"
           /\ MapLoops' => row' \notin Terminal \cup {"deleted", "gone"}
                             \/ Running("stop", "waiting")'
           /\ Building' => engines' = 0 /\ ~Doomed'
           /\ Jumping("building")' \/ Running("followup", "checking")' => ~MapLoops' /\ ~Doomed'
           /\ Running("followup", "checking")' => engines' \in {0, id}
           /\ Running("push", "pushing")' \/ Running("push", "finalizing")' => ~MapLoops'
           /\ Running("stop", "disconnecting")' \/ Running("complete", "disconnecting")'
                => engines' = 0
           /\ Running("idle", "disconnecting")' /\ engines' # 0 /\ engines' = id
                => ~Executing(engines)'
  PROVE  IInv'
  <1>1. /\ queue' = queue /\ deferred' = deferred /\ run'.at = place /\ run'.id = id
        /\ ~deferred.ready /\ deferred.id = 0 /\ ~deferred.git
    BY DEF IInv, Parked, Parks
  <1>2. Doing' = Doing /\ ~Running("cleanup", "waiting")'
    BY <1>1 DEF Doing, Running
  <1>3. Parked'
    BY <1>1, <1>2 DEF IInv, Parked, At
  <1>4. Phases'
    BY PhasesSplit, PTL
  <1>5. Intact' => Held'
    BY <1>1 DEF Held
  <1>6. QED
    BY <1>3, <1>4, <1>5 DEF IInv

(* A stop that gives up clears the map, and the loop it leaves is lost. *)
LEMMA GivesUpKeeps ==
  ASSUME IInv, TypeOK', queue # <<>>, Doing # "cleanup", run.at # "linking",
         Returns, engines' = 0, UNCHANGED <<row, eng, side>>,
         NEW e \in EngineIds \cup {0}, engines \in {0, e},
         NEW cause \in Causes \ {"no", "cleanup"}, Lose(e, cause)
  PROVE  IInv'
  <1>1. TypeOK /\ Sound /\ deferred.id = 0
    BY PhasesSplit DEF IInv, Parked
  <1>2. \A d \in EngineIds : Executing(d)' <=> Executing(d)
    BY DEF Executing
  <1>3. \A d \in EngineIds : lost'[d] = lost[d] \/ (lost'[d] = cause /\ Executing(d))
    BY <1>1, LoseLemma
  <1>4. Sound'
    BY <1>1, <1>3 DEF Sound, Executing
  <1>5. Intact' => OnlyMap'
    <2> SUFFICES ASSUME Intact' PROVE OnlyMap'
      OBVIOUS
    <2>1. Intact /\ \A d \in Loops' : d \in Loops /\ d # e
      BY <1>1, <1>2, LosesLemma
    <2>2. \A d \in Loops : d = engines /\ d # 0
      BY <1>1, <2>1 DEF IInv, Held, Loops, EngineIds
    <2>3. QED
      BY <2>1, <2>2 DEF OnlyMap, MapLoops
  <1>6. ~MapLoops'
    BY DEF MapLoops
  <1>7. QED
    BY <1>4, <1>5, <1>6, ReturnsKeeps

LEMMA StopKeeps ==
  ASSUME IInv, TypeOK', Stop \/ StopMarks \/ StopSettles \/ StopTimesOut \/ StopRecords
  PROVE  IInv'
  <1>1. TypeOK /\ Sound /\ Awaited
    BY PhasesSplit DEF IInv
  <1>2. /\ queue # <<>> /\ Head(queue).kind = "stop" /\ Doing # "cleanup"
        /\ run.at # "linking"
    BY DEF Stop, StopMarks, StopSettles, StopTimesOut, StopRecords, Running, Doing
  <1>3. /\ run.id \in EngineIds \cup {0} /\ engines \in EngineIds \cup {0}
        /\ \A e \in EngineIds : eng[e] \in Engine
    BY <1>1 DEF TypeOK, Run
  <1>4. Intact => Held /\ \A e \in Loops : e = engines /\ e # 0
    BY <1>2 DEF IInv, Parked, Held, Loops, EngineIds
  <1>5. \A place, snap, id : Parks(place, snap, id) =>
          /\ queue' = queue /\ run'.at = place
          /\ \A kind, at : Running(kind, at)' <=> kind = "stop" /\ at = place
    BY <1>2 DEF Parks, Running
  <1>6. CASE Stop
    <2>1. CASE engines = 0
      BY <1>2, <1>6, <2>1, ReturnsUnchanged DEF Stop, Running
    <2>2. CASE engines # 0
      <3>1. /\ Parks("stopping", "idle", engines) /\ UNCHANGED <<row, engines, side, lost>>
            /\ eng' = [eng EXCEPT ![engines].aborted = TRUE] /\ ~Running("stop", "waiting")
        BY <1>6, <2>2 DEF Stop, Abort, Running
      <3>2. \A e \in EngineIds : /\ eng'[e].phase = eng[e].phase
                                 /\ eng'[e].keeps = eng[e].keeps
                                 /\ eng'[e].status = eng[e].status
        BY <1>1, <1>3, <3>1 DEF TypeOK, Engine
      <3>3. Sound' /\ Awaited' /\ Intact' = Intact /\ Loops' = Loops /\ MapLoops' = MapLoops
        BY <1>1, <1>3, <3>1, <3>2
           DEF Sound, Awaited, Intact, Loops, Executing, MapLoops
      <3>4. /\ run'.at = "stopping"
            /\ \A kind, at : Running(kind, at)' <=> kind = "stop" /\ at = "stopping"
        BY <1>5, <3>1
      <3>5. "stopping" \in Places \ {"queued", "linking", "git"}
        BY DEF Places
      <3>6. QED
        BY <1>2, <1>4, <2>2, <3>1, <3>3, <3>4, <3>5, ParksKeeps DEF Held, Building, Jumping
    <2>3. QED
      BY <2>1, <2>2
  <1>7. CASE StopMarks
    <2>1. run.id \in EngineIds /\ engines \in {0, run.id} /\ ~Running("stop", "waiting")
      BY <1>3, <1>7 DEF StopMarks, Running, IInv, Parked
    <2> DEFINE st == eng[run.id].status
    <2>2. CASE st = "completed" \/ Accepts(st, "stopped")
      <3>1. PICK to \in {st, "stopped"} :
              /\ eng' = [eng EXCEPT ![run.id].status = to]
              /\ st = "completed" => to = st
              /\ st # "completed" => to = "stopped"
        BY <1>7, <2>2 DEF StopMarks
      <3>2. Parks("waiting", "idle", run.id) /\ UNCHANGED <<row, engines, side, lost>>
        BY <1>7, <2>2 DEF StopMarks
      <3>3. \A e \in EngineIds : /\ eng'[e].phase = eng[e].phase
                                 /\ eng'[e].keeps = eng[e].keeps
                                 /\ e # run.id => eng'[e] = eng[e]
        BY <1>1, <1>3, <3>1 DEF TypeOK, Engine
      <3>4. eng'[run.id].status = to
        BY <1>1, <1>3, <2>1, <3>1 DEF TypeOK, Engine
      <3>5. Sound'
        BY <1>1, <2>1, <3>1, <3>2, <3>3, <3>4 DEF Sound
      <3>6. Running("stop", "waiting")'
        BY <1>5, <3>2
      <3>7. Awaited'
        BY <3>6 DEF Awaited
      <3>8. Intact' = Intact /\ Loops' = Loops
        BY <3>2, <3>3 DEF Intact, Loops, Executing
      <3>9. \A kind, at : Running(kind, at)' <=> kind = "stop" /\ at = "waiting"
        BY <1>5, <3>2
      <3>10. "waiting" \in Places \ {"queued", "linking", "git"} /\ run.id # 0
        BY <2>1 DEF Places, EngineIds
      <3>11. engines' \in {0, run.id} /\ side' = side
        BY <2>1, <3>2
      <3>12. Intact' => /\ \A e \in Loops' : e = engines'
                        /\ engines' # 0 => lost'[engines'] = "no"
        BY <1>4, <3>2, <3>8 DEF Held
      <3>13. ~Building' /\ ~Jumping("building")'
        BY <3>9 DEF Building, Jumping
      <3>14. QED
        BY <1>2, <3>2, <3>5, <3>7, <3>9, <3>10, <3>11, <3>12, <3>13, ParksKeeps
    <2>3. CASE ~(st = "completed" \/ Accepts(st, "stopped"))
      <3>1. engines' = 0 /\ Lose(engines, "timeout") /\ Returns /\ UNCHANGED <<row, eng, side>>
        BY <1>7, <2>3 DEF StopMarks
      <3>2. "timeout" \in Causes \ {"no", "cleanup"}
        BY DEF Causes
      <3>3. QED
        BY <1>2, <1>3, <3>1, <3>2, GivesUpKeeps
    <2>4. QED
      BY <2>2, <2>3
  <1>8. CASE StopSettles
    <2>1. /\ run.id \in EngineIds /\ engines \in {0, run.id} /\ ~Executing(run.id) /\ run.id # 0
      BY <1>3, <1>8 DEF StopSettles, Running, IInv, Parked
    <2>2. /\ Parks("disconnecting", "idle", run.id) /\ UNCHANGED <<side, lost>> /\ engines' = 0
          /\ eng' = [eng EXCEPT ![run.id].keeps = FALSE]
      BY <1>8 DEF StopSettles
    <2>3. \A e \in EngineIds : /\ eng'[e].phase = eng[e].phase
                               /\ eng'[e].keeps => eng[e].keeps
                               /\ eng'[e].status = eng[e].status
      BY <1>1, <1>3, <2>2 DEF TypeOK, Engine
    <2>4. Sound' /\ Intact' = Intact /\ Loops' = Loops
      BY <1>1, <2>2, <2>3 DEF Sound, Intact, Loops, Executing
    <2>5. ~MapLoops' /\ Awaited'
      BY <2>2 DEF MapLoops, Awaited
    <2>6. \A kind, at : Running(kind, at)' <=> kind = "stop" /\ at = "disconnecting"
      BY <1>5, <2>2
    <2>7. Intact' => \A e \in Loops' : e = engines'
      BY <1>4, <2>1, <2>4 DEF Loops
    <2>8. "disconnecting" \in Places \ {"queued", "linking", "git"}
      BY DEF Places
    <2>9. ~Building' /\ ~Jumping("building")'
      BY <2>6 DEF Building, Jumping
    <2>10. QED
      BY <1>2, <2>1, <2>2, <2>4, <2>5, <2>6, <2>7, <2>8, <2>9, ParksKeeps
  <1>9. CASE StopTimesOut
    <2>1. /\ engines \in {0, run.id} /\ engines' = 0 /\ Lose(run.id, "timeout") /\ Returns
          /\ UNCHANGED <<row, eng, side>> /\ "timeout" \in Causes \ {"no", "cleanup"}
      BY <1>9 DEF StopTimesOut, Running, IInv, Parked, Causes
    <2>2. QED
      BY <1>2, <1>3, <2>1, GivesUpKeeps
  <1>10. CASE StopRecords
    <2>1. /\ Running("stop", "disconnecting") /\ Returns /\ UNCHANGED <<engines, eng, side, lost>>
          /\ ~Running("stop", "waiting")
      BY <1>10 DEF StopRecords, Running
    <2>2. Sound' /\ Intact' = Intact /\ Loops' = Loops /\ MapLoops' = MapLoops
      BY <1>1, <2>1 DEF Sound, Intact, Loops, Executing, MapLoops
    <2>3. MapLoops' => eng'[engines'].status # "stopped"
      BY <1>1, <2>1, <2>2 DEF Awaited
    <2>4. Intact => engines = 0
      BY <1>4, <2>1 DEF Held
    <2>5. Intact' => OnlyMap'
      BY <1>4, <2>1, <2>2, <2>4 DEF OnlyMap, MapLoops
    <2>6. QED
      BY <1>2, <2>1, <2>2, <2>3, <2>5, ReturnsKeeps
  <1>11. QED
    BY <1>6, <1>7, <1>8, <1>9, <1>10

(* Behind a cleanup the slot is free again. *)
LEMMA CleanedUpKeeps ==
  ASSUME IInv, TypeOK', queue # <<>>, Doing = "cleanup", run.at # "linking", CleanedUp,
         UNCHANGED <<row, engines, eng, side>>, Sound',
         Intact' => Intact /\ \A e \in Loops' : e \in Loops /\ e # deferred.id,
         engines # 0 => lost' = lost
  PROVE  IInv'
  <1>1. /\ run'.at = "queued" /\ ~deferred'.ready /\ deferred'.id = 0 /\ ~deferred'.git
    BY DEF CleanedUp, Queued, NotReady
  <1>2. \A kind : \A place : place # "queued" => ~Running(kind, place)'
    BY <1>1 DEF Running
  <1>3. Parked'
    BY <1>1, <1>2 DEF IInv, Parked, At
  <1>4. Awaited /\ TypeOK /\ ~Running("stop", "waiting")
    BY PhasesSplit DEF IInv, Doing, Running
  <1>5. MapLoops' = MapLoops
    BY DEF MapLoops
  <1>6. Phases'
    <2>1. Awaited'
      BY <1>4, <1>5 DEF Awaited
    <2>2. QED
      BY <2>1, PhasesSplit, PTL
  <1>7. Intact' => Held'
    <2> SUFFICES ASSUME Intact' PROVE Held'
      OBVIOUS
    <2>1. Held /\ \A e \in Loops' : e = engines
      BY DEF IInv, Held
    <2>2. engines' # 0 => lost'[engines'] = "no"
      BY <2>1 DEF Held
    <2>3. MapLoops' => row' \notin Terminal \cup {"deleted", "gone"}
      BY <1>4, <1>5, <2>1 DEF Held
    <2>4. QED
      BY <1>2, <2>1, <2>2, <2>3 DEF Held, Building, Jumping
  <1>8. QED
    BY <1>3, <1>6, <1>7 DEF IInv

LEMMA CleanupKeeps ==
  ASSUME IInv, TypeOK', Cleanup \/ CleanupSettles \/ CleanupTimesOut \/ CleanupGit
  PROVE  IInv'
  <1>1. TypeOK /\ Sound /\ Awaited
    BY PhasesSplit DEF IInv
  <1>2. /\ queue # <<>> /\ Head(queue).kind = "cleanup" /\ Doing = "cleanup"
        /\ run.at # "linking" /\ UNCHANGED <<row, engines, side>>
    BY DEF Cleanup, CleanupSettles, CleanupTimesOut, CleanupGit, Running, Doing
  <1>3. /\ deferred.id \in EngineIds \cup {0} /\ engines \in EngineIds \cup {0}
        /\ \A e \in EngineIds : eng[e] \in Engine /\ e # 0
    BY <1>1 DEF TypeOK, Deferred, EngineIds
  <1>4. Running("cleanup", "waiting") \/ run.at = "git" =>
          run.id = deferred.id /\ engines = 0 /\ deferred.ready /\ Doomed
    BY <1>2 DEF IInv, Parked, Running
  (* The cleanup goes on to Git, or to its wait. *)
  <1>5. ASSUME Parks("git", "idle", deferred.id), deferred.git, UNCHANGED <<eng, lost>>,
               deferred.id # 0 => ~Executing(deferred.id)
        PROVE  IInv'
    <2>1. /\ queue' = queue /\ deferred' = deferred /\ run'.at = "git" /\ run'.id = deferred.id
          /\ engines = 0 /\ Doomed /\ deferred.ready
      BY <1>5 DEF Parks, IInv, Parked
    <2>2. /\ Doing' = Doing /\ Doomed' = Doomed
          /\ \A kind, place : Running(kind, place)' <=> kind = "cleanup" /\ place = "git"
      BY <1>2, <2>1 DEF Doing, Doomed, Running
    <2>3. Parked'
      BY <1>2, <1>5, <2>1, <2>2 DEF IInv, Parked, At, Executing
    <2>4. Phases'
      <3>1. Sound' /\ Awaited'
        BY <1>1, <1>2, <1>5, <2>1 DEF Sound, Awaited, MapLoops
      <3>2. QED
        BY <3>1, PhasesSplit, PTL
    <2>5. Intact' => Held'
      <3> SUFFICES ASSUME Intact' PROVE Held'
        OBVIOUS
      <3>1. Held /\ Loops' = Loops /\ ~MapLoops' /\ engines' = 0
        BY <1>2, <1>5, <2>1 DEF IInv, Intact, Loops, Executing, MapLoops
      <3>2. QED
        BY <1>2, <2>1, <2>2, <3>1 DEF Held, Building, Jumping
    <2>6. QED
      BY <2>3, <2>4, <2>5 DEF IInv
  <1>6. CASE Cleanup
    <2>1. run.at = "queued" /\ deferred.ready /\ UNCHANGED lost
      BY <1>6 DEF Cleanup, Running
    <2>2. CASE deferred.id = 0
      <3>1. CASE CleanedUp
        <4>1. UNCHANGED eng
          BY <1>6, <2>2 DEF Cleanup
        <4>2. Sound' /\ Intact' = Intact /\ Loops' = Loops
          BY <1>1, <2>1, <4>1 DEF Sound, Intact, Loops, Executing
        <4>3. \A e \in Loops' : e # deferred.id
          BY <1>3, <2>2 DEF Loops
        <4>4. QED
          BY <1>2, <2>1, <3>1, <4>1, <4>2, <4>3, CleanedUpKeeps
      <3>2. CASE ~CleanedUp
        BY <1>5, <1>6, <2>1, <2>2, <3>2 DEF Cleanup
      <3>3. QED
        BY <3>1, <3>2
    <2>3. CASE deferred.id # 0
      <3>1. /\ Parks("waiting", "idle", deferred.id)
            /\ eng' = [eng EXCEPT ![deferred.id] = [@ EXCEPT !.aborted = TRUE, !.keeps = FALSE]]
        BY <1>6, <2>3 DEF Cleanup
      <3>2. /\ queue' = queue /\ deferred' = deferred /\ run'.at = "waiting"
            /\ run'.id = deferred.id /\ engines = 0 /\ Doomed
        BY <2>3, <3>1 DEF Parks, IInv, Parked
      <3>3. \A e \in EngineIds : e # deferred.id => eng'[e] = eng[e]
        BY <1>1, <3>1 DEF TypeOK
      <3>4. /\ eng'[deferred.id].phase = eng[deferred.id].phase
            /\ eng'[deferred.id].status = eng[deferred.id].status
            /\ ~eng'[deferred.id].keeps
        <4>1. eng'[deferred.id] = [eng[deferred.id] EXCEPT !.aborted = TRUE, !.keeps = FALSE]
          BY <1>1, <1>3, <2>3, <3>1 DEF TypeOK
        <4>2. QED
          BY <1>3, <2>3, <4>1 DEF Engine
      <3>5. /\ Doing' = Doing /\ Doomed' = Doomed
            /\ \A kind, place : Running(kind, place)' <=> kind = "cleanup" /\ place = "waiting"
        BY <1>2, <3>2 DEF Doing, Doomed, Running
      <3>6. Parked'
        BY <1>2, <2>1, <2>3, <3>2, <3>4, <3>5 DEF IInv, Parked, At
      <3>7. Phases'
        <4>1. Sound'
          BY <1>1, <2>1, <3>3, <3>4 DEF Sound
        <4>2. Awaited'
          BY <1>2, <3>2 DEF Awaited, MapLoops
        <4>3. QED
          BY <4>1, <4>2, PhasesSplit, PTL
      <3>8. Intact' => Held'
        <4> SUFFICES ASSUME Intact' PROVE Held'
          OBVIOUS
        <4>1. Held /\ ~MapLoops' /\ engines' = 0
          BY <1>2, <2>1, <3>2 DEF IInv, Intact, MapLoops
        <4>2. \A e \in Loops' : e \in Loops
          BY <2>1, <3>3, <3>4 DEF Loops, Executing
        <4>3. QED
          BY <1>2, <2>1, <3>2, <3>5, <4>1, <4>2 DEF Held, Building, Jumping
      <3>9. QED
        BY <3>6, <3>7, <3>8 DEF IInv
    <2>4. QED
      BY <2>2, <2>3
  <1>7. CASE CleanupSettles \/ CleanupGit
    <2>1. /\ UNCHANGED <<eng, lost>> /\ run.id = deferred.id /\ engines = 0 /\ deferred.ready
          /\ deferred.id # 0 => ~Executing(deferred.id)
      BY <1>4, <1>7 DEF CleanupSettles, CleanupGit, Running, IInv, Parked
    <2>2. CASE CleanedUp
      <3>1. Sound' /\ Intact' = Intact /\ Loops' = Loops
        BY <1>1, <2>1 DEF Sound, Intact, Loops, Executing
      <3>2. \A e \in Loops : e # deferred.id
        BY <1>3, <2>1 DEF Loops
      <3>3. QED
        BY <1>2, <2>1, <2>2, <3>1, <3>2, CleanedUpKeeps
    <2>3. CASE ~CleanedUp
      BY <1>5, <1>7, <2>1, <2>3 DEF CleanupSettles, CleanupGit
    <2>4. QED
      BY <2>2, <2>3
  <1>8. CASE CleanupTimesOut
    <2>1. /\ UNCHANGED eng /\ run.id = deferred.id /\ engines = 0 /\ deferred.id # 0
          /\ Executing(deferred.id) /\ ~eng[deferred.id].keeps /\ CleanedUp
          /\ Lose(deferred.id, "cleanup") /\ "cleanup" \in Causes \ {"no"}
      BY <1>4, <1>8 DEF CleanupTimesOut, Running, IInv, Parked, Causes
    <2>2. \A e \in EngineIds : Executing(e)' <=> Executing(e)
      BY <2>1 DEF Executing
    <2>3. /\ Intact' => Intact
          /\ \A e \in Loops' : e \in Loops /\ e # deferred.id
      BY <1>1, <1>3, <2>1, <2>2, LosesLemma
    <2>4. \A e \in EngineIds : \/ lost'[e] = lost[e]
                               \/ e = deferred.id /\ lost'[e] = "cleanup"
      BY <1>1, <1>3, <2>1, LoseLemma
    <2>5. Sound'
      BY <1>1, <2>1, <2>4 DEF Sound, Executing
    <2>6. QED
      BY <1>2, <2>1, <2>3, <2>5, CleanedUpKeeps
  <1>9. QED
    BY <1>6, <1>7, <1>8

LEMMA DeletionKeeps ==
  ASSUME IInv, TypeOK', Delete \/ Purge \/ Defer
  PROVE  IInv'
  <1>1. TypeOK /\ Sound /\ Awaited
    BY PhasesSplit DEF IInv
  <1>2. /\ queue # <<>> /\ Head(queue).kind \in {"delete", "purge"} /\ Doing # "cleanup"
        /\ Doing \in {"delete", "purge"} /\ ~Running("stop", "waiting")
        /\ UNCHANGED <<eng, side>>
    BY DEF Delete, Purge, Defer, Running, Doing
  <1>3. ~deferred.ready /\ deferred.id = 0 /\ ~deferred.git
    BY <1>2 DEF IInv, Parked
  (* The row is deleted and the engine taken out of the map. *)
  <1>4. ASSUME Parks("linking", "idle", engines), engines' = 0, row' \in {"deleted", "gone"},
               UNCHANGED lost, run.at # "linking"
        PROVE  IInv'
    <2>1. /\ queue' = queue /\ deferred' = deferred /\ run'.at = "linking" /\ run'.id = engines
          /\ Doomed'
      BY <1>4 DEF Parks, Doomed
    <2>2. /\ Doing' = Doing
          /\ \A kind, place : Running(kind, place)' => place = "linking"
      BY <2>1 DEF Doing, Running
    <2>3. Parked'
      BY <1>2, <1>3, <1>4, <2>1, <2>2 DEF IInv, Parked, At
    <2>4. Phases'
      <3>1. Sound' /\ Awaited'
        BY <1>1, <1>2, <1>4 DEF Sound, Awaited, MapLoops
      <3>2. QED
        BY <3>1, PhasesSplit, PTL
    <2>5. Intact' => Held'
      <3> SUFFICES ASSUME Intact' PROVE Held'
        OBVIOUS
      <3>1. Held /\ Loops' = Loops /\ ~MapLoops'
        BY <1>2, <1>4 DEF IInv, Intact, Loops, Executing, MapLoops
      <3>2. \A e \in Loops : e = engines /\ e # 0
        BY <1>3, <1>4, <3>1 DEF Held, Loops, EngineIds
      <3>3. QED
        BY <1>4, <2>1, <2>2, <3>1, <3>2 DEF Held, Building, Jumping
    <2>6. QED
      BY <2>3, <2>4, <2>5 DEF IInv
  (* It leaves the queue, and tells its slot what to do if it has one. *)
  <1>5. ASSUME NEW cleanup \in Deferred, cleanup.ready, ReturnsWith(cleanup), UNCHANGED engines,
               cleanup.id # 0 \/ cleanup.git => engines = 0 /\ Doomed,
               Doomed' = Doomed, row' = row, Sound',
               Intact' => /\ Intact /\ \A e \in Loops' : e = engines \/ e = deferred'.id
                          /\ engines # 0 => lost' = lost
        PROVE  IInv'
    <2>1. /\ run'.at = "queued" /\ deferred' \in {cleanup, NotReady}
          /\ deferred' = cleanup => queue' # <<>> /\ Head(queue').kind = "cleanup"
      BY <1>1, <1>2, <1>5, ReturnsWithLemma
    <2>2. /\ deferred'.ready => Doing' = "cleanup" /\ deferred' = cleanup
          /\ deferred'.id # 0 \/ deferred'.git => deferred'.ready /\ engines' = 0 /\ Doomed'
      BY <1>5, <2>1 DEF Doing, NotReady
    <2>3. \A kind : \A place : place # "queued" => ~Running(kind, place)'
      BY <2>1 DEF Running
    <2>4. Parked'
      BY <1>2, <2>1, <2>2, <2>3 DEF IInv, Parked, At
    <2>5. MapLoops' = MapLoops
      BY <1>2, <1>5 DEF MapLoops
    <2>6. Phases'
      <3>1. Awaited'
        BY <1>1, <1>2, <1>5, <2>5 DEF Awaited
      <3>2. QED
        BY <1>5, <3>1, PhasesSplit, PTL
    <2>7. Intact' => Held'
      <3> SUFFICES ASSUME Intact' PROVE Held'
        OBVIOUS
      <3>1. Held
        BY <1>5 DEF IInv
      <3>2. engines' # 0 => lost'[engines'] = "no"
        BY <1>5, <3>1 DEF Held
      <3>3. MapLoops' => row' \notin Terminal \cup {"deleted", "gone"}
        BY <1>2, <1>5, <2>5, <3>1 DEF Held
      <3>4. \A e \in Loops' : e = engines' \/ e = deferred'.id
        BY <1>5
      <3>5. QED
        BY <2>3, <3>2, <3>3, <3>4 DEF Held, Building, Jumping
    <2>8. QED
      BY <2>4, <2>6, <2>7 DEF IInv
  <1>6. CASE Delete \/ Purge
    <2>1. run.at # "linking" /\ UNCHANGED lost
      BY <1>6 DEF Delete, Purge, Running
    <2>2. CASE UNCHANGED <<row, engines>> /\ ReturnsWith(NoCleanup)
      <3>1. NoCleanup \in Deferred /\ NoCleanup.ready /\ NoCleanup.id = 0 /\ ~NoCleanup.git
        BY DEF NoCleanup, Deferred
      <3>2. Sound' /\ Intact' = Intact /\ Loops' = Loops /\ Doomed' = Doomed
        BY <1>1, <1>2, <2>1, <2>2 DEF Sound, Intact, Loops, Executing, Doomed
      <3>3. Intact' => \A e \in Loops' : e = engines
        BY <1>3, <2>1, <3>2 DEF IInv, Held, Loops, EngineIds
      <3>4. QED
        BY <1>5, <2>1, <2>2, <3>1, <3>2, <3>3
    <2>3. CASE ~(UNCHANGED <<row, engines>> /\ ReturnsWith(NoCleanup))
      <3>1. Parks("linking", "idle", engines) /\ engines' = 0 /\ row' \in {"deleted", "gone"}
        BY <1>6, <2>3 DEF Delete, Purge
      <3>2. QED
        BY <1>4, <2>1, <3>1
    <2>4. QED
      BY <2>2, <2>3
  <1>7. CASE Defer
    <2>1. /\ run.at = "linking" /\ UNCHANGED <<row, engines>> /\ engines = 0 /\ Doomed
          /\ Lose(IF deferred'.ready THEN 0 ELSE run.id, "refused")
      BY <1>7 DEF Defer, Running, IInv, Parked
    <2>2. PICK git \in BOOLEAN : ReturnsWith([ready |-> TRUE, id |-> run.id, git |-> git])
      BY <1>7 DEF Defer
    <2> DEFINE cleanup == [ready |-> TRUE, id |-> run.id, git |-> git]
    <2>3. /\ cleanup \in Deferred /\ cleanup.ready /\ run.id \in EngineIds \cup {0}
          /\ "refused" \in Causes \ {"no"}
      BY <1>1 DEF TypeOK, Run, Deferred, Causes
    <2>4. deferred' \in {cleanup, NotReady}
      BY <1>1, <1>2, <2>2, <2>3, ReturnsWithLemma
    <2>5. \A e \in EngineIds : Executing(e)' <=> Executing(e)
      BY <1>2 DEF Executing
    <2> DEFINE loser == IF deferred'.ready THEN 0 ELSE run.id
    <2>6. loser \in EngineIds \cup {0} /\ Lose(loser, "refused")
      BY <2>1, <2>3
    <2>7. /\ Intact' => Intact
          /\ \A e \in Loops' : e \in Loops /\ e # loser
      <3> HIDE DEF loser
      <3>1. QED
        BY <1>1, <2>3, <2>5, <2>6, LosesLemma
    <2>8. \A e \in EngineIds : lost'[e] = lost[e] \/ (lost'[e] = "refused" /\ Executing(e))
      <3> HIDE DEF loser
      <3>1. QED
        BY <1>1, <2>3, <2>6, LoseLemma
    <2>9. Sound'
      BY <1>1, <1>2, <2>8 DEF Sound, Executing
    <2>10. Intact' => \A e \in Loops' : e = engines \/ e = deferred'.id
      <3>1. SUFFICES ASSUME Intact', NEW e \in Loops'
                     PROVE  e = deferred'.id
        OBVIOUS
      <3>2. e = run.id /\ e # 0
        BY <1>3, <2>1, <2>7, <3>1 DEF IInv, Held, Loops, EngineIds
      <3>3. deferred'.ready
        BY <2>7, <3>1, <3>2
      <3>4. QED
        BY <2>4, <3>2, <3>3 DEF NotReady
    <2>11. Doomed' = Doomed
      BY <2>1 DEF Doomed
    <2>12. QED
      BY <1>5, <2>1, <2>2, <2>3, <2>7, <2>9, <2>10, <2>11
  <1>8. QED
    BY <1>6, <1>7

(* The places of the operations that are no stop, no deletion and no       *)
(* cleanup, with the map, the loops and what is lost untouched.            *)
LEMMA WaitsUnchanged ==
  ASSUME IInv, TypeOK', queue # <<>>, Doing \notin {"stop", "delete", "purge", "cleanup"},
         UNCHANGED <<engines, eng, side, lost>>, NEW snap, NEW id,
         NEW place \in {"building", "restarting", "checking", "pushing", "finalizing",
                        "disconnecting"},
         Parks(place, snap, id),
         MapLoops => row' \notin Terminal \cup {"deleted", "gone"} \/ row' = row,
         place = "building" => Doing # "start" /\ ~MapLoops /\ row' \notin {"deleted", "gone"},
         place = "restarting" => engines = 0 /\ row' \notin {"deleted", "gone"},
         place = "checking" /\ Doing = "followup" =>
           ~MapLoops /\ row' \notin {"deleted", "gone"} /\ id = engines,
         place \in {"pushing", "finalizing"} => ~MapLoops,
         place = "disconnecting" => Doing = "idle" /\ (engines # 0 => ~Executing(engines))
  PROVE  IInv'
  <1>1. TypeOK /\ Sound /\ Awaited
    BY PhasesSplit DEF IInv
  <1>2. queue' = queue /\ run'.at = place /\ Doing = Head(queue).kind
    BY DEF Parks, Doing
  <1>3. \A kind, at : Running(kind, at)' <=> kind = Doing /\ at = place
    BY <1>2 DEF Running
  <1>4. run.at # "linking" /\ ~Running("stop", "waiting")
    BY DEF IInv, Parked, Running, Doing
  <1>5. Intact => OnlyMap
    BY <1>4, FindsOnlyMap
  <1>6. /\ Sound' /\ Awaited' /\ Intact' = Intact /\ Loops' = Loops /\ MapLoops' = MapLoops
    BY <1>1, <1>4 DEF Sound, Awaited, Intact, Loops, Executing, MapLoops
  <1>7. place \in Places \ {"queued", "linking", "git"}
    BY DEF Places
  <1>8. engines # 0 => (Executing(engines)' <=> Executing(engines))
    BY DEF Executing
  <1>9. Building' => place = "restarting" \/ (place = "building" /\ Doing = "start")
    BY <1>3 DEF Building
  <1>10. ~Doomed' <=> row' \notin {"deleted", "gone"}
    BY DEF Doomed
  <1>11. Jumping("building")' => place = "building"
    BY <1>3 DEF Jumping
  <1>12. Intact' => /\ \A e \in Loops' : e = engines'
                    /\ engines' # 0 => lost'[engines'] = "no"
                    /\ MapLoops' => row' \notin Terminal \cup {"deleted", "gone"}
    BY <1>5, <1>6 DEF OnlyMap
  <1>13. Intact' =>
           /\ Building' => engines' = 0 /\ ~Doomed'
           /\ Jumping("building")' \/ Running("followup", "checking")' => ~MapLoops' /\ ~Doomed'
           /\ Running("followup", "checking")' => engines' \in {0, id}
           /\ Running("push", "pushing")' \/ Running("push", "finalizing")' => ~MapLoops'
           /\ Running("stop", "disconnecting")' \/ Running("complete", "disconnecting")'
                => engines' = 0
           /\ Running("idle", "disconnecting")' /\ engines' # 0 /\ engines' = id
                => ~Executing(engines)'
    BY <1>3, <1>6, <1>8, <1>9, <1>10, <1>11
  <1>14. Doing # "cleanup" /\ side' = side
    OBVIOUS
  <1>15. ~Running("stop", "stopping")' /\ ~Running("stop", "waiting")'
         /\ ~Running("stop", "disconnecting")'
    BY <1>3
  <1>16. QED
    BY <1>6, <1>7, <1>12, <1>13, <1>14, <1>15, ParksKeeps

(* What a status says of the loop in the map. *)
LEMMA LiveLemma ==
  ASSUME IInv, ~Running("stop", "waiting"), engines # 0,
         eng[engines].status \notin {"starting", "running"}
  PROVE  ~MapLoops
  <1>1. Sound /\ Awaited /\ TypeOK
    BY PhasesSplit DEF IInv
  <1>2. QED
    BY <1>1 DEF Sound, Awaited, MapLoops, TypeOK

LEMMA JumpstartKeeps ==
  ASSUME IInv, TypeOK', Jumpstart \/ JumpstartBuilds \/ JumpstartRestarts \/ Revive
  PROVE  IInv'
  <1>1. TypeOK /\ Sound /\ Awaited
    BY PhasesSplit DEF IInv
  <1>2. /\ queue # <<>> /\ Doing \in {"jumpstart", "followup", "revive"}
        /\ Doing \notin {"stop", "delete", "purge", "cleanup"}
    BY DEF Jumpstart, JumpstartBuilds, JumpstartRestarts, Revive, Jumping, Running, Doing
  <1>3. run.at # "linking" /\ ~Running("stop", "waiting")
    BY <1>2 DEF IInv, Parked, Running, Doing
  <1>4. Intact => OnlyMap
    BY <1>2, <1>3, FindsOnlyMap
  <1>5. CASE Jumpstart
    <2>1. UNCHANGED <<engines, eng, side, lost>>
      BY <1>5 DEF Jumpstart
    <2>2. CASE row \in Terminal \cup {"deleted"}
      <3>1. Parks("building", "stopped", 0) /\ row' = "stopped"
        BY <1>5, <2>2 DEF Jumpstart, Written, Terminal
      <3>2. CASE Intact
        <4>1. ~MapLoops
          BY <1>4, <2>2, <3>2 DEF OnlyMap
        <4>2. QED
          BY <1>2, <2>1, <3>1, <4>1, WaitsUnchanged
      <3>3. CASE ~Intact
        <4>1. ~Intact'
          BY <2>1, <3>3 DEF Intact
        <4>2. Sound' /\ Awaited'
          BY <1>1, <1>3, <2>1 DEF Sound, Awaited, MapLoops
        <4>3. \A kind, at : Running(kind, at)' => kind # "stop"
          BY <1>2, <3>1 DEF Running, Parks, Doing
        <4>4. "building" \in Places \ {"queued", "linking", "git"}
          BY DEF Places
        <4>5. QED
          BY <1>2, <2>1, <3>1, <4>1, <4>2, <4>3, <4>4, ParksKeeps
      <3>4. QED
        BY <3>2, <3>3
    <2>3. CASE row \notin Terminal \cup {"deleted"}
      BY <1>2, <1>3, <1>5, <2>1, <2>3, ReturnsUnchanged DEF Jumpstart
    <2>4. QED
      BY <2>2, <2>3
  <1>6. CASE JumpstartBuilds
    <2>1. Returns /\ UNCHANGED side /\ Replaces(engines) /\ Jumping("building")
      BY <1>6 DEF JumpstartBuilds
    <2>2. run.snap \in Statuses /\ engines \in EngineIds \cup {0}
          /\ "settling" \in Causes \ {"no"}
      BY <1>1 DEF TypeOK, Run, Causes
    <2>3. PICK active \in {"no", "starting", "running"} : Builds(run.snap, active)
      BY <1>6 DEF JumpstartBuilds, Starts
    <2> DEFINE e == IF engines # 0 /\ eng[engines].phase = "settle" THEN engines ELSE 0
    <2>4. Lose(e, "settling") /\ e \in EngineIds \cup {0}
      BY <2>1, <2>2 DEF Replaces
    <2>5. /\ \A d \in EngineIds : lost'[d] = lost[d] \/ (lost'[d] = "settling" /\ Executing(d))
          /\ e # 0 /\ Executing(e) => lost'[e] # "no"
          /\ \A d \in EngineIds : lost[d] # "no" => lost'[d] = lost[d]
      <3> HIDE DEF e
      <3>1. QED
        BY <1>1, <2>2, <2>4, LoseLemma
    <2>6. Intact' => ~Doomed /\ \A d \in EngineIds : ~(Executing(d) /\ lost'[d] = "no")
      <3> SUFFICES ASSUME Intact'
                   PROVE  ~Doomed /\ \A d \in EngineIds : ~(Executing(d) /\ lost'[d] = "no")
        OBVIOUS
      <3>1. Intact
        BY <2>5 DEF Intact
      <3>2. OnlyMap /\ ~MapLoops /\ ~Doomed
        BY <1>4, <2>1, <3>1 DEF IInv, Held
      <3>3. ASSUME NEW d \in EngineIds, Executing(d), lost'[d] = "no"
            PROVE  FALSE
        <4>1. d \in Loops
          BY <2>5, <3>3 DEF Loops
        <4>2. d = engines /\ engines # 0
          BY <3>2, <4>1 DEF OnlyMap, EngineIds
        <4>3. eng[engines].phase = "settle"
          BY <3>2, <3>3, <4>2 DEF Executing, MapLoops
        <4>4. QED
          BY <2>5, <3>3, <4>2, <4>3
      <3>4. QED
        BY <3>2, <3>3
    <2>7. Doing # "cleanup"
      BY <1>2
    <2>8. QED
      BY <1>2, <2>1, <2>2, <2>3, <2>5, <2>6, <2>7, BuildsKeeps
  <1>7. CASE JumpstartRestarts
    <2>1. UNCHANGED <<row, engines, eng, side, lost>>
      BY <1>7 DEF JumpstartRestarts
    <2>2. CASE Returns
      BY <1>2, <1>3, <2>1, <2>2, ReturnsUnchanged
    <2>3. CASE ~Returns
      <3>1. Parks("restarting", row, 0) /\ engines = 0 /\ row \notin {"deleted", "gone"}
        BY <1>7, <2>3 DEF JumpstartRestarts
      <3>2. QED
        BY <1>2, <2>1, <3>1, WaitsUnchanged
    <2>4. QED
      BY <2>2, <2>3
  <1>8. CASE Revive
    <2>1. /\ Returns /\ UNCHANGED <<engines, eng, side, lost>>
          /\ row' = row \/ row = "deleted"
      BY <1>8 DEF Revive
    <2>2. Sound' /\ Intact' = Intact /\ Loops' = Loops /\ MapLoops' = MapLoops
      BY <1>1, <2>1 DEF Sound, Intact, Loops, Executing, MapLoops
    <2>3. MapLoops' => eng'[engines'].status # "stopped"
      BY <1>1, <1>3, <2>1, <2>2 DEF Awaited
    <2>4. Intact' => OnlyMap'
      BY <1>4, <2>1, <2>2 DEF OnlyMap
    <2>5. QED
      BY <1>2, <2>1, <2>2, <2>3, <2>4, ReturnsKeeps
  <1>9. QED
    BY <1>5, <1>6, <1>7, <1>8

(* The map is cleared of a loop that is over or is lost by it. *)
LEMMA ReplacesLemma ==
  ASSUME IInv, Replaces(engines), UNCHANGED eng, Doing # "cleanup", run.at # "linking",
         Intact => ~MapLoops
  PROVE  /\ Sound'
         /\ Intact' => Intact /\ \A e \in Loops' : e \in Loops /\ FALSE
  <1>1. TypeOK /\ Sound
    BY PhasesSplit DEF IInv
  <1>2. engines \in EngineIds \cup {0} /\ "settling" \in Causes \ {"no"}
    BY <1>1 DEF TypeOK, Causes
  <1> DEFINE e == IF engines # 0 /\ eng[engines].phase = "settle" THEN engines ELSE 0
  <1>3. Lose(e, "settling") /\ e \in EngineIds \cup {0}
    BY <1>2 DEF Replaces
  <1>4. \A d \in EngineIds : Executing(d)' <=> Executing(d)
    BY DEF Executing
  <1>5. /\ \A d \in EngineIds : lost'[d] = lost[d] \/ (lost'[d] = "settling" /\ Executing(d))
        /\ Intact' => Intact
        /\ \A d \in Loops' : d \in Loops /\ d # e
    <2> HIDE DEF e
    <2>1. QED
      BY <1>1, <1>2, <1>3, <1>4, LoseLemma, LosesLemma
  <1>6. Sound'
    BY <1>1, <1>5 DEF Sound, Executing
  <1>7. Intact' => \A d \in Loops' : FALSE
    <2>1. SUFFICES ASSUME Intact', NEW d \in Loops' PROVE FALSE
      OBVIOUS
    <2>2. d = engines /\ engines # 0 /\ ~MapLoops /\ Executing(d)
      BY <1>5, <2>1 DEF IInv, Held, Parked, Loops, EngineIds
    <2>3. QED
      BY <1>5, <2>1, <2>2 DEF Executing, MapLoops
  <1>8. QED
    BY <1>5, <1>6, <1>7

LEMMA FollowUpKeeps ==
  ASSUME IInv, TypeOK', FollowUp \/ FollowUpDrops \/ FollowUpRuns
  PROVE  IInv'
  <1>1. TypeOK /\ Sound /\ Awaited
    BY PhasesSplit DEF IInv
  <1>2. /\ queue # <<>> /\ Head(queue).kind = "followup" /\ Doing = "followup"
        /\ run.at # "linking" /\ ~Running("stop", "waiting") /\ UNCHANGED side
    BY DEF FollowUp, FollowUpDrops, FollowUpRuns, Running, Doing
  <1>3. Intact => Held /\ OnlyMap
    BY <1>2, FindsOnlyMap DEF IInv
  <1>4. CASE FollowUp
    <2>1. UNCHANGED <<row, engines, eng, lost>> /\ row \in {"completed", "pushed"}
      BY <1>4 DEF FollowUp
    <2>2. CASE Returns
      BY <1>2, <2>1, <2>2, ReturnsUnchanged
    <2>3. CASE ~Returns
      <3>1. /\ Parks("checking", row, engines)
            /\ engines # 0 => eng[engines].status \notin {"starting", "running"}
        BY <1>4, <2>3 DEF FollowUp
      <3>2. ~MapLoops
        BY <1>2, <3>1, LiveLemma DEF MapLoops
      <3>3. QED
        BY <1>2, <2>1, <3>1, <3>2, WaitsUnchanged
    <2>4. QED
      BY <2>2, <2>3
  <1>5. CASE FollowUpDrops
    <2>1. /\ UNCHANGED <<row, eng>> /\ Parks("reconnecting", run.snap, 0)
          /\ engines' = IF run.id # 0 THEN 0 ELSE engines
          /\ IF run.id # 0 THEN Replaces(engines) ELSE UNCHANGED lost
          /\ Running("followup", "checking")
      BY <1>5 DEF FollowUpDrops
    <2>2. Intact => ~MapLoops /\ ~Doomed /\ engines \in {0, run.id}
      BY <1>3, <2>1 DEF Held
    <2>3. Sound' /\ (Intact' => Intact /\ engines' = 0 /\ \A e \in Loops' : FALSE)
      <3>1. CASE run.id # 0
        BY <1>2, <2>1, <2>2, <3>1, ReplacesLemma
      <3>2. CASE run.id = 0
        <4>1. Sound' /\ Intact' = Intact /\ Loops' = Loops
          BY <1>1, <2>1, <3>2 DEF Sound, Intact, Loops, Executing
        <4>2. Intact => engines = 0 /\ engines' = 0
          BY <2>1, <2>2, <3>2
        <4>3. Intact => \A e \in Loops : FALSE
          BY <1>3, <4>2 DEF OnlyMap, Loops, EngineIds
        <4>4. QED
          BY <4>1, <4>2, <4>3
      <3>3. QED
        BY <3>1, <3>2
    <2>4. MapLoops' => MapLoops /\ engines' = engines
      BY <2>1 DEF MapLoops
    <2>5. Awaited'
      BY <1>1, <1>2, <2>1, <2>4 DEF Awaited
    <2>6. \A kind, at : Running(kind, at)' <=> kind = "followup" /\ at = "reconnecting"
      BY <1>2, <2>1 DEF Running, Parks
    <2>7. "reconnecting" \in Places \ {"queued", "linking", "git"} /\ Doing # "cleanup"
      BY <1>2 DEF Places
    <2>8. ~Jumping("building")' /\ Doomed' = Doomed /\ (engines' = 0 => ~MapLoops')
      BY <2>1, <2>6 DEF Jumping, Doomed, MapLoops
    <2>9. QED
      BY <1>2, <2>1, <2>2, <2>3, <2>5, <2>6, <2>7, <2>8, ParksKeeps
  <1>6. CASE FollowUpRuns
    <2>1. /\ Builds(run.snap, "running") /\ Returns /\ UNCHANGED <<side, lost>>
          /\ Running("followup", "reconnecting")
      BY <1>6 DEF FollowUpRuns
    <2>2. run.snap \in Statuses
      BY <1>1 DEF TypeOK, Run
    <2>3. Intact' => ~Doomed /\ \A d \in EngineIds : ~(Executing(d) /\ lost'[d] = "no")
      <3>1. Intact' = Intact
        BY <2>1 DEF Intact
      <3>2. QED
        BY <1>3, <2>1, <3>1 DEF Held, OnlyMap, Loops, EngineIds, Building
    <2>4. QED
      BY <1>2, <2>1, <2>2, <2>3, BuildsKeeps
  <1>7. QED
    BY <1>4, <1>5, <1>6

LEMMA PushKeeps ==
  ASSUME IInv, TypeOK', Push \/ PushWrites \/ PushFinishes
  PROVE  IInv'
  <1>1. TypeOK /\ Sound /\ Awaited
    BY PhasesSplit DEF IInv
  <1>2. /\ queue # <<>> /\ Head(queue).kind = "push" /\ Doing = "push"
        /\ run.at # "linking" /\ ~Running("stop", "waiting") /\ UNCHANGED <<eng, side>>
    BY DEF Push, PushWrites, PushFinishes, Running, Doing
  <1>3. CASE Push
    <2>1. UNCHANGED <<row, engines, lost>>
      BY <1>3 DEF Push
    <2>2. CASE Returns
      BY <1>2, <2>1, <2>2, ReturnsUnchanged
    <2>3. CASE ~Returns
      <3>1. Parks("pushing", Live, 0) /\ Live \in {"completed", "max_iterations"}
        BY <1>3, <2>3 DEF Push
      <3>2. ~MapLoops
        BY <1>2, <3>1, LiveLemma DEF MapLoops, Live
      <3>3. QED
        BY <1>2, <2>1, <3>1, <3>2, WaitsUnchanged
    <2>4. QED
      BY <2>2, <2>3
  <1>4. CASE PushWrites
    <2>1. /\ UNCHANGED <<engines, lost>> /\ Parks("finalizing", "pushed", 0)
          /\ row' = Written("pushed", FALSE) /\ Running("push", "pushing")
      BY <1>4 DEF PushWrites
    <2>2. row' = row \/ row' \notin Terminal \cup {"deleted", "gone"}
      BY <2>1 DEF Written, Terminal
    <2>3. CASE Intact
      <3>1. ~MapLoops
        BY <2>1, <2>3 DEF IInv, Held
      <3>2. QED
        BY <1>2, <2>1, <2>2, <3>1, WaitsUnchanged
    <2>4. CASE ~Intact
      <3>1. ~Intact'
        BY <2>1, <2>4 DEF Intact
      <3>2. Sound' /\ Awaited'
        BY <1>1, <1>2, <2>1 DEF Sound, Awaited, MapLoops
      <3>3. \A kind, at : Running(kind, at)' => kind # "stop"
        BY <1>2, <2>1 DEF Running, Parks
      <3>4. "finalizing" \in Places \ {"queued", "linking", "git"} /\ Doing # "cleanup"
        BY <1>2 DEF Places
      <3>5. QED
        BY <1>2, <2>1, <3>1, <3>2, <3>3, <3>4, ParksKeeps
    <2>5. QED
      BY <2>3, <2>4
  <1>5. CASE PushFinishes
    <2>1. /\ UNCHANGED row /\ engines' = 0 /\ Replaces(engines) /\ Returns
          /\ Running("push", "finalizing")
      BY <1>5 DEF PushFinishes
    <2>2. Intact => ~MapLoops
      BY <2>1 DEF IInv, Held
    <2>3. Sound' /\ (Intact' => \A e \in Loops' : FALSE)
      BY <1>2, <2>1, <2>2, ReplacesLemma
    <2>4. ~MapLoops'
      BY <2>1 DEF MapLoops
    <2>5. Intact' => OnlyMap'
      BY <2>1, <2>3, <2>4 DEF OnlyMap
    <2>6. QED
      BY <1>2, <2>1, <2>3, <2>4, <2>5, ReturnsKeeps
  <1>6. QED
    BY <1>3, <1>4, <1>5

LEMMA CompleteKeeps ==
  ASSUME IInv, TypeOK', ManualComplete \/ ManualCompleteApplies \/ ManualCompleteRecords
  PROVE  IInv'
  <1>1. TypeOK /\ Sound /\ Awaited
    BY PhasesSplit DEF IInv
  <1>2. /\ queue # <<>> /\ Head(queue).kind = "complete" /\ Doing = "complete"
        /\ run.at # "linking" /\ ~Running("stop", "waiting") /\ UNCHANGED <<side, lost>>
    BY DEF ManualComplete, ManualCompleteApplies, ManualCompleteRecords, Running, Doing
  <1>3. Intact => Held /\ OnlyMap
    BY <1>2, FindsOnlyMap DEF IInv
  <1>4. CASE ManualComplete
    <2>1. UNCHANGED <<row, engines, eng>>
      BY <1>4 DEF ManualComplete
    <2>2. CASE Returns
      BY <1>2, <2>1, <2>2, ReturnsUnchanged
    <2>3. CASE ~Returns
      <3>1. Parks("checking", "idle", 0)
        BY <1>4, <2>3 DEF ManualComplete
      <3>2. QED
        BY <1>2, <2>1, <3>1, WaitsUnchanged
    <2>4. QED
      BY <2>2, <2>3
  (* A row that is completed with the map empty. *)
  <1>5. ASSUME Returns, UNCHANGED <<engines, eng>>, Intact => engines = 0
        PROVE  IInv'
    <2>1. Sound' /\ Intact' = Intact /\ Loops' = Loops /\ MapLoops' = MapLoops
      BY <1>1, <1>2, <1>5 DEF Sound, Intact, Loops, Executing, MapLoops
    <2>2. MapLoops' => eng'[engines'].status # "stopped"
      BY <1>1, <1>2, <1>5, <2>1 DEF Awaited
    <2>3. Intact' => OnlyMap'
      BY <1>3, <1>5, <2>1 DEF OnlyMap, MapLoops
    <2>4. QED
      BY <1>2, <1>5, <2>1, <2>2, <2>3, ReturnsKeeps
  <1>6. CASE ManualCompleteApplies
    <2>1. CASE Live \notin {"stopped", "failed"}
      BY <1>2, <1>6, <2>1, ReturnsUnchanged DEF ManualCompleteApplies
    <2>2. CASE Live \in {"stopped", "failed"} /\ engines = 0
      BY <1>5, <1>6, <2>2 DEF ManualCompleteApplies
    <2>3. CASE Live \in {"stopped", "failed"} /\ engines # 0
      <3>1. /\ eng' = [eng EXCEPT ![engines].status = "completed"] /\ engines' = 0
            /\ Parks("disconnecting", "idle", engines) /\ UNCHANGED row
        BY <1>6, <2>3 DEF ManualCompleteApplies
      <3>2. engines \in EngineIds /\ \A e \in EngineIds : eng[e] \in Engine
        BY <1>1, <2>3 DEF TypeOK
      <3>3. eng[engines].status \in {"stopped", "failed"}
        BY <2>3 DEF Live
      <3>4. ~Executing(engines)
        BY <1>1, <1>2, <2>3, <3>2, <3>3, LiveLemma DEF Sound, Executing, MapLoops
      <3>5. \A e \in EngineIds : /\ eng'[e].phase = eng[e].phase
                                 /\ eng'[e].keeps = eng[e].keeps
                                 /\ e # engines => eng'[e] = eng[e]
        BY <1>1, <3>1, <3>2 DEF TypeOK, Engine
      <3>6. Sound' /\ Intact' = Intact /\ Loops' = Loops
        BY <1>1, <1>2, <3>2, <3>4, <3>5 DEF Sound, Intact, Loops, Executing
      <3>7. ~MapLoops' /\ Awaited'
        BY <3>1 DEF MapLoops, Awaited
      <3>8. Intact' => \A e \in Loops' : FALSE
        BY <1>3, <3>4, <3>6 DEF OnlyMap, Loops
      <3>9. \A kind, at : Running(kind, at)' <=> kind = "complete" /\ at = "disconnecting"
        BY <1>2, <3>1 DEF Running, Parks
      <3>10. "disconnecting" \in Places \ {"queued", "linking", "git"} /\ Doing # "cleanup"
        BY <1>2 DEF Places
      <3>11. ~Building' /\ ~Jumping("building")'
        BY <3>9 DEF Building, Jumping
      <3>12. QED
        BY <1>2, <3>1, <3>6, <3>7, <3>8, <3>9, <3>10, <3>11, ParksKeeps
    <2>4. QED
      BY <2>1, <2>2, <2>3
  <1>7. CASE ManualCompleteRecords
    <2>1. Returns /\ UNCHANGED <<engines, eng>> /\ Running("complete", "disconnecting")
      BY <1>7 DEF ManualCompleteRecords
    <2>2. QED
      BY <1>3, <1>5, <2>1 DEF Held
  <1>8. QED
    BY <1>4, <1>6, <1>7

LEMMA IdleKeeps ==
  ASSUME IInv, TypeOK', OpenTerminal \/ IdleCheck \/ IdleRetires
  PROVE  IInv'
  <1>1. TypeOK /\ Sound /\ Awaited
    BY PhasesSplit DEF IInv
  <1>2. /\ queue # <<>> /\ Head(queue).kind \in {"terminal", "idle"}
        /\ Doing \in {"terminal", "idle"}
        /\ run.at # "linking" /\ ~Running("stop", "waiting") /\ UNCHANGED <<row, eng, side, lost>>
    BY DEF OpenTerminal, IdleCheck, IdleRetires, Running, Doing
  <1>3. Intact => Held /\ OnlyMap
    BY <1>2, FindsOnlyMap DEF IInv
  <1>4. CASE OpenTerminal
    BY <1>2, <1>4, ReturnsUnchanged DEF OpenTerminal
  <1>5. CASE IdleCheck
    <2>1. UNCHANGED engines /\ Doing = "idle"
      BY <1>5 DEF IdleCheck, Running, Doing
    <2>2. CASE Returns
      BY <1>2, <2>1, <2>2, ReturnsUnchanged
    <2>3. CASE ~Returns
      <3>1. Parks("disconnecting", "idle", engines) /\ ~Executing(engines)
        BY <1>5, <2>3 DEF IdleCheck
      <3>2. QED
        BY <1>2, <2>1, <3>1, WaitsUnchanged
    <2>4. QED
      BY <2>2, <2>3
  <1>6. CASE IdleRetires
    <2>1. /\ Running("idle", "disconnecting") /\ Returns
          /\ engines' = engines \/ (engines' = 0 /\ engines = run.id)
      BY <1>6 DEF IdleRetires
    <2>2. Sound' /\ Intact' = Intact /\ Loops' = Loops
      BY <1>1, <1>2 DEF Sound, Intact, Loops, Executing
    <2>3. MapLoops' => MapLoops /\ engines' = engines
      BY <1>2, <2>1 DEF MapLoops
    <2>4. MapLoops' => eng'[engines'].status # "stopped"
      BY <1>1, <1>2, <2>3 DEF Awaited
    <2>5. Intact => \A e \in Loops : e = engines'
      <3>1. SUFFICES ASSUME Intact, NEW e \in Loops, engines' # engines
                     PROVE  FALSE
        BY <1>3 DEF OnlyMap
      <3>2. e = engines /\ engines # 0 /\ engines = run.id /\ Executing(engines)
        BY <1>3, <2>1, <3>1 DEF OnlyMap, Loops, EngineIds
      <3>3. QED
        BY <1>3, <2>1, <3>1, <3>2 DEF Held
    <2>6. Intact' => OnlyMap'
      BY <1>2, <1>3, <2>1, <2>2, <2>3, <2>5 DEF OnlyMap
    <2>7. QED
      BY <1>2, <2>1, <2>2, <2>4, <2>6, ReturnsKeeps
  <1>7. QED
    BY <1>4, <1>5, <1>6

-----------------------------------------------------------------------------
(* The invariant, and what follows from it.                                *)

LEMMA OperationKeeps ==
  ASSUME IInv, Operation
  PROVE  IInv'
  <1>1. TypeOK'
    BY OperationTyped DEF IInv
  <1>2. QED
    BY <1>1, StartKeeps, StopKeeps, DeletionKeeps, CleanupKeeps, JumpstartKeeps, FollowUpKeeps,
       PushKeeps, CompleteKeeps, IdleKeeps
       DEF Operation

LEMMA InitInvariant == Init => IInv
  <1> SUFFICES ASSUME Init PROVE IInv
    OBVIOUS
  <1>1. Unborn \in Engine /\ Queued \in Run /\ NoSide \in Side /\ NotReady \in Deferred
        /\ "idle" \in Rows /\ "no" \in Causes
    BY DEF Unborn, Engine, Queued, Run, NoSide, Side, NotReady, Deferred, Rows, Statuses,
           Places, Causes
  <1>2. TypeOK
    BY <1>1, LifecycleBounds DEF Init, TypeOK
  <1>3. \A e \in EngineIds : eng[e].phase = "unborn" /\ lost[e] = "no"
    BY DEF Init, Unborn
  <1>4. Parked
    BY DEF Init, Parked, Running, At, Queued, NoSide, NotReady
  <1>5. Phases
    BY <1>3 DEF Phases
  <1>6. Held
    BY <1>3 DEF Init, Held, Loops, Executing, MapLoops, Building, Jumping, Running
  <1>7. QED
    BY <1>2, <1>4, <1>5, <1>6 DEF IInv

LEMMA NextInvariant ==
  IInv /\ [Next]_vars => IInv'
  <1> SUFFICES ASSUME IInv, [Next]_vars PROVE IInv'
    OBVIOUS
  <1>1. CASE Ask \/ AskIdle
    BY <1>1, AskKeeps
  <1>2. CASE Operation
    BY <1>2, OperationKeeps
  <1>3. CASE Merge \/ Reset \/ SideStep
    BY <1>3, SideKeeps DEF SideAction
  <1>4. CASE \E e \in EngineIds : EngineStep(e)
    BY <1>4, EngineStepKeeps
  <1>5. CASE Crash
    BY <1>5, CrashKeeps
  <1>6. CASE UNCHANGED vars
    BY <1>6 DEF vars, bounds, IInv, TypeOK, Parked, Phases, Held, Doing, Doomed, MapLoops, Building,
                Jumping, Running, At, Intact, Loops, Executing
  <1>7. QED
    BY <1>1, <1>2, <1>3, <1>4, <1>5, <1>6 DEF Next

LEMMA Invariance == Spec => []IInv
  BY InitInvariant, NextInvariant, PTL DEF Spec

(* The state of the queue, the map, the engines and the row is well typed. *)
THEOREM TypeCorrect == Spec => []TypeOK
  <1>1. IInv => TypeOK
    BY DEF IInv
  <1>2. QED
    BY <1>1, Invariance, PTL

(* Every loop that has not been lost is the engine of the map or in the    *)
(* hands of a deletion.                                                    *)
THEOREM LoopsAreReachable == Spec => []LoopIsReachable
  <1>1. IInv => LoopIsReachable
    BY DEF IInv, Held, LoopIsReachable
  <1>2. QED
    BY <1>1, Invariance, PTL

(* The worktree has one writer: a deletion that has a loop leaves the map  *)
(* empty until that loop has ended.                                        *)
THEOREM OneLoop == Spec => []SingleLoop
  <1>1. IInv => SingleLoop
    <2> SUFFICES ASSUME IInv, Intact, NEW d \in Loops, NEW e \in Loops
                 PROVE  d = e
      BY DEF SingleLoop
    <2>1. d # 0 /\ e # 0
      BY DEF Loops, EngineIds
    <2>2. /\ deferred.id # 0 => engines = 0 /\ deferred.ready
          /\ run.at = "linking" => engines = 0 /\ ~deferred.ready
      BY DEF IInv, Parked
    <2>3. QED
      BY <2>1, <2>2 DEF IInv, Held
  <1>2. QED
    BY <1>1, Invariance, PTL

(* Git is cleaned up under no loop, the deleted task's least of all.       *)
THEOREM CleanupUndisturbed == Spec => []CleanupIsAlone
  <1>1. IInv => CleanupIsAlone
    <2> SUFFICES ASSUME IInv, run.at = "git"
                 PROVE  /\ Intact => Loops = {}
                        /\ run.id # 0 => ~Executing(run.id)
      BY DEF CleanupIsAlone
    <2>1. /\ engines = 0 /\ run.id = deferred.id /\ (run.id # 0 => ~Executing(run.id))
      BY DEF IInv, Parked
    <2>2. Intact => \A e \in Loops : FALSE
      BY <2>1 DEF IInv, Held, Loops, EngineIds
    <2>3. QED
      BY <2>1, <2>2
  <1>2. QED
    BY <1>1, Invariance, PTL

-----------------------------------------------------------------------------
(* An active row has a loop.                                               *)

Stopping ==
  Running("stop", "stopping") \/ Running("stop", "waiting") \/ Running("stop", "disconnecting")

Active == row \in {"starting", "running"}

(* While no engine has been lost, the loop of the map may write its row; a *)
(* loop that was aborted there is being stopped or reset, and until that   *)
(* is done the row may still say it runs.                                  *)
Worked ==
  /\ engines # 0 /\ Executing(engines) => eng[engines].keeps
  /\ MapLoops /\ eng[engines].aborted =>
       side.kind = "reset" \/ Running("stop", "stopping") \/ Running("stop", "waiting")
  /\ Running("stop", "stopping") \/ Running("stop", "waiting") => lost[run.id] = "no"
  /\ Stopping => eng[run.id].aborted
  /\ Running("stop", "waiting") \/ Running("stop", "disconnecting") =>
       eng[run.id].status \in {"stopped", "completed"}
  /\ crashes = 0 /\ Active =>
       \/ MapLoops \/ side.kind = "reset"
       \/ Stopping /\ eng[run.id].status \in {"starting", "running", "stopped", "completed"}

(* Most operations at most empty the map of an engine that is at rest.     *)
LEMMA QuietlyWorks ==
  ASSUME IInv, Worked, Doing # "stop", Doing' # "stop" \/ run'.at = "queued",
         UNCHANGED <<side, crashes>>, engines' \in {engines, 0},
         engines' # 0 => eng'[engines] = eng[engines],
         engines' = 0 => ~MapLoops \/ ~Active',
         Active' => Active
  PROVE  Worked'
  <1>1. ~Stopping /\ ~Running("stop", "stopping") /\ ~Running("stop", "waiting")
    BY DEF Stopping, Running, Doing
  <1>2. ~Stopping' /\ ~Running("stop", "stopping")' /\ ~Running("stop", "waiting")'
        /\ ~Running("stop", "disconnecting")'
    BY DEF Stopping, Running, Doing
  <1>3. engines' # 0 => engines' = engines /\ (Executing(engines)' <=> Executing(engines))
    BY DEF Executing
  <1>4. MapLoops' => MapLoops
    BY <1>3 DEF MapLoops
  <1>5. MapLoops /\ engines' # 0 => MapLoops'
    BY <1>3 DEF MapLoops
  <1>6. engines' # 0 /\ Executing(engines)' => eng'[engines'].keeps
    BY <1>3 DEF Worked
  <1>7. MapLoops' /\ eng'[engines'].aborted => side'.kind = "reset"
    <2>1. SUFFICES ASSUME MapLoops', eng'[engines'].aborted PROVE side.kind = "reset"
      OBVIOUS
    <2>2. engines' # 0
      BY <2>1 DEF MapLoops
    <2>3. MapLoops /\ eng[engines].aborted
      BY <1>3, <1>4, <2>1, <2>2
    <2>4. QED
      BY <1>1, <2>3 DEF Worked
  <1>8. crashes' = 0 /\ Active' => MapLoops' \/ side'.kind = "reset"
    BY <1>1, <1>5 DEF Worked
  <1>9. QED
    BY <1>2, <1>6, <1>7, <1>8 DEF Worked

(* A new engine. *)
LEMMA BuildsWork ==
  ASSUME IInv, Worked, Doing # "stop", run'.at = "queued", UNCHANGED <<side, crashes>>,
         NEW st, NEW active \in {"no", "starting", "running"}, Builds(st, active),
         ~MapLoops
  PROVE  Worked'
  <1>1. TypeOK
    BY DEF IInv
  <1>2. PICK e \in EngineIds :
          /\ eng' = [eng EXCEPT ![e] = [phase |-> IF active # "no" THEN "loop" ELSE "idle",
                                        status |-> IF active # "no" THEN active ELSE st,
                                        aborted |-> FALSE, keeps |-> TRUE]]
          /\ row' = IF active # "no" THEN Written(active, FALSE) ELSE row
          /\ engines' = e
    BY DEF Builds
  <1>3. /\ eng'[engines'].phase = IF active # "no" THEN "loop" ELSE "idle"
        /\ ~eng'[engines'].aborted /\ eng'[engines'].keeps /\ engines' # 0
    BY <1>1, <1>2 DEF TypeOK, EngineIds
  <1>4. ~Stopping /\ ~Stopping' /\ ~Running("stop", "stopping")' /\ ~Running("stop", "waiting")'
        /\ ~Running("stop", "disconnecting")'
    BY DEF Stopping, Running, Doing
  <1>5. active # "no" => MapLoops'
    BY <1>3 DEF MapLoops
  <1>6. active = "no" => (Active' <=> Active)
    BY <1>2 DEF Active
  <1>7. QED
    BY <1>3, <1>4, <1>5, <1>6 DEF Worked

LEMMA QueueWorks ==
  ASSUME IInv, Operation, Intact, Worked, Intact', Doing # "stop"
  PROVE  Worked'
  <1>1. TypeOK /\ Held
    BY DEF IInv
  <1>2. /\ ~Stop /\ ~StopMarks /\ ~StopSettles /\ ~StopTimesOut /\ ~StopRecords
        /\ queue # <<>>
    BY DEF Stop, StopMarks, StopSettles, StopTimesOut, StopRecords, Running, Doing, Operation,
           StartLoad, StartBuild, Fail, Starting, Delete, Purge, Defer, Cleanup, CleanupSettles,
           CleanupTimesOut, CleanupGit, Jumpstart, Jumping, JumpstartBuilds, JumpstartRestarts,
           Revive, FollowUp, FollowUpDrops, FollowUpRuns, Push, PushWrites, PushFinishes,
           ManualComplete, ManualCompleteApplies, ManualCompleteRecords, OpenTerminal,
           IdleCheck, IdleRetires
  <1>3. \A place, snap, id : Parks(place, snap, id) => Doing' # "stop"
    BY DEF Parks, Doing
  <1>4. Returns => run'.at = "queued"
    BY DEF Returns, Queued
  <1>5. \A cleanup : ReturnsWith(cleanup) => run'.at = "queued"
    BY DEF ReturnsWith, Queued
  <1>6. CleanedUp => run'.at = "queued"
    BY DEF CleanedUp, Queued
  <1> DEFINE Leaves == Doing' # "stop" \/ run'.at = "queued"
  <1>7. CASE StartLoad \/ Fail \/ JumpstartRestarts \/ FollowUp \/ Push \/ ManualComplete
             \/ OpenTerminal \/ IdleCheck
    <2>1. UNCHANGED <<row, engines, eng, side, crashes>> /\ Leaves
      BY <1>3, <1>4, <1>7 DEF StartLoad, Fail, JumpstartRestarts, FollowUp, Push, ManualComplete,
           OpenTerminal, IdleCheck, bounds
    <2>2. (Active' <=> Active) /\ (engines = 0 => ~MapLoops)
      BY <2>1 DEF Active, MapLoops
    <2>3. QED
      BY <2>1, <2>2, QuietlyWorks
  <1>8. CASE Delete \/ Purge \/ Defer
    <2>1. /\ UNCHANGED <<eng, side, crashes>> /\ engines' \in {engines, 0}
          /\ row' \in {row, "deleted", "gone"} /\ Leaves
          /\ engines' = 0 => engines = 0 \/ row' \in {"deleted", "gone"}
      BY <1>3, <1>5, <1>8 DEF Delete, Purge, Defer, bounds
    <2>2. (Active' => Active) /\ (engines' = 0 => ~MapLoops \/ ~Active')
      BY <2>1 DEF Active, MapLoops
    <2>3. QED
      BY <2>1, <2>2, QuietlyWorks
  <1>9. CASE Cleanup \/ CleanupSettles \/ CleanupTimesOut \/ CleanupGit
    <2>1. /\ UNCHANGED <<row, engines, side, crashes>> /\ Leaves
          /\ eng' = eng \/ deferred.id # 0
      BY <1>3, <1>6, <1>9 DEF Cleanup, CleanupSettles, CleanupTimesOut, CleanupGit, bounds
    <2>2. engines # 0 => eng' = eng
      BY <2>1 DEF IInv, Parked
    <2>3. (Active' <=> Active) /\ (engines = 0 => ~MapLoops)
      BY <2>1 DEF Active, MapLoops
    <2>4. QED
      BY <2>1, <2>2, <2>3, QuietlyWorks
  <1>10. CASE Jumpstart \/ Revive
    <2>1. /\ UNCHANGED <<engines, eng, side, crashes>> /\ Leaves
          /\ row' = row \/ row' = "stopped"
      BY <1>3, <1>4, <1>10 DEF Jumpstart, Revive, Written, bounds
    <2>2. (Active' => Active) /\ (engines = 0 => ~MapLoops)
      BY <2>1 DEF Active, MapLoops
    <2>3. QED
      BY <2>1, <2>2, QuietlyWorks
  <1>11. CASE FollowUpDrops \/ PushWrites \/ PushFinishes
    <2>1. ~MapLoops
      BY <1>1, <1>11 DEF Held, FollowUpDrops, PushWrites, PushFinishes
    <2>2. /\ UNCHANGED <<eng, side, crashes>> /\ engines' \in {engines, 0} /\ Leaves
          /\ row' = row \/ row' = "pushed"
      BY <1>3, <1>4, <1>11 DEF FollowUpDrops, PushWrites, PushFinishes, Written, bounds
    <2>3. Active' => Active
      BY <2>2 DEF Active
    <2>4. QED
      BY <2>1, <2>2, <2>3, QuietlyWorks
  <1>12. CASE ManualCompleteApplies \/ ManualCompleteRecords
    <2>1. /\ UNCHANGED <<side, crashes>> /\ engines' \in {engines, 0} /\ Leaves
          /\ row' = row \/ row' = "completed"
          /\ eng' = eng \/ engines' = 0
      BY <1>3, <1>4, <1>12 DEF ManualCompleteApplies, ManualCompleteRecords, Written, bounds
    <2>2. engines' = 0 => ~MapLoops
      <3>1. CASE engines = 0
        BY <3>1 DEF MapLoops
      <3>2. CASE engines # 0 /\ engines' = 0
        <4>1. eng[engines].status \in {"stopped", "failed"} /\ ~Running("stop", "waiting")
          BY <1>12, <3>2 DEF ManualCompleteApplies, ManualCompleteRecords, Live, Doing, Running
        <4>2. QED
          BY <3>2, <4>1, LiveLemma
      <3>3. QED
        BY <3>1, <3>2
    <2>3. Active' => Active
      BY <2>1 DEF Active
    <2>4. QED
      BY <2>1, <2>2, <2>3, QuietlyWorks
  <1>13. CASE IdleRetires
    <2>1. /\ UNCHANGED <<row, eng, side, crashes>> /\ engines' \in {engines, 0} /\ Leaves
          /\ engines' = engines \/ engines = run.id
          /\ Running("idle", "disconnecting")
      BY <1>4, <1>13 DEF IdleRetires, bounds
    <2>2. engines' = 0 => ~MapLoops
      BY <1>1, <2>1 DEF Held, MapLoops, Executing
    <2>3. Active' <=> Active
      BY <2>1 DEF Active
    <2>4. QED
      BY <2>1, <2>2, <2>3, QuietlyWorks
  <1>14. CASE StartBuild \/ JumpstartBuilds \/ FollowUpRuns
    <2>1. /\ \E active \in {"no", "starting", "running"} : Builds(run.snap, active)
          /\ Returns /\ UNCHANGED <<side, crashes>>
          /\ Building \/ Jumping("building")
      BY <1>14 DEF StartBuild, Starting, JumpstartBuilds, FollowUpRuns, Starts, Building, bounds
    <2>2. PICK active \in {"no", "starting", "running"} : Builds(run.snap, active)
      BY <2>1
    <2>3. ~MapLoops
      BY <1>1, <2>1 DEF Held, MapLoops
    <2>4. QED
      BY <1>4, <2>1, <2>2, <2>3, BuildsWork
  <1>15. QED
    BY <1>2, <1>7, <1>8, <1>9, <1>10, <1>11, <1>12, <1>13, <1>14 DEF Operation

LEMMA StopAccepts ==
  \A st \in {"starting", "running", "stopped", "completed"} :
    st = "completed" \/ Accepts(st, "stopped")
  BY DEF Accepts, Legal, Targets

LEMMA StopWorks ==
  ASSUME IInv, Intact, Worked, Intact',
         Stop \/ StopMarks \/ StopSettles \/ StopTimesOut \/ StopRecords
  PROVE  Worked'
  <1>1. TypeOK /\ Held /\ Sound
    BY PhasesSplit DEF IInv
  <1>2. /\ queue # <<>> /\ Head(queue).kind = "stop" /\ UNCHANGED <<side, crashes>>
    BY DEF Stop, StopMarks, StopSettles, StopTimesOut, StopRecords, Running, bounds
  <1>3. /\ run.id \in EngineIds \cup {0} /\ engines \in EngineIds \cup {0}
        /\ \A e \in EngineIds : eng[e] \in Engine
    BY <1>1 DEF TypeOK, Run
  <1>4. \A place, snap, id : Parks(place, snap, id) =>
          /\ run'.id = id
          /\ \A kind, at : Running(kind, at)' <=> kind = "stop" /\ at = place
    BY <1>2 DEF Parks, Running
  <1>5. Returns => \A kind : \A place : place # "queued" => ~Running(kind, place)'
    BY DEF Returns, Queued, Running
  <1>6. \A place : run.at = place => \A kind, at : Running(kind, at) <=> kind = "stop" /\ at = place
    BY <1>2 DEF Running
  (* A stop that returns with the engine of the map as it was, or without. *)
  <1>7. ASSUME Returns, engines' \in {engines, 0}, UNCHANGED eng,
               engines' # 0 => ~Stopping,
               crashes = 0 /\ Active' => MapLoops' \/ side.kind = "reset"
        PROVE  Worked'
    <2>1. ~Stopping' /\ ~Running("stop", "stopping")' /\ ~Running("stop", "waiting")'
          /\ ~Running("stop", "disconnecting")'
      BY <1>5, <1>7 DEF Stopping
    <2>2. engines' # 0 /\ Executing(engines)' => eng'[engines'].keeps
      BY <1>7 DEF Worked, Executing
    <2>3. MapLoops' /\ eng'[engines'].aborted => side'.kind = "reset"
      BY <1>2, <1>7 DEF Worked, MapLoops, Stopping
    <2>4. QED
      BY <1>2, <1>7, <2>1, <2>2, <2>3 DEF Worked
  <1>8. CASE Stop
    <2>1. run.at = "queued" /\ UNCHANGED <<row, engines, lost>> /\ ~Stopping
      BY <1>6, <1>8 DEF Stop, Running, Stopping
    <2>2. CASE engines = 0
      <3>1. Returns /\ UNCHANGED eng
        BY <1>8, <2>2 DEF Stop
      <3>2. crashes = 0 /\ Active => side.kind = "reset"
        BY <2>1, <2>2 DEF Worked, MapLoops
      <3>3. Active' <=> Active
        BY <2>1 DEF Active
      <3>4. QED
        BY <1>7, <2>1, <3>1, <3>2, <3>3
    <2>3. CASE engines # 0
      <3>1. /\ Parks("stopping", "idle", engines)
            /\ eng' = [eng EXCEPT ![engines].aborted = TRUE]
        BY <1>8, <2>3 DEF Stop, Abort
      <3>2. /\ eng'[engines].phase = eng[engines].phase /\ eng'[engines].keeps = eng[engines].keeps
            /\ eng'[engines].status = eng[engines].status /\ eng'[engines].aborted
        BY <1>1, <1>3, <2>3, <3>1 DEF TypeOK, Engine
      <3>3. /\ run'.id = engines
            /\ \A kind, at : Running(kind, at)' <=> kind = "stop" /\ at = "stopping"
        BY <1>4, <3>1
      <3>4. MapLoops' = MapLoops /\ (Executing(engines)' <=> Executing(engines))
            /\ (Active' <=> Active)
        BY <2>1, <3>2 DEF MapLoops, Executing, Active
      <3>5. lost[engines] = "no"
        BY <1>1, <2>3 DEF Held
      <3>6. crashes = 0 /\ Active => MapLoops \/ side.kind = "reset"
        BY <2>1 DEF Worked
      <3>7. engines # 0 /\ Executing(engines) => eng[engines].keeps
        BY DEF Worked
      <3>8. Stopping'
        BY <3>3 DEF Stopping
      <3>9. QED
        BY <1>2, <2>1, <3>2, <3>3, <3>4, <3>5, <3>6, <3>7, <3>8 DEF Worked
    <2>4. QED
      BY <2>2, <2>3
  <1>9. CASE StopMarks
    <2>1. /\ run.at = "stopping" /\ run.id \in EngineIds /\ engines \in {0, run.id}
          /\ UNCHANGED row /\ Running("stop", "stopping") /\ Stopping
      BY <1>3, <1>9 DEF StopMarks, Running, IInv, Parked, Stopping
    <2>2. lost[run.id] = "no" /\ eng[run.id].aborted
      BY <2>1 DEF Worked
    <2>3. Active' <=> Active
      BY <2>1 DEF Active
    <2> DEFINE st == eng[run.id].status
    <2>4. CASE st = "completed" \/ Accepts(st, "stopped")
      <3>1. PICK to \in {"completed", "stopped"} :
              eng' = [eng EXCEPT ![run.id].status = to]
        BY <1>9, <2>4 DEF StopMarks
      <3>2. Parks("waiting", "idle", run.id) /\ UNCHANGED <<engines, lost>>
        BY <1>9, <2>4 DEF StopMarks
      <3>3. /\ eng'[run.id].phase = eng[run.id].phase /\ eng'[run.id].keeps = eng[run.id].keeps
            /\ eng'[run.id].status = to /\ eng'[run.id].aborted
        BY <1>1, <1>3, <2>1, <2>2, <3>1 DEF TypeOK, Engine
      <3>4. /\ run'.id = run.id
            /\ \A kind, at : Running(kind, at)' <=> kind = "stop" /\ at = "waiting"
        BY <1>4, <3>2
      <3>5. engines # 0 => (Executing(engines)' <=> Executing(engines))
        BY <2>1, <3>2, <3>3 DEF Executing
      <3>6. Stopping'
        BY <3>4 DEF Stopping
      <3>7. engines' # 0 /\ Executing(engines)' => eng'[engines'].keeps
        BY <2>1, <3>2, <3>3, <3>5 DEF Worked
      <3>8. crashes' = 0 /\ Active' => Stopping' /\ eng'[run'.id].status
                                         \in {"starting", "running", "stopped", "completed"}
        BY <3>3, <3>4, <3>6
      <3>9. QED
        BY <2>2, <3>2, <3>3, <3>4, <3>7, <3>8 DEF Worked
    <2>5. CASE ~(st = "completed" \/ Accepts(st, "stopped"))
      <3>1. engines' = 0 /\ Lose(engines, "timeout") /\ Returns /\ UNCHANGED eng
        BY <1>9, <2>5 DEF StopMarks
      <3>2. ~Executing(engines) \/ engines = 0
        <4>1. "timeout" \in Causes \ {"no"} /\ \A e \in EngineIds : Executing(e)' <=> Executing(e)
          BY <3>1 DEF Causes, Executing
        <4>2. engines # 0 /\ Executing(engines) => lost[engines] # "no"
          BY <1>1, <1>3, <3>1, <4>1, LosesLemma
        <4>3. QED
          BY <1>1, <4>2 DEF Held
      <3>3. ~MapLoops
        BY <3>2 DEF MapLoops, Executing
      <3>4. st \notin {"starting", "running", "stopped", "completed"}
        BY <2>5, StopAccepts
      <3>5. crashes = 0 /\ Active => side.kind = "reset"
        BY <3>3, <3>4 DEF Worked
      <3>6. QED
        BY <1>7, <2>3, <3>1, <3>5
    <2>6. QED
      BY <2>4, <2>5
  <1>10. CASE StopSettles
    <2>1. /\ run.at = "waiting" /\ run.id \in EngineIds /\ engines \in {0, run.id}
          /\ Running("stop", "waiting") /\ Stopping
      BY <1>3, <1>10 DEF StopSettles, Running, IInv, Parked, Stopping
    <2>2. /\ eng[run.id].aborted /\ eng[run.id].status \in {"stopped", "completed"}
      BY <2>1 DEF Worked
    <2>3. /\ engines' = 0 /\ Parks("disconnecting", "idle", run.id)
          /\ eng' = [eng EXCEPT ![run.id].keeps = FALSE]
      BY <1>10 DEF StopSettles
    <2>4. eng'[run.id].status = eng[run.id].status /\ eng'[run.id].aborted
      BY <1>1, <1>3, <2>1, <2>2, <2>3 DEF TypeOK, Engine
    <2>5. /\ run'.id = run.id
          /\ \A kind, at : Running(kind, at)' <=> kind = "stop" /\ at = "disconnecting"
      BY <1>4, <2>3
    <2>6. Stopping' /\ ~MapLoops'
      BY <2>3, <2>5 DEF Stopping, MapLoops
    <2>7. QED
      BY <2>2, <2>3, <2>4, <2>5, <2>6 DEF Worked
  <1>11. CASE StopTimesOut
    <2>1. /\ Running("stop", "waiting") /\ run.id \in EngineIds /\ Executing(run.id)
          /\ Lose(run.id, "timeout") /\ UNCHANGED eng
      BY <1>3, <1>11 DEF StopTimesOut, IInv, Parked
    <2>2. "timeout" \in Causes \ {"no"} /\ \A e \in EngineIds : Executing(e)' <=> Executing(e)
      BY <2>1 DEF Causes, Executing
    <2>3. lost[run.id] # "no"
      <3>1. run.id # 0
        BY <2>1 DEF EngineIds
      <3>2. QED
        BY <1>1, <1>3, <2>1, <2>2, <3>1, LosesLemma
    <2>4. QED
      BY <2>1, <2>3 DEF Worked
  <1>12. CASE StopRecords
    <2>1. /\ Running("stop", "disconnecting") /\ Returns /\ UNCHANGED <<engines, eng>>
          /\ row' = Written(eng[run.id].status, FALSE)
      BY <1>12 DEF StopRecords
    <2>2. eng[run.id].status \in {"stopped", "completed"} /\ engines = 0
      BY <1>1, <2>1 DEF Worked, Held
    <2>3. ~Active'
      BY <2>1, <2>2 DEF Active, Written
    <2>4. QED
      BY <1>7, <2>1, <2>2, <2>3
  <1>13. QED
    BY <1>8, <1>9, <1>10, <1>11, <1>12

LEMMA SideWorks ==
  ASSUME IInv, Intact, Worked, Intact', SideAction
  PROVE  Worked'
  <1>1. TypeOK /\ Held /\ Sound /\ UNCHANGED <<queue, run, deferred>>
    BY PhasesSplit, SideTyped DEF IInv
  <1>2. /\ engines \in EngineIds \cup {0} /\ side.id \in EngineIds \cup {0}
        /\ {"merge", "reset"} \subseteq Causes \ {"no"}
        /\ \A e \in EngineIds : eng[e] \in Engine
        /\ Stopping => run.id \in EngineIds
    BY <1>1 DEF TypeOK, Side, Causes, Run, IInv, Parked, Stopping
  <1>3. /\ (\A kind, place : Running(kind, place)' <=> Running(kind, place))
        /\ (Stopping' <=> Stopping)
    BY <1>1 DEF Running, Stopping
  <1>4. CASE Merge \/ MergeWrites
    <2>1. /\ UNCHANGED <<engines, eng, lost, crashes>> /\ side'.kind = "merge"
          /\ side.kind # "reset" /\ row' \in {row, "merged"}
      <3>1. CASE Merge
        BY <3>1 DEF Merge, Beside, NoSide
      <3>2. CASE MergeWrites
        BY <3>2 DEF MergeWrites, Beside, At, Written, bounds
      <3>3. QED
        BY <1>4, <3>1, <3>2
    <2>2. (Active' => Active) /\ MapLoops' = MapLoops
          /\ (engines # 0 => (Executing(engines)' <=> Executing(engines)))
      BY <2>1 DEF Active, MapLoops, Executing
    <2>3. QED
      BY <1>1, <1>3, <2>1, <2>2 DEF Worked
  <1>5. CASE MergeFinishes \/ ResetClears
    <2>1. /\ engines' = 0 /\ UNCHANGED <<eng, crashes>>
          /\ \E cause \in {"merge", "reset"} : Lose(engines, cause)
          /\ Active' => Active /\ side.kind # "reset"
      BY <1>5 DEF MergeFinishes, ResetClears, At, Active, Stale, bounds
    <2>2. PICK cause \in {"merge", "reset"} : Lose(engines, cause)
      BY <2>1
    <2>3. \A e \in EngineIds : Executing(e)' <=> Executing(e)
      BY <2>1 DEF Executing
    <2>4. engines # 0 /\ Executing(engines) => lost[engines] # "no"
      BY <1>1, <1>2, <2>2, <2>3, LosesLemma
    <2>5. ~MapLoops /\ ~MapLoops'
      BY <1>1, <2>1, <2>4 DEF Held, MapLoops, Executing
    <2>6. \A e \in EngineIds : lost'[e] = lost[e]
      <3>1. \A e \in EngineIds : lost'[e] = lost[e] \/ lost'[e] = cause
        BY <1>1, <1>2, <2>2, LoseLemma
      <3>2. QED
        BY <3>1 DEF Intact
    <2>7. Running("stop", "stopping") \/ Running("stop", "waiting") => lost'[run.id] = "no"
      BY <1>2, <2>6 DEF Worked, Stopping
    <2>8. QED
      BY <1>1, <1>3, <2>1, <2>5, <2>7 DEF Worked
  <1>6. CASE Reset
    <2>1. /\ UNCHANGED <<engines, row, lost, crashes>> /\ side'.kind = "reset"
          /\ eng' = eng \/ (engines # 0 /\ eng' = [eng EXCEPT ![engines].aborted = TRUE])
      BY <1>6 DEF Reset, Beside, Abort
    <2>2. \A e \in EngineIds : /\ eng'[e].phase = eng[e].phase /\ eng'[e].keeps = eng[e].keeps
                               /\ eng'[e].status = eng[e].status
                               /\ eng[e].aborted => eng'[e].aborted
      BY <1>1, <1>2, <2>1 DEF TypeOK, Engine
    <2>3. engines' # 0 /\ Executing(engines)' => eng'[engines'].keeps
      BY <1>2, <2>1, <2>2 DEF Worked, Executing
    <2>4. Stopping => eng'[run.id].aborted
      BY <1>2, <2>2 DEF Worked
    <2>5. Running("stop", "waiting") \/ Running("stop", "disconnecting") =>
            eng'[run.id].status \in {"stopped", "completed"}
      BY <1>2, <2>2 DEF Worked, Stopping
    <2>6. QED
      BY <1>1, <1>3, <2>1, <2>3, <2>4, <2>5 DEF Worked
  <1>7. CASE ResetTimesOut
    <2>1. /\ UNCHANGED <<row, engines, eng, lost, crashes>> /\ side'.kind = "reset"
      BY <1>7 DEF ResetTimesOut, Beside
    <2>2. engines # 0 => (Executing(engines)' <=> Executing(engines))
      BY <2>1 DEF Executing
    <2>3. QED
      BY <1>1, <1>3, <2>1, <2>2 DEF Worked
  <1>8. CASE ResetSettles
    <2>1. side.id \in EngineIds /\ ~Executing(side.id)
      BY <1>2, <1>8 DEF ResetSettles, IInv, Parked
    <2>2. PICK to \in {"stopped", "completed"} :
            eng' = [eng EXCEPT ![side.id] = [@ EXCEPT !.status = to, !.keeps = FALSE]] \/ eng' = eng
      BY <1>8 DEF ResetSettles
    <2>3. \A e \in EngineIds : e # side.id => eng'[e] = eng[e]
      BY <1>1, <2>2 DEF TypeOK
    <2>4. \/ eng'[side.id] = [eng[side.id] EXCEPT !.status = to, !.keeps = FALSE]
          \/ eng' = eng
      BY <1>1, <2>1, <2>2 DEF TypeOK
    <2>5. /\ eng'[side.id].phase = eng[side.id].phase
          /\ eng'[side.id].aborted = eng[side.id].aborted
          /\ eng'[side.id].status \in {eng[side.id].status, "stopped", "completed"}
      BY <1>2, <2>1, <2>4 DEF Engine
    <2>6. /\ UNCHANGED <<engines, crashes>> /\ side'.kind = "reset"
          /\ Lose(IF engines = side.id THEN 0 ELSE engines, "reset")
      BY <1>8 DEF ResetSettles, Beside, bounds
    <2>7. \A e \in EngineIds : lost'[e] = lost[e]
      <3>1. \A e \in EngineIds : lost'[e] = lost[e] \/ lost'[e] = "reset"
        BY <1>1, <1>2, <2>6, LoseLemma
      <3>2. QED
        BY <3>1 DEF Intact
    <2>8. engines' # 0 /\ Executing(engines)' => eng'[engines'].keeps
      <3>1. SUFFICES ASSUME engines # 0, Executing(engines)' PROVE eng'[engines].keeps
        BY <2>6
      <3>2. engines # side.id
        BY <2>1, <2>5, <2>6, <3>1 DEF Executing
      <3>3. eng'[engines] = eng[engines]
        BY <1>2, <2>3, <3>1, <3>2
      <3>4. QED
        BY <2>6, <3>1, <3>3 DEF Worked, Executing
    <2>9. Stopping => /\ eng'[run.id].aborted /\ lost'[run.id] = lost[run.id]
                      /\ eng'[run.id].status \in {eng[run.id].status, "stopped", "completed"}
      <3>1. SUFFICES ASSUME Stopping
                     PROVE  /\ eng'[run.id].aborted /\ lost'[run.id] = lost[run.id]
                            /\ eng'[run.id].status \in {eng[run.id].status, "stopped", "completed"}
        OBVIOUS
      <3>2. run.id \in EngineIds /\ eng[run.id].aborted
        BY <1>2, <3>1 DEF Worked
      <3>3. QED
        BY <2>3, <2>5, <2>7, <3>2
    <2>10. QED
      BY <1>1, <1>3, <2>6, <2>8, <2>9 DEF Worked, Stopping
  <1>9. QED
    BY <1>4, <1>5, <1>6, <1>7, <1>8 DEF SideAction, SideStep

(* What a step other than a restart has lost stays lost. *)
LEMMA LostStays ==
  ASSUME IInv, [Next]_vars, ~Crash, Intact'
  PROVE  Intact
  <1>1. TypeOK /\ Parked
    BY DEF IInv
  <1>2. ASSUME NEW e \in EngineIds \cup {0}, NEW cause \in Causes \ {"no"}, Lose(e, cause)
        PROVE  Intact
    <2>1. \A d \in EngineIds : lost[d] # "no" => lost'[d] = lost[d]
      BY <1>1, <1>2, LoseLemma
    <2>2. QED
      BY <2>1 DEF Intact
  <1>3. engines \in EngineIds \cup {0} /\ run.id \in EngineIds \cup {0}
        /\ {"timeout", "refused", "cleanup", "settling", "merge", "reset"} \subseteq Causes \ {"no"}
    BY <1>1 DEF TypeOK, Run, Causes
  <1>4. UNCHANGED lost => Intact
    BY DEF Intact
  <1>5. CASE StopMarks \/ StopTimesOut \/ Defer \/ CleanupTimesOut \/ MergeFinishes
             \/ ResetSettles \/ ResetClears
    <2>1. \/ UNCHANGED lost
          \/ \E e \in EngineIds \cup {0} :
               \E cause \in {"timeout", "refused", "cleanup", "merge", "reset"} : Lose(e, cause)
      BY <1>3, <1>5 DEF StopMarks, StopTimesOut, Defer, CleanupTimesOut, MergeFinishes,
           ResetSettles, ResetClears
    <2>2. QED
      BY <1>2, <1>3, <1>4, <2>1
  <1>6. CASE JumpstartBuilds \/ FollowUpDrops \/ PushFinishes
    <2>1. UNCHANGED lost \/ Replaces(engines)
      BY <1>6 DEF JumpstartBuilds, FollowUpDrops, PushFinishes
    <2>2. Replaces(engines) => \E e \in EngineIds \cup {0} : Lose(e, "settling")
      BY <1>3 DEF Replaces
    <2>3. QED
      BY <1>2, <1>3, <1>4, <2>1, <2>2
  <1>7. CASE Ask \/ AskIdle \/ UNCHANGED vars
    BY <1>4, <1>7 DEF Ask, Submit, SubmitDeletion, InjectStale, AskIdle, vars
  <1>8. CASE \E e \in EngineIds : EngineStep(e)
    BY <1>4, <1>8 DEF EngineStep, Begin, Complete, Settle, End, Unwind, Save, Becomes
  <1>9. CASE \/ StartLoad \/ StartBuild \/ Fail \/ Stop \/ StopSettles \/ StopRecords
             \/ Delete \/ Purge \/ Cleanup \/ CleanupSettles \/ CleanupGit
             \/ Jumpstart \/ JumpstartRestarts \/ Revive \/ FollowUp \/ FollowUpRuns
             \/ Push \/ PushWrites \/ ManualComplete \/ ManualCompleteApplies
             \/ ManualCompleteRecords \/ OpenTerminal \/ IdleCheck \/ IdleRetires
             \/ Merge \/ Reset \/ MergeWrites \/ ResetTimesOut
    BY <1>4, <1>9 DEF StartLoad, StartBuild, Fail, Stop, StopSettles, StopRecords, Delete, Purge,
         Cleanup, CleanupSettles, CleanupGit, Jumpstart, JumpstartRestarts, Revive, FollowUp,
         FollowUpRuns, Push, PushWrites, ManualComplete, ManualCompleteApplies,
         ManualCompleteRecords, OpenTerminal, IdleCheck, IdleRetires, Merge, Reset, MergeWrites,
         ResetTimesOut
  <1>10. QED
    BY <1>5, <1>6, <1>7, <1>8, <1>9 DEF Next, Operation, SideStep

LEMMA OnlyStops ==
  ASSUME Operation, Doing = "stop"
  PROVE  Stop \/ StopMarks \/ StopSettles \/ StopTimesOut \/ StopRecords
  BY DEF Stop, StopMarks, StopSettles, StopTimesOut, StopRecords, Running, Doing, Operation,
         StartLoad, StartBuild, Fail, Starting, Delete, Purge, Defer, Cleanup, CleanupSettles,
         CleanupTimesOut, CleanupGit, Jumpstart, Jumping, JumpstartBuilds, JumpstartRestarts,
         Revive, FollowUp, FollowUpDrops, FollowUpRuns, Push, PushWrites, PushFinishes,
         ManualComplete, ManualCompleteApplies, ManualCompleteRecords, OpenTerminal,
         IdleCheck, IdleRetires

(* An aborted loop leaves its status alone; another saves what it ends in. *)
LEMMA EngineStepEnds ==
  ASSUME IInv, NEW e \in EngineIds, EngineStep(e)
  PROVE  /\ eng'[e].aborted = eng[e].aborted
         /\ eng[e].aborted /\ eng[e].phase = "loop" => eng'[e].status = eng[e].status
         /\ eng[e].phase = "settle" => eng'[e].status = "completed"
         /\ eng[e].phase = "loop" /\ eng'[e].phase # "loop" =>
              \/ eng[e].aborted
              \/ row' = Saved(e, eng'[e].status) /\ eng'[e].status \notin {"starting", "running"}
  <1>1. eng[e] \in Engine /\ TypeOK /\ Sound
    BY PhasesSplit DEF IInv, TypeOK
  <1>2. ASSUME NEW phase, NEW st, Becomes(e, phase, st)
        PROVE  /\ eng'[e].phase = phase /\ eng'[e].status = st
               /\ eng'[e].aborted = eng[e].aborted /\ row' = Saved(e, st)
    <2>1. eng' = [eng EXCEPT ![e] = [@ EXCEPT !.phase = phase, !.status = st]]
      BY <1>2 DEF Becomes
    <2>2. eng'[e] = [eng[e] EXCEPT !.phase = phase, !.status = st]
      BY <1>1, <2>1 DEF TypeOK
    <2>3. QED
      BY <1>1, <1>2, <2>2 DEF Engine, Becomes
  <1>3. CASE Begin(e)
    <2>1. eng[e].phase = "loop" /\ ~eng[e].aborted /\ Becomes(e, "loop", "running")
      BY <1>3 DEF Begin
    <2>2. QED
      BY <1>2, <2>1
  <1>4. CASE Complete(e)
    <2>1. eng[e].phase = "loop" /\ ~eng[e].aborted /\ Becomes(e, "settle", "completed")
      BY <1>4 DEF Complete
    <2>2. QED
      BY <1>2, <2>1
  <1>5. CASE Settle(e)
    <2>1. eng[e].phase = "settle" /\ eng[e].status = "completed" /\ Becomes(e, "idle", eng[e].status)
      BY <1>1, <1>5 DEF Settle, Sound
    <2>2. QED
      BY <1>2, <2>1
  <1>6. CASE End(e)
    <2>1. PICK st \in {"stopped", "failed", "max_iterations"} : Becomes(e, "idle", st)
      BY <1>6 DEF End
    <2>2. eng[e].phase = "loop" /\ ~eng[e].aborted /\ st \notin {"starting", "running"}
      BY <1>6 DEF End
    <2>3. QED
      BY <1>2, <2>1, <2>2
  <1>7. CASE Unwind(e)
    <2>1. /\ eng[e].phase = "loop" /\ eng[e].aborted
          /\ eng' = [eng EXCEPT ![e] = [@ EXCEPT !.phase = "idle"]]
      BY <1>7 DEF Unwind
    <2>2. eng'[e] = [eng[e] EXCEPT !.phase = "idle"]
      BY <1>1, <2>1 DEF TypeOK
    <2>3. QED
      BY <1>1, <2>1, <2>2 DEF Engine
  <1>8. CASE Save(e)
    <2>1. Becomes(e, eng[e].phase, eng[e].status)
      BY <1>8 DEF Save
    <2>2. eng[e].phase = "settle" => eng[e].status = "completed"
      BY <1>1 DEF Sound
    <2>3. QED
      BY <1>2, <2>1, <2>2
  <1>9. QED
    BY <1>3, <1>4, <1>5, <1>6, <1>7, <1>8 DEF EngineStep

LEMMA EngineWorks ==
  ASSUME IInv, Intact, Worked, NEW e \in EngineIds, EngineStep(e)
  PROVE  Worked'
  <1>1. TypeOK /\ Held /\ Sound
    BY PhasesSplit DEF IInv
  <1>2. /\ UNCHANGED <<engines, queue, run, deferred, side, lost, crashes>> /\ Executing(e)
        /\ \A d \in EngineIds : d # e => eng'[d] = eng[d]
        /\ eng'[e].keeps = eng[e].keeps
        /\ eng'[e].phase = "loop" => eng[e].phase = "loop"
        /\ row' = row \/ (eng[e].keeps /\ ~Doomed /\ row' = eng'[e].status)
    <2>1. UNCHANGED crashes
      BY DEF EngineStep, Begin, Complete, Settle, End, Unwind, Save, Becomes, bounds
    <2>2. QED
      BY <2>1, EngineStepEffect
  <1>3. /\ eng'[e].aborted = eng[e].aborted
        /\ eng[e].aborted /\ eng[e].phase = "loop" => eng'[e].status = eng[e].status
        /\ eng[e].phase = "settle" => eng'[e].status = "completed"
        /\ eng[e].phase = "loop" /\ eng'[e].phase # "loop" =>
             \/ eng[e].aborted
             \/ row' = Saved(e, eng'[e].status) /\ eng'[e].status \notin {"starting", "running"}
    BY EngineStepEnds
  <1>4. /\ (\A kind, place : Running(kind, place)' <=> Running(kind, place))
        /\ (Stopping' <=> Stopping)
    BY <1>2 DEF Running, Stopping
  <1>5. eng[e].phase \in {"loop", "settle"}
    BY <1>2 DEF Executing
  <1>6. Stopping => /\ run.id \in EngineIds /\ eng'[run.id].aborted
                    /\ eng'[run.id].status = eng[run.id].status
    <2>1. SUFFICES ASSUME Stopping
                   PROVE  /\ run.id \in EngineIds /\ eng'[run.id].aborted
                          /\ eng'[run.id].status = eng[run.id].status
      OBVIOUS
    <2>2. run.id \in EngineIds /\ eng[run.id].aborted
      BY <1>1, <2>1 DEF TypeOK, Run, IInv, Parked, Stopping, Worked
    <2>3. eng[e].phase = "settle" => eng[e].status = "completed"
      BY <1>1 DEF Sound
    <2>4. QED
      BY <1>2, <1>3, <1>5, <2>2, <2>3
  <1>7. engines \in EngineIds \cup {0}
    BY <1>1 DEF TypeOK
  <1>8. engines' # 0 /\ Executing(engines)' => eng'[engines'].keeps
    <2>1. CASE engines = e
      BY <1>2, <2>1 DEF Worked
    <2>2. CASE engines # e
      BY <1>2, <1>7, <2>2 DEF Worked, Executing
    <2>3. QED
      BY <2>1, <2>2
  <1>9. MapLoops' /\ eng'[engines'].aborted => MapLoops /\ eng[engines].aborted
    BY <1>2, <1>3, <1>7 DEF MapLoops
  <1>10. crashes' = 0 /\ Active' =>
           \/ MapLoops' \/ side'.kind = "reset"
           \/ Stopping' /\ eng'[run'.id].status \in {"starting", "running", "stopped", "completed"}
    <2>1. SUFFICES ASSUME crashes = 0, Active', ~MapLoops', side.kind # "reset"
                   PROVE  /\ Stopping
                          /\ eng[run.id].status \in {"starting", "running", "stopped", "completed"}
      BY <1>2, <1>4, <1>6
    <2>2. CASE e # engines
      <3>1. row' = row
        <4>1. SUFFICES ASSUME eng[e].keeps PROVE Doomed
          BY <1>2
        <4>2. e \in Loops
          BY <1>1, <1>2, <4>1 DEF Loops, Sound, Intact
        <4>3. e # 0
          BY DEF EngineIds
        <4>4. QED
          BY <1>1, <2>2, <4>2, <4>3 DEF Held, IInv, Parked
      <3>2. MapLoops => MapLoops'
        BY <1>2, <1>7, <2>2 DEF MapLoops
      <3>3. QED
        BY <2>1, <3>1, <3>2 DEF Worked, Active
    <2>3. CASE e = engines /\ eng[e].phase = "settle"
      <3>1. ~MapLoops /\ row' = row
        BY <1>2, <1>3, <2>1, <2>3 DEF MapLoops, Active
      <3>2. QED
        BY <2>1, <3>1 DEF Worked, Active
    <2>4. CASE e = engines /\ eng[e].phase = "loop"
      <3>1. eng'[e].phase # "loop" /\ engines # 0 /\ MapLoops
        BY <1>2, <2>1, <2>4 DEF MapLoops, EngineIds
      <3>2. eng[e].aborted
        <4>1. SUFFICES ASSUME row' = Saved(e, eng'[e].status),
                              eng'[e].status \notin {"starting", "running"}
                       PROVE  FALSE
          BY <1>3, <2>4, <3>1
        <4>2. eng[e].keeps
          BY <1>2, <2>4, <3>1 DEF Worked
        <4>3. QED
          BY <2>1, <4>1, <4>2 DEF Saved, Written, Active
      <3>3. Running("stop", "stopping") \/ Running("stop", "waiting")
        BY <2>1, <2>4, <3>1, <3>2 DEF Worked
      <3>4. run.id = e /\ Stopping
        BY <2>4, <3>1, <3>3 DEF IInv, Parked, Stopping
      <3>5. QED
        BY <1>1, <2>4, <3>4 DEF Sound
    <2>5. QED
      BY <1>5, <2>2, <2>3, <2>4
  <1>11. QED
    BY <1>2, <1>4, <1>6, <1>8, <1>9, <1>10 DEF Worked, Stopping

LEMMA AskWorks ==
  ASSUME IInv, Worked, Ask \/ AskIdle
  PROVE  Worked'
  <1>1. Joined
    BY AskJoins DEF IInv
  <1>2. /\ UNCHANGED <<engines, eng, run, deferred, side, lost, crashes>>
        /\ row' = row \/ (engines = 0 /\ row \in Stale /\ row' = "stopped")
    BY DEF Ask, Submit, SubmitDeletion, InjectStale, AskIdle, bounds
  <1>3. \A kind \in Kinds, place \in Places \ {"queued"} :
          Running(kind, place)' <=> Running(kind, place)
    BY <1>1, <1>2 DEF Joined, Running, IInv, Parked
  <1>4. /\ Running("stop", "stopping")' <=> Running("stop", "stopping")
        /\ Running("stop", "waiting")' <=> Running("stop", "waiting")
        /\ Running("stop", "disconnecting")' <=> Running("stop", "disconnecting")
        /\ Active' => Active
    BY <1>2, <1>3 DEF Kinds, Places, Active
  <1>5. engines # 0 => (Executing(engines)' <=> Executing(engines))
    BY <1>2 DEF Executing
  <1>6. MapLoops' = MapLoops
    BY <1>2 DEF MapLoops
  <1>7. QED
    BY <1>2, <1>4, <1>5, <1>6 DEF Worked, Stopping

LEMMA CrashWorks ==
  ASSUME IInv, Crash
  PROVE  Worked'
  <1>1. engines' = 0 /\ queue' = <<>>
    BY DEF Crash
  <1>2. crashes' = crashes + 1
    BY DEF Crash
  <1>3. crashes \in Nat
    BY LifecycleBounds DEF IInv, TypeOK
  <1>4. crashes' # 0
    BY <1>2, <1>3
  <1>5. QED
    BY <1>1, <1>4 DEF Worked, MapLoops, Stopping, Running

LEMMA WorkedInvariance == Spec => [](Intact => Worked)
  <1>1. Init => (Intact => Worked)
    BY DEF Init, Worked, MapLoops, Stopping, Running, Active
  <1>2. IInv /\ IInv' /\ (Intact => Worked) /\ [Next]_vars => (Intact' => Worked')
    <2> SUFFICES ASSUME IInv, IInv', Intact => Worked, [Next]_vars, Intact'
                 PROVE  Worked'
      OBVIOUS
    <2>1. CASE Crash
      BY <2>1, CrashWorks
    <2>2. CASE ~Crash
      <3>1. Intact
        BY <2>2, LostStays
      <3>2. CASE Ask \/ AskIdle
        BY <3>1, <3>2, AskWorks
      <3>3. CASE Operation
        <4>1. Doing = "stop" \/ Doing # "stop"
          OBVIOUS
        <4>2. CASE Doing # "stop"
          BY <3>1, <3>3, <4>2, QueueWorks
        <4>3. CASE Stop \/ StopMarks \/ StopSettles \/ StopTimesOut \/ StopRecords
          BY <3>1, <4>3, StopWorks
        <4>4. QED
          BY <3>3, <4>2, <4>3, OnlyStops
      <3>4. CASE Merge \/ Reset \/ SideStep
        BY <3>1, <3>4, SideWorks DEF SideAction
      <3>5. CASE \E e \in EngineIds : EngineStep(e)
        BY <3>1, <3>5, EngineWorks
      <3>6. CASE UNCHANGED vars
        BY <3>1, <3>6 DEF vars, bounds, Worked, MapLoops, Stopping, Running, Active, Executing
      <3>7. QED
        BY <2>2, <3>2, <3>3, <3>4, <3>5, <3>6 DEF Next
    <2>3. QED
      BY <2>1, <2>2
  <1>3. QED
    BY <1>1, <1>2, Invariance, PTL DEF Spec

(* A row that says the task runs has a loop that runs it, once nothing is  *)
(* under way and unless the server restarted.                              *)
THEOREM ActiveRowsHaveLoops == Spec => []ActiveRowHasLoop
  <1>1. (Intact => Worked) => ActiveRowHasLoop
    BY DEF Worked, ActiveRowHasLoop, Active, MapLoops, Stopping, Running, NoSide
  <1>2. QED
    BY <1>1, WorkedInvariance, PTL

=============================================================================
