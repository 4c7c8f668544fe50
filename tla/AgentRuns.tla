------------------------------ MODULE AgentRuns ------------------------------
(***************************************************************************)
(* A scheduled agent and its runs: the scheduler's tick, the executor of   *)
(* each run (AgentRunner.executeRun), the user's edits, interruptions and  *)
(* deletions, and restarts.                                                *)
(*                                                                         *)
(* SQLite calls are synchronous behind their promises, so a handler that   *)
(* awaits nothing else runs in one turn of the event loop and is one       *)
(* action here: a tick, a run's start up to the creation of its chat, the  *)
(* reconciliation after a restart.  The actions of a handler divide where  *)
(* it waits for a chat, a worktree, a file or a timer.  Two clients stand  *)
(* for the requests that may be under way at the same time; each holds the *)
(* agent it loaded, or made of it, when it began.                          *)
(***************************************************************************)
EXTENDS Naturals, FiniteSets

CONSTANTS Clients, MaxRuns, MaxSlots, MaxRequests, MaxFaults

ASSUME BoundsAssumption ==
  /\ MaxRuns \in Nat \ {0} /\ MaxSlots \in Nat \ {0}
  /\ MaxRequests \in Nat /\ MaxFaults \in Nat

VARIABLES
  agent,    \* the agent's row
  row,      \* per run, the status in its row
  chatOf,   \* per run, whether the row names its chat
  slot,     \* per run, scheduledFor; 0 for a manual run
  exec,     \* per run, how far executeRun got
  aborted,  \* per run, whether its controller was aborted
  chat,     \* per run, its chat
  clock,    \* the time, counted in slots of the schedule
  op,       \* per client, the request it has under way
  requests, \* how many requests were made
  faults,   \* how many restarts and failed final checkpoints there were
  backdated,\* the past times that requests have given as the due time
  intact    \* FALSE once a save put back an agent, a run or a due time that
            \* was over, a run was deleted under its executor, or its last
            \* checkpoint failed

vars == <<agent, row, chatOf, slot, exec, aborted, chat, clock, op, requests,
          faults, backdated, intact>>

Runs == 1 .. MaxRuns
ActiveStatuses == {"starting", "running"}
FinalStatuses == {"completed", "failed", "interrupted"}
Agent == [exists : BOOLEAN, enabled : BOOLEAN, active : Runs \cup {0}, next : 1 .. MaxSlots + 1]
NoOp == [kind |-> "none"]
Ops ==
  {NoOp} \cup [kind : {"edit"}, saved : Agent]
    \cup [kind : {"interrupt"}, seen : Agent, run : Runs, chat : BOOLEAN]
    \cup [kind : {"deleteRun"}, run : Runs]
    \cup [kind : {"deleteAgent"}, runs : SUBSET Runs]

TypeOK ==
  /\ agent \in Agent
  /\ row \in [Runs -> {"none", "deleted"} \cup ActiveStatuses \cup FinalStatuses]
  /\ chatOf \in [Runs -> BOOLEAN] /\ slot \in [Runs -> 0 .. MaxSlots]
  /\ exec \in [Runs -> {"none", "creating", "working", "ended"}]
  /\ aborted \in [Runs -> BOOLEAN]
  /\ chat \in [Runs -> {"none", "busy", "idle", "gone"}]
  /\ clock \in 1 .. MaxSlots
  /\ op \in [Clients -> Ops]
  /\ requests \in 0 .. MaxRequests /\ faults \in 0 .. MaxFaults
  /\ backdated \subseteq 1 .. MaxSlots /\ intact \in BOOLEAN

Init ==
  /\ agent = [exists |-> TRUE, enabled |-> TRUE, active |-> 0, next |-> 1]
  /\ row = [r \in Runs |-> "none"] /\ chatOf = [r \in Runs |-> FALSE]
  /\ slot = [r \in Runs |-> 0] /\ exec = [r \in Runs |-> "none"]
  /\ aborted = [r \in Runs |-> FALSE] /\ chat = [r \in Runs |-> "none"]
  /\ clock = 1 /\ op = [c \in Clients |-> NoOp]
  /\ requests = 0 /\ faults = 0 /\ backdated = {} /\ intact = TRUE

Alive(r) == exec[r] \in {"creating", "working"}
ActiveRows == {r \in Runs : row[r] \in ActiveStatuses}
Busy == ActiveRows # {} \/ agent.active # 0

(* Runs are numbered in the order they start. *)
Fresh == {r \in Runs : row[r] = "none" /\ \A s \in Runs : row[s] = "none" => r <= s}

-----------------------------------------------------------------------------
(* Starting runs.                                                          *)

(* startAgentRun and executeRun up to the creation of the chat. *)
StartRun(r, time, agentNow) ==
  /\ row' = [row EXCEPT ![r] = "starting"]
  /\ slot' = [slot EXCEPT ![r] = time]
  /\ exec' = [exec EXCEPT ![r] = "creating"]
  /\ agent' = [agentNow EXCEPT !.active = r]
  /\ UNCHANGED <<chatOf, aborted, chat>>

(* The workspace does not allow the agent's worktrees: recordStartFailure. *)
StartFails(r, time, agentNow) ==
  /\ row' = [row EXCEPT ![r] = "failed"]
  /\ slot' = [slot EXCEPT ![r] = time]
  /\ agent' = agentNow
  /\ UNCHANGED <<chatOf, exec, aborted, chat>>

Due == agent.exists /\ agent.enabled /\ agent.next <= clock

(* Defect: the due time of a skipped or started run is left as it was. *)
AdvancedLater == agent

Advanced == [agent EXCEPT !.next = clock + 1]

SkipDue ==
  /\ Due /\ Busy
  /\ agent' = Advanced
  /\ UNCHANGED <<row, chatOf, slot, exec, aborted, chat, clock, op, requests, faults, backdated, intact>>

RunDue ==
  /\ Due /\ ~Busy
  /\ \E r \in Fresh : \/ StartRun(r, agent.next, Advanced)
                      \/ StartFails(r, agent.next, Advanced)
  /\ UNCHANGED <<clock, op, requests, faults, backdated, intact>>

(* Defect: a manual run is started whether or not another one is active. *)
RunNowUnchecked ==
  /\ agent.exists
  /\ \E r \in Fresh : StartRun(r, 0, agent)
  /\ UNCHANGED <<clock, op, requests, faults, backdated, intact>>

RunNow ==
  /\ agent.exists /\ ~Busy
  /\ \E r \in Fresh : StartRun(r, 0, agent)
  /\ UNCHANGED <<clock, op, requests, faults, backdated, intact>>

-----------------------------------------------------------------------------
(* The executor of a run.                                                  *)

(* Defect: a run clears the agent only after it was interrupted. *)
ClearedNot(r) == IF aborted[r] THEN [agent EXCEPT !.active = 0] ELSE agent

(* clearAgentRunning *)
Cleared(r) == IF agent.active = r THEN [agent EXCEPT !.active = 0] ELSE agent

(* The last save of a run, then clearAgentRunning.  The save inserts the   *)
(* row when it is gone; without its agent's row it violates a foreign key, *)
(* and the executor ends with the error.                                   *)
Finish(r, status) ==
  /\ exec' = [exec EXCEPT ![r] = "ended"]
  /\ aborted' = [aborted EXCEPT ![r] = FALSE]
  /\ IF agent.exists
     THEN row' = [row EXCEPT ![r] = status] /\ agent' = Cleared(r)
     ELSE UNCHANGED <<row, agent>>

(* Defect: the executor reports its own outcome of an interrupted run. *)
EndUnaware(r, status) == status

EndOf(r, status) == IF aborted[r] THEN "interrupted" ELSE status

ChatCreated(r) ==
  /\ exec[r] = "creating"
  /\ IF aborted[r]
     THEN Finish(r, "interrupted") /\ UNCHANGED <<chatOf, chat>>
     ELSE IF ~agent.exists
     THEN /\ Finish(r, "failed")
          /\ chat' = [chat EXCEPT ![r] = "idle"]
          /\ UNCHANGED chatOf
     ELSE /\ exec' = [exec EXCEPT ![r] = "working"]
          /\ row' = [row EXCEPT ![r] = "running"]
          /\ chatOf' = [chatOf EXCEPT ![r] = TRUE]
          /\ chat' = [chat EXCEPT ![r] = "busy"]
          /\ UNCHANGED <<agent, aborted>>
  /\ UNCHANGED <<slot, clock, op, requests, faults, backdated, intact>>

ChatNotCreated(r) ==
  /\ exec[r] = "creating"
  /\ Finish(r, EndOf(r, "failed"))
  /\ UNCHANGED <<chatOf, slot, chat, clock, op, requests, faults, backdated, intact>>

TurnEnds(r) ==
  /\ exec[r] = "working" /\ chat[r] = "busy"
  /\ chat' = [chat EXCEPT ![r] = "idle"]
  /\ UNCHANGED <<agent, row, chatOf, slot, exec, aborted, clock, op, requests, faults, backdated, intact>>

(* waitForChatIdle returned, or the turn failed, it took too long or its *)
(* chat was deleted.                                                      *)
RunEnds(r) ==
  /\ exec[r] = "working"
  /\ Finish(r, EndOf(r, IF chat[r] = "idle" THEN "completed" ELSE "failed"))
  /\ UNCHANGED <<chatOf, slot, chat, clock, op, requests, faults, backdated, intact>>

(* Both attempts of persistForFinalization fail. *)
RunEndsUnsaved(r) ==
  /\ exec[r] = "working" /\ faults < MaxFaults
  /\ faults' = faults + 1
  /\ exec' = [exec EXCEPT ![r] = "ended"]
  /\ aborted' = [aborted EXCEPT ![r] = FALSE]
  /\ intact' = FALSE
  /\ UNCHANGED <<agent, row, chatOf, slot, chat, clock, op, requests, backdated>>

-----------------------------------------------------------------------------
(* Requests.                                                               *)

Ask == requests < MaxRequests /\ requests' = requests + 1

(* What updateAgent makes of the agent it loads.  A due time is kept,      *)
(* computed from the schedule of the request or taken from it; one that is *)
(* neither the agent's nor to come is the request's own.                   *)
Updated(enabled, next) == [agent EXCEPT !.enabled = enabled, !.next = next]

Backdate(next) ==
  backdated' = backdated \cup {t \in {next} : t # agent.next /\ t <= clock}

(* The row as a handler is about to save it, against the row it should     *)
(* find: the agent, its active run or its due time was over meanwhile.     *)
PutsBack(saved, found) ==
  \/ saved.exists # found.exists \/ saved.active # found.active
  \/ saved.next # found.next /\ saved.next <= clock /\ saved.next \notin backdated

(* pauseAgent, resumeAgent and updateAgent without code. *)
Edit(enabled, next) ==
  /\ Ask /\ agent.exists
  /\ agent' = Updated(enabled, next)
  /\ Backdate(next)
  /\ UNCHANGED <<row, chatOf, slot, exec, aborted, chat, clock, op, faults, intact>>

(* updateAgent with code has computed what it will save when it waits for  *)
(* the draft of the generation chat; resetGenerationChat waits as well,    *)
(* and changes neither of the two.                                         *)
EditBegins(c, enabled, next) ==
  /\ Ask /\ op[c] = NoOp /\ agent.exists
  /\ op' = [op EXCEPT ![c] = [kind |-> "edit", saved |-> Updated(enabled, next)]]
  /\ Backdate(next)
  /\ UNCHANGED <<agent, row, chatOf, slot, exec, aborted, chat, clock, faults, intact>>

EditSaves(c) ==
  /\ op[c].kind = "edit"
  /\ agent' = op[c].saved
  /\ intact' = (intact /\ ~PutsBack(op[c].saved, agent))
  /\ op' = [op EXCEPT ![c] = NoOp]
  /\ UNCHANGED <<row, chatOf, slot, exec, aborted, chat, clock, requests, faults, backdated>>

EditFails(c) ==
  /\ op[c].kind = "edit"
  /\ op' = [op EXCEPT ![c] = NoOp]
  /\ UNCHANGED <<agent, row, chatOf, slot, exec, aborted, chat, clock, requests, faults, backdated, intact>>

InterruptBegins(c) ==
  /\ Ask /\ op[c] = NoOp /\ agent.exists /\ agent.active # 0
  /\ op' = [op EXCEPT ![c] =
              [kind |-> "interrupt", seen |-> agent, run |-> agent.active, chat |-> FALSE]]
  /\ UNCHANGED <<agent, row, chatOf, slot, exec, aborted, chat, clock, faults, backdated, intact>>

(* waitForInterruptibleRun finds no active run. *)
InterruptFindsNothing(c) ==
  /\ op[c].kind = "interrupt" /\ ~op[c].chat /\ op[c].run \notin ActiveRows
  /\ op' = [op EXCEPT ![c] = NoOp]
  /\ UNCHANGED <<agent, row, chatOf, slot, exec, aborted, chat, clock, requests, faults, backdated, intact>>

(* interruptAgent's last lines: the agent it loaded is written back. *)
InterruptSaves(c, r) ==
  LET saved == [op[c].seen EXCEPT !.active = 0]
  IN /\ agent' = saved
     /\ intact' = (intact /\ ~PutsBack(saved, Cleared(r)))
     /\ op' = [op EXCEPT ![c] = NoOp]

(* The wait for a chat ran out: interruptRun only marks the run, and the   *)
(* executor gives up when the chat is there.                               *)
InterruptEarly(c) ==
  /\ op[c].kind = "interrupt" /\ ~op[c].chat
  /\ LET r == op[c].run IN
     /\ r \in ActiveRows /\ ~chatOf[r]
     /\ IF Alive(r)
        THEN /\ aborted' = [aborted EXCEPT ![r] = TRUE]
             /\ row' = [row EXCEPT ![r] = "interrupted"]
             /\ InterruptSaves(c, r)
        ELSE op' = [op EXCEPT ![c] = NoOp] /\ UNCHANGED <<aborted, row, agent, intact>>
  /\ UNCHANGED <<chatOf, slot, exec, chat, clock, requests, faults, backdated>>

(* interruptRun: the controller aborts and the chat is interrupted. *)
InterruptChat(c) ==
  /\ op[c].kind = "interrupt" /\ ~op[c].chat
  /\ LET r == op[c].run IN
     /\ r \in ActiveRows /\ chatOf[r]
     /\ aborted' = [aborted EXCEPT ![r] = aborted[r] \/ Alive(r)]
  /\ op' = [op EXCEPT ![c].chat = TRUE]
  /\ UNCHANGED <<agent, row, chatOf, slot, exec, chat, clock, requests, faults, backdated, intact>>

InterruptEnds(c) ==
  /\ op[c].kind = "interrupt" /\ op[c].chat
  /\ LET r == op[c].run IN
     IF chat[r] = "gone" \/ (~agent.exists /\ row[r] = "deleted")
     THEN op' = [op EXCEPT ![c] = NoOp] /\ UNCHANGED <<agent, row, chat, intact>>
     ELSE /\ chat' = [chat EXCEPT ![r] = "idle"]
          /\ row' = [row EXCEPT ![r] = "interrupted"]
          /\ InterruptSaves(c, r)
  /\ UNCHANGED <<chatOf, slot, exec, aborted, clock, requests, faults, backdated>>

DeleteRunBegins(c) ==
  /\ Ask /\ op[c] = NoOp
  /\ \E r \in Runs : /\ row[r] \notin {"none", "deleted"}
                     /\ op' = [op EXCEPT ![c] = [kind |-> "deleteRun", run |-> r]]
  /\ UNCHANGED <<agent, row, chatOf, slot, exec, aborted, chat, clock, faults, backdated, intact>>

Gone(runs) == [r \in Runs |-> IF r \in runs /\ chat[r] # "none" THEN "gone" ELSE chat[r]]

DeleteRun(c) ==
  /\ op[c].kind = "deleteRun"
  /\ LET r == op[c].run IN
     /\ chat' = Gone({r})
     /\ row' = [row EXCEPT ![r] = "deleted"]
     /\ intact' = (intact /\ ~Alive(r))
  /\ op' = [op EXCEPT ![c] = NoOp]
  /\ UNCHANGED <<agent, chatOf, slot, exec, aborted, clock, requests, faults, backdated>>

(* deleteAgent interrupts the active runs it lists, which takes time. *)
DeleteAgentBegins(c) ==
  /\ Ask /\ op[c] = NoOp /\ agent.exists
  /\ op' = [op EXCEPT ![c] = [kind |-> "deleteAgent", runs |-> {r \in Runs : row[r] # "none"}]]
  /\ aborted' = [r \in Runs |-> aborted[r] \/ (r \in ActiveRows /\ Alive(r))]
  /\ row' = [r \in Runs |-> IF r \in ActiveRows /\ ~chatOf[r] THEN "interrupted" ELSE row[r]]
  /\ UNCHANGED <<agent, chatOf, slot, exec, chat, clock, faults, backdated, intact>>

(* The rows of all its runs go with it. *)
DeleteAgent(c) ==
  /\ op[c].kind = "deleteAgent"
  /\ chat' = Gone(op[c].runs)
  /\ agent' = [agent EXCEPT !.exists = FALSE, !.active = 0]
  /\ row' = [r \in Runs |-> IF row[r] = "none" THEN "none" ELSE "deleted"]
  /\ op' = [op EXCEPT ![c] = NoOp]
  /\ UNCHANGED <<chatOf, slot, exec, aborted, clock, requests, faults, backdated, intact>>

-----------------------------------------------------------------------------
(* Time, and restarts: executors and requests are gone, and                *)
(* reconcileStaleRuns fails the runs whose rows are active.                *)

Tock ==
  /\ clock < MaxSlots
  /\ clock' = clock + 1
  /\ UNCHANGED <<agent, row, chatOf, slot, exec, aborted, chat, op, requests, faults, backdated, intact>>

(* Defect: only runs that had begun to work are failed. *)
ReconciledRunning == [r \in Runs |-> IF row[r] = "running" THEN "failed" ELSE row[r]]

Reconciled == [r \in Runs |-> IF r \in ActiveRows THEN "failed" ELSE row[r]]

Restart ==
  /\ faults < MaxFaults
  /\ faults' = faults + 1
  /\ exec' = [r \in Runs |-> IF Alive(r) THEN "ended" ELSE exec[r]]
  /\ aborted' = [r \in Runs |-> FALSE]
  /\ op' = [c \in Clients |-> NoOp]
  /\ row' = Reconciled
  /\ agent' = [agent EXCEPT !.active = 0]
  /\ UNCHANGED <<chatOf, slot, chat, clock, requests, backdated, intact>>

-----------------------------------------------------------------------------
Executor(r) == ChatCreated(r) \/ ChatNotCreated(r) \/ RunEnds(r)

Requests(c) ==
  \/ EditSaves(c) \/ EditFails(c)
  \/ \E enabled \in BOOLEAN, next \in 1 .. MaxSlots + 1 : EditBegins(c, enabled, next)
  \/ InterruptBegins(c) \/ InterruptFindsNothing(c) \/ InterruptEarly(c)
  \/ InterruptChat(c) \/ InterruptEnds(c)
  \/ DeleteRunBegins(c) \/ DeleteRun(c) \/ DeleteAgentBegins(c) \/ DeleteAgent(c)

Next ==
  \/ SkipDue \/ RunDue \/ RunNow \/ Tock \/ Restart
  \/ \E enabled \in BOOLEAN, next \in 1 .. MaxSlots + 1 : Edit(enabled, next)
  \/ \E r \in Runs : Executor(r) \/ TurnEnds(r) \/ RunEndsUnsaved(r)
  \/ \E c \in Clients : Requests(c)

Spec == Init /\ [][Next]_vars

(* Chats are created or fail, and waitForChatIdle has a time limit, so an  *)
(* executor ends; turns, requests and restarts are owed nothing.           *)
FairSpec == Spec /\ \A r \in Runs : WF_vars(Executor(r))

-----------------------------------------------------------------------------
(* At most one run that was not interrupted is being executed, whatever    *)
(* ticks, requests and restarts come together.                             *)
OneRunAtATime ==
  intact => \A r, s \in Runs : Alive(r) /\ Alive(s) /\ ~aborted[r] /\ ~aborted[s] => r = s

(* Whatever blocks the schedule is going on: a run with an active row, and *)
(* the run the agent names as active, have an executor that will end them. *)
BlockedOnlyByRuns ==
  intact => /\ \A r \in ActiveRows : Alive(r)
            /\ agent.active # 0 => Alive(agent.active)

(* No slot of the schedule is run twice, not even across pauses, restarts, *)
(* interruptions and new schedules, unless a request has given that slot,  *)
(* past by then, as the time to run next.                                  *)
NoSlotTwice ==
  intact => \A r, s \in Runs :
              slot[r] # 0 /\ slot[r] = slot[s] /\ slot[r] \notin backdated => r = s

(* Once a run is recorded as interrupted its executor, which may still be  *)
(* on its way to an outcome of its own, does not record another.           *)
InterruptedStays ==
  [][\A r \in Runs : row[r] = "interrupted" => row'[r] \in {"interrupted", "deleted"}]_vars

(* The agent does not stay busy with a run for ever. *)
NeverBlocked ==
  \A r \in Runs : agent.active = r ~> agent.active # r \/ ~intact

(* What agent-scheduler.ts says of a skipped slot: "Previous agent run is  *)
(* still active".                                                          *)
SkipsForARun == [][SkipDue => \E r \in Runs : Alive(r)]_vars

=============================================================================
