--------------------------- MODULE AgentRunsProofs ---------------------------
(***************************************************************************)
(* Proofs about AgentRuns, for any number of clients, runs, slots and      *)
(* requests.  What excludes a second run is spread over the agent's row,   *)
(* the rows of the runs, their executors and the marks of interruptions;   *)
(* the invariant says how the four stay together as long as nothing that   *)
(* a request held over a wait was written over them.                       *)
(***************************************************************************)
EXTENDS AgentRuns, TLAPS

(* Who is named has started: the agent's active run, the runs requests     *)
(* have found active.                                                      *)
Started(r) == r # 0 => r \in Runs /\ row[r] # "none"

NamesSound ==
  /\ Started(agent.active)
  /\ \A c \in Clients :
       /\ op[c].kind = "edit" => op[c].saved.exists /\ Started(op[c].saved.active)
       /\ op[c].kind = "interrupt" => op[c].seen.exists /\ Started(op[c].run)

(* A run that is recorded as interrupted, or whose chat is, will find the  *)
(* mark when it ends.                                                      *)
MarksSound ==
  /\ \A r \in Runs : row[r] = "interrupted" /\ Alive(r) => aborted[r]
  /\ \A c \in Clients : op[c].kind = "interrupt" /\ op[c].chat /\ Alive(op[c].run)
                          => aborted[op[c].run]

(* A run nobody interrupted shows in its row while its agent exists; with  *)
(* the agent the rows go.                                                  *)
RowsSound ==
  /\ agent.exists => \A r \in Runs : Alive(r) /\ ~aborted[r] => r \in ActiveRows
  /\ ~agent.exists => ActiveRows = {} /\ agent.active = 0

(* The slots that were run are over, and the next one is none of them or   *)
(* was asked for.                                                          *)
SlotsSound ==
  /\ \A r \in Runs : slot[r] <= clock
  /\ agent.next \in backdated \/ \A r \in Runs : slot[r] < agent.next

IInv ==
  /\ TypeOK /\ NamesSound /\ MarksSound
  /\ intact => RowsSound /\ SlotsSound
  /\ OneRunAtATime /\ BlockedOnlyByRuns /\ NoSlotTwice

LEMMA InitIInv == Init => IInv
<1> SUFFICES ASSUME Init PROVE IInv
  OBVIOUS
<1>1. TypeOK
  BY BoundsAssumption DEF Init, TypeOK, Agent, Runs, Ops
<1>2. NamesSound /\ MarksSound
  BY DEF Init, NamesSound, MarksSound, Started, NoOp, Alive
<1>3. RowsSound /\ SlotsSound
  BY DEF Init, RowsSound, SlotsSound, Alive, ActiveRows, ActiveStatuses
<1>4. OneRunAtATime /\ BlockedOnlyByRuns /\ NoSlotTwice
  BY DEF Init, OneRunAtATime, BlockedOnlyByRuns, NoSlotTwice, Alive, ActiveRows, ActiveStatuses
<1>5. QED
  BY <1>1, <1>2, <1>3, <1>4 DEF IInv

-----------------------------------------------------------------------------
(* The agents a step writes.                                               *)

LEMMA UpdatedAgent ==
  ASSUME TypeOK, NEW enabled \in BOOLEAN, NEW next \in 1 .. MaxSlots + 1, Backdate(next)
  PROVE  /\ Updated(enabled, next) \in Agent /\ Updated(enabled, next).exists = agent.exists
         /\ Updated(enabled, next).active = agent.active /\ Updated(enabled, next).next = next
         /\ backdated' \subseteq 1 .. MaxSlots /\ backdated \subseteq backdated'
         /\ next \in backdated' \/ next = agent.next \/ next > clock
<1>1. clock \in 1 .. MaxSlots /\ MaxSlots \in Nat /\ agent \in Agent /\ backdated \subseteq 1 .. MaxSlots
  BY BoundsAssumption DEF TypeOK
<1>2. {t \in {next} : t # agent.next /\ t <= clock} \subseteq 1 .. MaxSlots
  BY <1>1
<1>3. next \in backdated' \/ next = agent.next \/ next > clock
  BY <1>1 DEF Backdate
<1>4. QED
  BY <1>1, <1>2, <1>3 DEF Backdate, Updated, Agent

(* A save that puts nothing back leaves a due time that is not over. *)
LEMMA NothingPutBack ==
  ASSUME TypeOK, NEW saved \in Agent, NEW found \in Agent, found.exists = agent.exists,
         found.next = agent.next, ~PutsBack(saved, found)
  PROVE  /\ saved.exists = agent.exists /\ saved.active = found.active
         /\ saved.next \in backdated \/ saved.next = agent.next \/ saved.next > clock
BY DEF PutsBack, TypeOK, Agent

(* Such a due time keeps the slots sound. *)
LEMMA NextSlotSound ==
  ASSUME TypeOK, SlotsSound, UNCHANGED <<slot, clock>>, agent'.next \in Nat, backdated \subseteq backdated',
         agent'.next \in backdated' \/ agent'.next = agent.next \/ agent'.next > clock
  PROVE  SlotsSound'
<1>1. clock \in Nat /\ \A r \in Runs : slot[r] \in Nat
  BY DEF TypeOK
<1>2. QED
  BY <1>1 DEF SlotsSound

LEMMA AdvancedAgent ==
  ASSUME TypeOK
  PROVE  /\ Advanced \in Agent /\ Advanced.exists = agent.exists /\ Advanced.active = agent.active
         /\ Advanced.next = clock + 1
<1>1. clock + 1 \in 1 .. MaxSlots + 1
  BY BoundsAssumption DEF TypeOK
<1>2. QED
  BY <1>1 DEF Advanced, TypeOK, Agent

LEMMA ClearedAgent ==
  ASSUME TypeOK, NEW r \in Runs
  PROVE  /\ Cleared(r) \in Agent /\ Cleared(r).exists = agent.exists /\ Cleared(r).next = agent.next
         /\ Cleared(r).active = IF agent.active = r THEN 0 ELSE agent.active
BY DEF Cleared, TypeOK, Agent

LEMMA OpFields ==
  ASSUME TypeOK, NEW c \in Clients
  PROVE  /\ op[c].kind = "edit" => op[c].saved \in Agent
         /\ op[c].kind = "interrupt" => /\ op[c].seen \in Agent /\ op[c].run \in Runs
                                        /\ op[c].chat \in BOOLEAN
                                        /\ op[c] \in [kind : {"interrupt"}, seen : Agent, run : Runs,
                                                     chat : BOOLEAN]
         /\ op[c].kind = "deleteRun" => op[c].run \in Runs
         /\ op[c].kind = "deleteAgent" => op[c].runs \in SUBSET Runs
BY DEF TypeOK, Ops, NoOp

-----------------------------------------------------------------------------
(* One lemma per action.                                                   *)

LEMMA SkipDueStep ==
  ASSUME IInv, SkipDue
  PROVE  IInv'
<1>1. agent' = Advanced /\ agent.next <= clock
  BY DEF SkipDue, Due
<1>2. TypeOK'
  BY <1>1, AdvancedAgent DEF IInv, SkipDue, TypeOK
<1>3. NamesSound' /\ MarksSound'
  BY <1>1, AdvancedAgent DEF IInv, SkipDue, NamesSound, MarksSound, Started, Alive
<1>4. (intact => RowsSound /\ SlotsSound)'
  <2>1. clock \in Nat /\ agent.next \in Nat /\ \A r \in Runs : slot[r] \in Nat
    BY DEF IInv, TypeOK, Agent
  <2>2. intact' => RowsSound'
    BY <1>1, AdvancedAgent DEF IInv, SkipDue, RowsSound, Alive, ActiveRows
  <2>3. intact' => SlotsSound'
    BY <1>1, <2>1, AdvancedAgent DEF IInv, SkipDue, SlotsSound
  <2>4. QED
    BY <2>2, <2>3
<1>5. OneRunAtATime' /\ BlockedOnlyByRuns' /\ NoSlotTwice'
  BY <1>1, AdvancedAgent DEF IInv, SkipDue, OneRunAtATime, BlockedOnlyByRuns, NoSlotTwice, Alive, ActiveRows
<1>6. QED
  BY <1>2, <1>3, <1>4, <1>5 DEF IInv

LEMMA TockStep ==
  ASSUME IInv, Tock
  PROVE  IInv'
<1>1. TypeOK'
  BY BoundsAssumption DEF IInv, Tock, TypeOK, Agent, Ops, NoOp, Runs, ActiveStatuses, FinalStatuses
<1>2. NamesSound'
  BY DEF IInv, Tock, NamesSound, Started, TypeOK, Agent, Ops, NoOp, Runs
<1>3. MarksSound'
  BY DEF IInv, Tock, MarksSound, Alive, ActiveRows, ActiveStatuses, TypeOK, Ops, NoOp
<1>4. (intact => RowsSound /\ SlotsSound)'
  BY DEF IInv, Tock, RowsSound, SlotsSound, Alive, ActiveRows, ActiveStatuses, TypeOK, Agent
<1>5. OneRunAtATime' /\ BlockedOnlyByRuns' /\ NoSlotTwice'
  BY DEF IInv, Tock, RowsSound, SlotsSound, OneRunAtATime, BlockedOnlyByRuns, NoSlotTwice, Alive, ActiveRows, ActiveStatuses, TypeOK, Agent
<1>6. QED
  BY <1>1, <1>2, <1>3, <1>4, <1>5 DEF IInv

LEMMA EditStep ==
  ASSUME IInv, NEW enabled \in BOOLEAN, NEW next \in 1 .. MaxSlots + 1, Edit(enabled, next)
  PROVE  IInv'
<1>1. /\ agent' = Updated(enabled, next) /\ Backdate(next) /\ requests' \in 0 .. MaxRequests
      /\ UNCHANGED <<row, chatOf, slot, exec, aborted, chat, clock, op, faults, intact>>
  BY BoundsAssumption DEF Edit, Ask, IInv, TypeOK
<1>2. /\ agent' \in Agent /\ agent'.exists = agent.exists /\ agent'.active = agent.active
      /\ agent'.next = next /\ next \in Nat
      /\ backdated' \subseteq 1 .. MaxSlots /\ backdated \subseteq backdated'
      /\ next \in backdated' \/ next = agent.next \/ next > clock
  BY <1>1, UpdatedAgent DEF IInv
<1>3. TypeOK'
  BY <1>1, <1>2 DEF IInv, TypeOK
<1>4. NamesSound' /\ MarksSound'
  BY <1>1, <1>2 DEF IInv, NamesSound, MarksSound, Started, Alive
<1>5. intact' => RowsSound' /\ SlotsSound'
  <2>1. intact' => RowsSound'
    BY <1>1, <1>2 DEF IInv, RowsSound, Alive, ActiveRows
  <2>2. intact' => SlotsSound'
    BY <1>1, <1>2, NextSlotSound DEF IInv
  <2>3. QED
    BY <2>1, <2>2
<1>6. OneRunAtATime' /\ BlockedOnlyByRuns' /\ NoSlotTwice'
  BY <1>1, <1>2 DEF IInv, OneRunAtATime, BlockedOnlyByRuns, NoSlotTwice, Alive, ActiveRows
<1>7. QED
  BY <1>3, <1>4, <1>5, <1>6 DEF IInv

LEMMA TurnEndsStep ==
  ASSUME IInv, NEW r \in Runs, TurnEnds(r)
  PROVE  IInv'
<1>1. TypeOK'
  BY BoundsAssumption DEF IInv, TurnEnds, TypeOK, Agent, Ops, NoOp, Runs, ActiveStatuses, FinalStatuses
<1>2. NamesSound'
  BY DEF IInv, TurnEnds, NamesSound, Started, TypeOK, Agent, Ops, NoOp, Runs
<1>3. MarksSound'
  BY DEF IInv, TurnEnds, MarksSound, Alive, ActiveRows, ActiveStatuses, TypeOK, Ops, NoOp
<1>4. (intact => RowsSound /\ SlotsSound)'
  BY DEF IInv, TurnEnds, RowsSound, SlotsSound, Alive, ActiveRows, ActiveStatuses, TypeOK, Agent
<1>5. OneRunAtATime' /\ BlockedOnlyByRuns' /\ NoSlotTwice'
  BY DEF IInv, TurnEnds, RowsSound, SlotsSound, OneRunAtATime, BlockedOnlyByRuns, NoSlotTwice, Alive, ActiveRows, ActiveStatuses, TypeOK, Agent
<1>6. QED
  BY <1>1, <1>2, <1>3, <1>4, <1>5 DEF IInv

LEMMA EditBeginsStep ==
  ASSUME IInv, NEW c \in Clients, NEW enabled \in BOOLEAN, NEW next \in 1 .. MaxSlots + 1,
         EditBegins(c, enabled, next)
  PROVE  IInv'
<1> DEFINE saved == Updated(enabled, next)
<1>1. /\ agent.exists /\ op' = [op EXCEPT ![c] = [kind |-> "edit", saved |-> saved]]
      /\ Backdate(next) /\ requests' \in 0 .. MaxRequests
      /\ UNCHANGED <<agent, row, chatOf, slot, exec, aborted, chat, clock, faults, intact>>
  BY BoundsAssumption DEF EditBegins, Ask, IInv, TypeOK
<1>2. /\ saved \in Agent /\ saved.exists /\ saved.active = agent.active
      /\ backdated' \subseteq 1 .. MaxSlots /\ backdated \subseteq backdated'
  BY <1>1, UpdatedAgent DEF IInv
<1> HIDE DEF saved
<1>3. TypeOK'
  BY <1>1, <1>2 DEF IInv, TypeOK, Ops
<1>4. /\ op'[c] = [kind |-> "edit", saved |-> saved]
      /\ \A d \in Clients \ {c} : op'[d] = op[d]
  BY <1>1 DEF IInv, TypeOK
<1>5. NamesSound' /\ MarksSound'
  BY <1>1, <1>2, <1>4 DEF IInv, NamesSound, MarksSound, Started, Alive
<1>6. intact' => RowsSound' /\ SlotsSound'
  <2>1. intact' => RowsSound'
    BY <1>1 DEF IInv, RowsSound, Alive, ActiveRows
  <2>2. intact' => SlotsSound'
    BY <1>1, <1>2 DEF IInv, SlotsSound
  <2>3. QED
    BY <2>1, <2>2
<1>7. OneRunAtATime' /\ BlockedOnlyByRuns' /\ NoSlotTwice'
  BY <1>1, <1>2 DEF IInv, OneRunAtATime, BlockedOnlyByRuns, NoSlotTwice, Alive, ActiveRows
<1>8. QED
  BY <1>3, <1>5, <1>6, <1>7 DEF IInv

LEMMA EditFailsStep ==
  ASSUME IInv, NEW c \in Clients, EditFails(c)
  PROVE  IInv'
<1>1. TypeOK'
  BY BoundsAssumption DEF IInv, EditFails, TypeOK, Agent, Ops, NoOp, Runs, ActiveStatuses, FinalStatuses
<1>2. NamesSound'
  BY DEF IInv, EditFails, NamesSound, Started, TypeOK, Agent, Ops, NoOp, Runs
<1>3. MarksSound'
  BY DEF IInv, EditFails, MarksSound, Alive, ActiveRows, ActiveStatuses, TypeOK, Ops, NoOp
<1>4. (intact => RowsSound /\ SlotsSound)'
  BY DEF IInv, EditFails, RowsSound, SlotsSound, Alive, ActiveRows, ActiveStatuses, TypeOK, Agent
<1>5. OneRunAtATime' /\ BlockedOnlyByRuns' /\ NoSlotTwice'
  BY DEF IInv, EditFails, RowsSound, SlotsSound, OneRunAtATime, BlockedOnlyByRuns, NoSlotTwice, Alive, ActiveRows, ActiveStatuses, TypeOK, Agent
<1>6. QED
  BY <1>1, <1>2, <1>3, <1>4, <1>5 DEF IInv

LEMMA EditSavesStep ==
  ASSUME IInv, NEW c \in Clients, EditSaves(c)
  PROVE  IInv'
<1>1. /\ op[c].kind = "edit" /\ agent' = op[c].saved
      /\ intact' = (intact /\ ~PutsBack(op[c].saved, agent))
      /\ op' = [op EXCEPT ![c] = NoOp]
      /\ UNCHANGED <<row, chatOf, slot, exec, aborted, chat, clock, requests, faults, backdated>>
  BY DEF EditSaves
<1>2. agent \in Agent /\ agent' \in Agent /\ agent'.exists /\ Started(agent'.active)
  BY <1>1, OpFields DEF IInv, TypeOK, NamesSound
<1>3. TypeOK'
  BY <1>1, <1>2 DEF IInv, TypeOK, Ops
<1>4. NamesSound' /\ MarksSound'
  BY <1>1, <1>2 DEF IInv, NamesSound, MarksSound, Started, Alive, TypeOK, NoOp
<1>5. intact' => /\ intact /\ agent'.exists = agent.exists /\ agent'.active = agent.active
                 /\ agent'.next \in backdated \/ agent'.next = agent.next \/ agent'.next > clock
  BY <1>1, <1>2, NothingPutBack DEF IInv
<1>6. intact' => RowsSound' /\ SlotsSound'
  <2>1. intact' => RowsSound'
    BY <1>1, <1>5 DEF IInv, RowsSound, Alive, ActiveRows
  <2>2. agent'.next \in Nat
    BY <1>2 DEF Agent
  <2>3. intact' => SlotsSound'
    BY <1>1, <1>5, <2>2, NextSlotSound DEF IInv
  <2>4. QED
    BY <2>1, <2>3
<1>7. OneRunAtATime' /\ BlockedOnlyByRuns' /\ NoSlotTwice'
  BY <1>1, <1>5 DEF IInv, OneRunAtATime, BlockedOnlyByRuns, NoSlotTwice, Alive, ActiveRows
<1>8. QED
  BY <1>3, <1>4, <1>6, <1>7 DEF IInv

LEMMA InterruptBeginsStep ==
  ASSUME IInv, NEW c \in Clients, InterruptBegins(c)
  PROVE  IInv'
<1>1. TypeOK'
  BY BoundsAssumption DEF IInv, InterruptBegins, Ask, TypeOK, Agent, Ops, NoOp, Runs, ActiveStatuses, FinalStatuses
<1>2. NamesSound'
  BY DEF IInv, InterruptBegins, Ask, NamesSound, Started, TypeOK, Agent, Ops, NoOp, Runs
<1>3. MarksSound'
  BY DEF IInv, InterruptBegins, Ask, MarksSound, Alive, ActiveRows, ActiveStatuses, TypeOK, Ops, NoOp
<1>4. (intact => RowsSound /\ SlotsSound)'
  BY DEF IInv, InterruptBegins, Ask, RowsSound, SlotsSound, Alive, ActiveRows, ActiveStatuses, TypeOK, Agent
<1>5. OneRunAtATime' /\ BlockedOnlyByRuns' /\ NoSlotTwice'
  BY DEF IInv, InterruptBegins, Ask, RowsSound, SlotsSound, OneRunAtATime, BlockedOnlyByRuns, NoSlotTwice, Alive, ActiveRows, ActiveStatuses, TypeOK, Agent
<1>6. QED
  BY <1>1, <1>2, <1>3, <1>4, <1>5 DEF IInv

LEMMA InterruptFindsNothingStep ==
  ASSUME IInv, NEW c \in Clients, InterruptFindsNothing(c)
  PROVE  IInv'
<1>1. TypeOK'
  BY BoundsAssumption DEF IInv, InterruptFindsNothing, TypeOK, Agent, Ops, NoOp, Runs, ActiveStatuses, FinalStatuses
<1>2. NamesSound'
  BY DEF IInv, InterruptFindsNothing, NamesSound, Started, TypeOK, Agent, Ops, NoOp, Runs
<1>3. MarksSound'
  BY DEF IInv, InterruptFindsNothing, MarksSound, Alive, ActiveRows, ActiveStatuses, TypeOK, Ops, NoOp
<1>4. (intact => RowsSound /\ SlotsSound)'
  BY DEF IInv, InterruptFindsNothing, RowsSound, SlotsSound, Alive, ActiveRows, ActiveStatuses, TypeOK, Agent
<1>5. OneRunAtATime' /\ BlockedOnlyByRuns' /\ NoSlotTwice'
  BY DEF IInv, InterruptFindsNothing, RowsSound, SlotsSound, OneRunAtATime, BlockedOnlyByRuns, NoSlotTwice, Alive, ActiveRows, ActiveStatuses, TypeOK, Agent
<1>6. QED
  BY <1>1, <1>2, <1>3, <1>4, <1>5 DEF IInv

LEMMA InterruptChatStep ==
  ASSUME IInv, NEW c \in Clients, InterruptChat(c)
  PROVE  IInv'
<1> DEFINE r == op[c].run
<1>1. /\ op[c].kind = "interrupt" /\ r \in Runs /\ r \in ActiveRows
      /\ aborted' = [aborted EXCEPT ![r] = aborted[r] \/ Alive(r)]
      /\ op' = [op EXCEPT ![c].chat = TRUE]
      /\ UNCHANGED <<agent, row, chatOf, slot, exec, chat, clock, requests, faults, backdated, intact>>
  BY OpFields DEF InterruptChat, IInv
<1>2. [op[c] EXCEPT !.chat = TRUE] \in [kind : {"interrupt"}, seen : Agent, run : Runs, chat : BOOLEAN]
  BY <1>1, OpFields DEF IInv
<1>3. /\ op'[c].kind = "interrupt" /\ op'[c].seen = op[c].seen /\ op'[c].run = r
      /\ \A d \in Clients \ {c} : op'[d] = op[d]
  BY <1>1, OpFields DEF IInv, TypeOK
<1>4. TypeOK'
  <2>1. op' \in [Clients -> Ops]
    BY <1>1, <1>2 DEF IInv, TypeOK, Ops
  <2>2. aborted' \in [Runs -> BOOLEAN]
    BY <1>1 DEF IInv, TypeOK, Alive
  <2>3. QED
    BY <1>1, <2>1, <2>2 DEF IInv, TypeOK
<1>5. NamesSound'
  BY <1>1, <1>3 DEF IInv, NamesSound, Started
<1>6. \A s \in Runs : aborted'[s] = (aborted[s] \/ (s = r /\ Alive(s)))
  BY <1>1 DEF IInv, TypeOK
<1>7. MarksSound'
  <2>1. \A d \in Clients : op[d].kind = "interrupt" => op[d].run \in Runs
    BY OpFields DEF IInv
  <2>2. \A s \in Runs : ((Alive(s))' <=> Alive(s)) /\ (aborted[s] => aborted'[s])
    BY <1>1, <1>6 DEF Alive
  <2>3. \A s \in Runs : row'[s] = "interrupted" /\ (Alive(s))' => aborted'[s]
    BY <1>1, <2>2 DEF IInv, MarksSound
  <2>4. \A d \in Clients : op'[d].kind = "interrupt" /\ op'[d].chat =>
          op'[d].run \in Runs /\ ((Alive(op[d].run))' => aborted'[op'[d].run])
    <3>1. ASSUME NEW d \in Clients, d # c, op'[d].kind = "interrupt", op'[d].chat
          PROVE  op'[d].run \in Runs /\ ((Alive(op[d].run))' => aborted'[op'[d].run])
      BY <1>3, <2>1, <2>2, <3>1 DEF IInv, MarksSound
    <3>2. op'[c].run = r /\ r \in Runs /\ ((Alive(r))' => aborted'[r])
      BY <1>1, <1>3, <1>6, <2>2
    <3>3. QED
      BY <3>1, <3>2
  <2>5. QED
    BY <2>3, <2>4 DEF MarksSound
<1>8. intact' => RowsSound' /\ SlotsSound'
  BY <1>1, <1>6 DEF IInv, RowsSound, SlotsSound, Alive, ActiveRows
<1>9. OneRunAtATime' /\ BlockedOnlyByRuns' /\ NoSlotTwice'
  BY <1>1, <1>6 DEF IInv, OneRunAtATime, BlockedOnlyByRuns, NoSlotTwice, Alive, ActiveRows
<1>10. QED
  BY <1>4, <1>5, <1>7, <1>8, <1>9 DEF IInv

(* A run is recorded as interrupted: its row leaves the active ones, and   *)
(* the agent an interruption loaded is written back without it.            *)
LEMMA InterruptedRun ==
  ASSUME IInv, NEW c \in Clients, NEW r \in Runs, op[c].kind = "interrupt", r = op[c].run,
         row' = [row EXCEPT ![r] = "interrupted"], InterruptSaves(c, r),
         aborted' \in [Runs -> BOOLEAN], chat' \in [Runs -> {"none", "busy", "idle", "gone"}],
         \A s \in Runs \ {r} : aborted'[s] = aborted[s],
         aborted[r] => aborted'[r], Alive(r) => aborted'[r],
         UNCHANGED <<chatOf, slot, exec, clock, requests, faults, backdated>>
  PROVE  IInv'
<1> DEFINE saved == [op[c].seen EXCEPT !.active = 0]
<1>1. /\ agent' = saved /\ intact' = (intact /\ ~PutsBack(saved, Cleared(r))) /\ op' = [op EXCEPT ![c] = NoOp]
      /\ op[c].seen \in Agent /\ op[c].seen.exists /\ Started(r)
  BY OpFields DEF InterruptSaves, IInv, NamesSound
<1>2. saved \in Agent /\ saved.exists /\ saved.active = 0
  BY <1>1 DEF Agent, Runs
<1>3. /\ row'[r] = "interrupted" /\ \A s \in Runs \ {r} : row'[s] = row[s]
      /\ \A s \in Runs : row[s] # "none" => row'[s] # "none"
  BY DEF IInv, TypeOK
<1>4. TypeOK'
  <2>1. row' \in [Runs -> {"none", "deleted"} \cup ActiveStatuses \cup FinalStatuses]
    BY DEF IInv, TypeOK, FinalStatuses
  <2>2. op' \in [Clients -> Ops]
    BY <1>1 DEF IInv, TypeOK, Ops
  <2>3. QED
    BY <1>1, <1>2, <2>1, <2>2 DEF IInv, TypeOK
<1>5. NamesSound'
  BY <1>1, <1>2, <1>3 DEF IInv, NamesSound, Started, TypeOK, NoOp
<1>6. MarksSound'
  <2>1. \A d \in Clients : op[d].kind = "interrupt" => op[d].run \in Runs
    BY OpFields DEF IInv
  <2>2. \A s \in Runs : ((Alive(s))' <=> Alive(s)) /\ (aborted[s] => aborted'[s])
    BY DEF Alive
  <2>3. \A s \in Runs : row'[s] = "interrupted" /\ (Alive(s))' => aborted'[s]
    BY <1>3, <2>2 DEF IInv, MarksSound
  <2>4. /\ op'[c].kind # "interrupt"
        /\ \A d \in Clients \ {c} : op'[d] = op[d]
    BY <1>1 DEF IInv, TypeOK, NoOp
  <2>5. \A d \in Clients : op'[d].kind = "interrupt" /\ op'[d].chat =>
          op'[d].run \in Runs /\ ((Alive(op[d].run))' => aborted'[op'[d].run])
    BY <2>1, <2>2, <2>4 DEF IInv, MarksSound
  <2>6. QED
    BY <2>3, <2>5 DEF MarksSound
<1>7. intact' => /\ intact /\ agent'.exists = agent.exists
                 /\ agent'.next \in backdated \/ agent'.next = agent.next \/ agent'.next > clock
  BY <1>1, <1>2, ClearedAgent, NothingPutBack DEF IInv
<1>8. \A s \in Runs : s \in ActiveRows' <=> s \in ActiveRows /\ s # r
  BY <1>3 DEF ActiveRows, ActiveStatuses
<1>9. intact' => RowsSound' /\ SlotsSound'
  <2>1. intact' => RowsSound'
    BY <1>1, <1>2, <1>7, <1>8 DEF IInv, RowsSound, Alive
  <2>2. agent'.next \in Nat
    BY <1>1, <1>2 DEF Agent
  <2>3. intact' => SlotsSound'
    BY <1>7, <2>2, NextSlotSound DEF IInv
  <2>4. QED
    BY <2>1, <2>3
<1>10. OneRunAtATime' /\ BlockedOnlyByRuns' /\ NoSlotTwice'
  <2>1. BlockedOnlyByRuns'
    BY <1>1, <1>2, <1>7, <1>8 DEF IInv, BlockedOnlyByRuns, Alive, ActiveRows
  <2>2. OneRunAtATime' /\ NoSlotTwice'
    BY <1>7 DEF IInv, OneRunAtATime, NoSlotTwice, Alive
  <2>3. QED
    BY <2>1, <2>2
<1>11. QED
  BY <1>4, <1>5, <1>6, <1>9, <1>10 DEF IInv

(* An interruption that ends without an effect. *)
LEMMA OpEnds ==
  ASSUME IInv, NEW c \in Clients, op' = [op EXCEPT ![c] = NoOp],
         UNCHANGED <<agent, row, chatOf, slot, exec, aborted, chat, clock, requests, faults, backdated, intact>>
  PROVE  IInv'
<1>1. TypeOK'
  BY DEF IInv, TypeOK, Ops
<1>2. NamesSound' /\ MarksSound'
  BY DEF IInv, NamesSound, MarksSound, Started, Alive, TypeOK, NoOp
<1>3. intact' => RowsSound' /\ SlotsSound'
  BY DEF IInv, RowsSound, SlotsSound, Alive, ActiveRows
<1>4. OneRunAtATime' /\ BlockedOnlyByRuns' /\ NoSlotTwice'
  BY DEF IInv, OneRunAtATime, BlockedOnlyByRuns, NoSlotTwice, Alive, ActiveRows
<1>5. QED
  BY <1>1, <1>2, <1>3, <1>4 DEF IInv

LEMMA InterruptEarlyStep ==
  ASSUME IInv, NEW c \in Clients, InterruptEarly(c)
  PROVE  IInv'
<1> DEFINE r == op[c].run
<1>1. op[c].kind = "interrupt" /\ r \in Runs /\ r \in ActiveRows
  BY OpFields DEF InterruptEarly, IInv
<1>2. CASE Alive(r)
  <2>1. /\ aborted' = [aborted EXCEPT ![r] = TRUE] /\ row' = [row EXCEPT ![r] = "interrupted"]
        /\ InterruptSaves(c, r) /\ UNCHANGED <<chatOf, slot, exec, chat, clock, requests, faults, backdated>>
    BY <1>2 DEF InterruptEarly
  <2>2. /\ aborted' \in [Runs -> BOOLEAN] /\ aborted'[r] /\ \A s \in Runs \ {r} : aborted'[s] = aborted[s]
        /\ chat' \in [Runs -> {"none", "busy", "idle", "gone"}]
    BY <1>1, <2>1 DEF IInv, TypeOK
  <2>3. QED
    BY <1>1, <2>1, <2>2, InterruptedRun
<1>3. CASE ~Alive(r)
  <2>1. /\ op' = [op EXCEPT ![c] = NoOp]
        /\ UNCHANGED <<agent, row, chatOf, slot, exec, aborted, chat, clock, requests, faults, backdated, intact>>
    BY <1>3 DEF InterruptEarly
  <2>2. QED
    BY <2>1, OpEnds
<1>4. QED
  BY <1>2, <1>3

LEMMA InterruptEndsStep ==
  ASSUME IInv, NEW c \in Clients, InterruptEnds(c)
  PROVE  IInv'
<1> DEFINE r == op[c].run
<1>1. op[c].kind = "interrupt" /\ op[c].chat /\ r \in Runs
  BY OpFields DEF InterruptEnds, IInv
<1>2. CASE chat[r] = "gone" \/ (~agent.exists /\ row[r] = "deleted")
  <2>1. /\ op' = [op EXCEPT ![c] = NoOp]
        /\ UNCHANGED <<agent, row, chatOf, slot, exec, aborted, chat, clock, requests, faults, backdated, intact>>
    BY <1>2 DEF InterruptEnds
  <2>2. QED
    BY <2>1, OpEnds
<1>3. CASE ~(chat[r] = "gone" \/ (~agent.exists /\ row[r] = "deleted"))
  <2>1. /\ chat' = [chat EXCEPT ![r] = "idle"] /\ row' = [row EXCEPT ![r] = "interrupted"]
        /\ InterruptSaves(c, r)
        /\ UNCHANGED <<chatOf, slot, exec, aborted, clock, requests, faults, backdated>>
    BY <1>3 DEF InterruptEnds
  <2>2. aborted' \in [Runs -> BOOLEAN] /\ chat' \in [Runs -> {"none", "busy", "idle", "gone"}]
    BY <2>1 DEF IInv, TypeOK
  <2>3. Alive(r) => aborted'[r]
    BY <1>1, <2>1 DEF IInv, MarksSound
  <2>4. QED
    BY <1>1, <2>1, <2>2, <2>3, InterruptedRun
<1>4. QED
  BY <1>2, <1>3

LEMMA DeleteRunBeginsStep ==
  ASSUME IInv, NEW c \in Clients, DeleteRunBegins(c)
  PROVE  IInv'
<1>1. TypeOK'
  BY BoundsAssumption DEF IInv, DeleteRunBegins, Ask, TypeOK, Agent, Ops, NoOp, Runs, ActiveStatuses, FinalStatuses
<1>2. NamesSound'
  BY DEF IInv, DeleteRunBegins, Ask, NamesSound, Started, TypeOK, Agent, Ops, NoOp, Runs
<1>3. MarksSound'
  BY DEF IInv, DeleteRunBegins, Ask, MarksSound, Alive, ActiveRows, ActiveStatuses, TypeOK, Ops, NoOp
<1>4. (intact => RowsSound /\ SlotsSound)'
  BY DEF IInv, DeleteRunBegins, Ask, RowsSound, SlotsSound, Alive, ActiveRows, ActiveStatuses, TypeOK, Agent
<1>5. OneRunAtATime' /\ BlockedOnlyByRuns' /\ NoSlotTwice'
  BY DEF IInv, DeleteRunBegins, Ask, RowsSound, SlotsSound, OneRunAtATime, BlockedOnlyByRuns, NoSlotTwice, Alive, ActiveRows, ActiveStatuses, TypeOK, Agent
<1>6. QED
  BY <1>1, <1>2, <1>3, <1>4, <1>5 DEF IInv

LEMMA DeleteRunStep ==
  ASSUME IInv, NEW c \in Clients, DeleteRun(c)
  PROVE  IInv'
<1>1. TypeOK'
  BY OpFields, BoundsAssumption DEF IInv, DeleteRun, Gone, TypeOK, Agent, Ops, NoOp, Runs, ActiveStatuses, FinalStatuses
<1>2. NamesSound'
  BY OpFields DEF IInv, DeleteRun, Gone, NamesSound, Started, TypeOK, Agent, Ops, NoOp, Runs
<1>3. MarksSound'
  BY OpFields DEF IInv, DeleteRun, Gone, MarksSound, Alive, ActiveRows, ActiveStatuses, TypeOK, Ops, NoOp
<1>4. (intact => RowsSound /\ SlotsSound)'
  BY OpFields DEF IInv, DeleteRun, Gone, RowsSound, SlotsSound, Alive, ActiveRows, ActiveStatuses, TypeOK, Agent
<1>5. OneRunAtATime' /\ BlockedOnlyByRuns' /\ NoSlotTwice'
  BY OpFields DEF IInv, DeleteRun, Gone, RowsSound, SlotsSound, OneRunAtATime, BlockedOnlyByRuns, NoSlotTwice, Alive, ActiveRows, ActiveStatuses, TypeOK, Agent
<1>6. QED
  BY <1>1, <1>2, <1>3, <1>4, <1>5 DEF IInv

LEMMA DeleteAgentBeginsStep ==
  ASSUME IInv, NEW c \in Clients, DeleteAgentBegins(c)
  PROVE  IInv'
<1>1. /\ Ask /\ agent.exists
      /\ op' = [op EXCEPT ![c] = [kind |-> "deleteAgent", runs |-> {r \in Runs : row[r] # "none"}]]
      /\ aborted' = [r \in Runs |-> aborted[r] \/ (r \in ActiveRows /\ Alive(r))]
      /\ row' = [r \in Runs |-> IF r \in ActiveRows /\ ~chatOf[r] THEN "interrupted" ELSE row[r]]
      /\ UNCHANGED <<agent, chatOf, slot, exec, chat, clock, faults, backdated, intact>>
  BY DEF DeleteAgentBegins
<1>2. /\ \A r \in Runs : (aborted[r] => aborted'[r]) /\ (row[r] # "none" => row'[r] # "none")
      /\ \A r \in Runs : row'[r] = "interrupted" /\ Alive(r) => aborted'[r]
      /\ \A r \in Runs : aborted'[r] \in BOOLEAN /\ (Alive(r)' <=> Alive(r))
      /\ \A r \in Runs : r \in ActiveRows /\ Alive(r) => aborted'[r]
      /\ \A r \in Runs : r \in ActiveRows' => r \in ActiveRows
  BY <1>1 DEF IInv, MarksSound, TypeOK, Alive, ActiveRows, ActiveStatuses
<1>3. TypeOK'
  <2>1. op' \in [Clients -> Ops]
    BY <1>1 DEF IInv, TypeOK, Ops
  <2>2. row' \in [Runs -> {"none", "deleted"} \cup ActiveStatuses \cup FinalStatuses]
    BY <1>1 DEF IInv, TypeOK, FinalStatuses
  <2>3. aborted' \in [Runs -> BOOLEAN]
    BY <1>1, <1>2
  <2>4. QED
    BY <1>1, <2>1, <2>2, <2>3, BoundsAssumption DEF IInv, TypeOK, Ask
<1>4. NamesSound'
  BY <1>1, <1>2 DEF IInv, NamesSound, Started, TypeOK
<1>5. MarksSound'
  <2>1. \A d \in Clients : op'[d].kind = "interrupt" => op'[d] = op[d] /\ op[d].run \in Runs
    BY <1>1, OpFields DEF IInv, TypeOK
  <2>2. QED
    BY <1>1, <1>2, <2>1 DEF IInv, MarksSound
<1>6. (intact => RowsSound /\ SlotsSound)'
  <2>1. intact => RowsSound'
    BY <1>1, <1>2 DEF IInv, RowsSound
  <2>2. intact => SlotsSound'
    BY <1>1 DEF IInv, SlotsSound
  <2>3. QED
    BY <1>1, <2>1, <2>2
<1>7. OneRunAtATime' /\ BlockedOnlyByRuns' /\ NoSlotTwice'
  BY <1>1, <1>2 DEF IInv, OneRunAtATime, BlockedOnlyByRuns, NoSlotTwice, TypeOK, Agent, Alive, ActiveRows
<1>8. QED
  BY <1>3, <1>4, <1>5, <1>6, <1>7 DEF IInv

LEMMA DeleteAgentStep ==
  ASSUME IInv, NEW c \in Clients, DeleteAgent(c)
  PROVE  IInv'
<1>1. TypeOK'
  BY OpFields, BoundsAssumption DEF IInv, DeleteAgent, Gone, TypeOK, Agent, Ops, NoOp, Runs, ActiveStatuses, FinalStatuses
<1>2. NamesSound'
  BY OpFields DEF IInv, DeleteAgent, Gone, NamesSound, Started, TypeOK, Agent, Ops, NoOp, Runs
<1>3. MarksSound'
  BY OpFields DEF IInv, DeleteAgent, Gone, MarksSound, Alive, ActiveRows, ActiveStatuses, TypeOK, Ops, NoOp
<1>4. (intact => RowsSound /\ SlotsSound)'
  BY OpFields DEF IInv, DeleteAgent, Gone, RowsSound, SlotsSound, Alive, ActiveRows, ActiveStatuses, TypeOK, Agent
<1>5. OneRunAtATime' /\ BlockedOnlyByRuns' /\ NoSlotTwice'
  BY OpFields DEF IInv, DeleteAgent, Gone, RowsSound, SlotsSound, OneRunAtATime, BlockedOnlyByRuns, NoSlotTwice, Alive, ActiveRows, ActiveStatuses, TypeOK, Agent
<1>6. QED
  BY <1>1, <1>2, <1>3, <1>4, <1>5 DEF IInv

(* The end of an executor. *)
LEMMA FinishStep ==
  ASSUME IInv, NEW r \in Runs, Alive(r), NEW status \in FinalStatuses, Finish(r, status),
         chat' \in [Runs -> {"none", "busy", "idle", "gone"}],
         UNCHANGED <<chatOf, slot, clock, op, requests, faults, backdated, intact>>
  PROVE  IInv'
<1>1. /\ exec' = [exec EXCEPT ![r] = "ended"] /\ aborted' = [aborted EXCEPT ![r] = FALSE]
      /\ agent' = IF agent.exists THEN Cleared(r) ELSE agent
      /\ row' = IF agent.exists THEN [row EXCEPT ![r] = status] ELSE row
  BY DEF Finish
<1>2. /\ ~Alive(r)' /\ \A s \in Runs \ {r} : (Alive(s)' <=> Alive(s)) /\ aborted'[s] = aborted[s]
  BY <1>1 DEF IInv, TypeOK, Alive
<1>3. /\ agent' \in Agent /\ agent'.exists = agent.exists /\ agent'.next = agent.next
      /\ agent'.active \in {agent.active, 0} /\ (agent.exists => agent'.active # r)
  BY <1>1, ClearedAgent DEF IInv, TypeOK, Runs
<1>4. \A s \in Runs \ {r} : row'[s] = row[s]
  BY <1>1 DEF IInv, TypeOK
<1>5. agent.exists => row'[r] = status
  BY <1>1 DEF IInv, TypeOK
<1>6. \A s \in Runs : row[s] # "none" => row'[s] # "none"
  BY <1>1, <1>4, <1>5 DEF FinalStatuses
<1>7. TypeOK'
  BY <1>1, <1>3 DEF IInv, TypeOK
<1>8. NamesSound'
  BY <1>3, <1>6 DEF IInv, NamesSound, Started, TypeOK
<1>9. MarksSound'
  <2>1. \A d \in Clients : op[d].kind = "interrupt" => op[d].run \in Runs
    BY OpFields DEF IInv
  <2>2. \A s \in Runs : row'[s] = "interrupted" /\ (Alive(s))' => aborted'[s]
    BY <1>2, <1>4 DEF IInv, MarksSound
  <2>3. \A d \in Clients : op'[d].kind = "interrupt" /\ op'[d].chat =>
          op'[d].run \in Runs /\ ((Alive(op[d].run))' => aborted'[op'[d].run])
    BY <1>2, <2>1 DEF IInv, MarksSound
  <2>4. QED
    BY <2>2, <2>3 DEF MarksSound
<1>10. \A s \in Runs \ {r} : s \in ActiveRows' <=> s \in ActiveRows
  BY <1>4 DEF ActiveRows
<1>11. agent.exists => r \notin ActiveRows'
  BY <1>5 DEF ActiveRows, ActiveStatuses, FinalStatuses
<1>12. ~agent.exists => ActiveRows' = ActiveRows /\ agent' = agent
  BY <1>1 DEF ActiveRows
<1>13. (intact => RowsSound /\ SlotsSound)'
  <2>1. intact => RowsSound'
    BY <1>2, <1>3, <1>10, <1>12 DEF IInv, RowsSound
  <2>2. intact => SlotsSound'
    BY <1>3 DEF IInv, SlotsSound
  <2>3. QED
    BY <2>1, <2>2
<1>14. BlockedOnlyByRuns'
  <2> SUFFICES ASSUME intact
               PROVE  (\A s \in ActiveRows' : Alive(s)') /\ (agent'.active # 0 => (Alive(agent.active))')
    BY DEF BlockedOnlyByRuns
  <2>1. CASE agent.exists
    <3>1. \A s \in ActiveRows' : s \in Runs /\ s # r
      BY <1>11, <2>1 DEF ActiveRows
    <3>2. agent'.active # 0 => agent'.active \in Runs \ {r} /\ agent'.active = agent.active
      BY <1>3, <2>1 DEF Agent
    <3>3. QED
      BY <1>2, <1>10, <3>1, <3>2 DEF IInv, BlockedOnlyByRuns
  <2>2. CASE ~agent.exists
    BY <1>12, <2>2 DEF IInv, RowsSound
  <2>3. QED
    BY <2>1, <2>2
<1>15. OneRunAtATime' /\ NoSlotTwice'
  BY <1>2 DEF IInv, OneRunAtATime, NoSlotTwice
<1>16. QED
  BY <1>7, <1>8, <1>9, <1>13, <1>14, <1>15 DEF IInv

LEMMA ChatCreatedStep ==
  ASSUME IInv, NEW r \in Runs, ChatCreated(r)
  PROVE  IInv'
<1>1. exec[r] = "creating" /\ Alive(r)
  BY DEF ChatCreated, Alive
<1>2. CASE aborted[r]
  <2>1. Finish(r, "interrupted") /\ UNCHANGED <<chatOf, slot, chat, clock, op, requests, faults, backdated, intact>>
    BY <1>2 DEF ChatCreated
  <2>2. QED
    BY <1>1, <2>1, FinishStep DEF FinalStatuses, IInv, TypeOK
<1>3. CASE ~aborted[r] /\ ~agent.exists
  <2>1. /\ Finish(r, "failed") /\ chat' = [chat EXCEPT ![r] = "idle"]
        /\ UNCHANGED <<chatOf, slot, clock, op, requests, faults, backdated, intact>>
    BY <1>3 DEF ChatCreated
  <2>2. chat' \in [Runs -> {"none", "busy", "idle", "gone"}]
    BY <2>1 DEF IInv, TypeOK
  <2>3. QED
    BY <1>1, <2>1, <2>2, FinishStep DEF FinalStatuses
<1>4. CASE ~aborted[r] /\ agent.exists
  <2>1. /\ exec' = [exec EXCEPT ![r] = "working"] /\ row' = [row EXCEPT ![r] = "running"]
        /\ chatOf' = [chatOf EXCEPT ![r] = TRUE] /\ chat' = [chat EXCEPT ![r] = "busy"]
        /\ UNCHANGED <<agent, aborted, slot, clock, op, requests, faults, backdated, intact>>
    BY <1>4 DEF ChatCreated
  <2>2. /\ \A s \in Runs : Alive(s)' <=> Alive(s)
        /\ row'[r] = "running" /\ \A s \in Runs \ {r} : row'[s] = row[s]
    BY <1>1, <2>1 DEF IInv, TypeOK, Alive
  <2>3. \A s \in Runs : s \in ActiveRows' <=> s \in ActiveRows \/ s = r
    BY <2>2 DEF ActiveRows, ActiveStatuses
  <2>4. TypeOK'
    BY <2>1 DEF IInv, TypeOK, ActiveStatuses
  <2>5. NamesSound'
    BY <2>1, <2>2 DEF IInv, NamesSound, Started
  <2>6. MarksSound'
    <3>1. \A d \in Clients : op[d].kind = "interrupt" => op[d].run \in Runs
      BY OpFields DEF IInv
    <3>2. \A s \in Runs : row'[s] = "interrupted" /\ (Alive(s))' => aborted'[s]
      BY <2>1, <2>2 DEF IInv, MarksSound
    <3>3. \A d \in Clients : op'[d].kind = "interrupt" /\ op'[d].chat =>
            op'[d].run \in Runs /\ ((Alive(op[d].run))' => aborted'[op'[d].run])
      BY <2>1, <2>2, <3>1 DEF IInv, MarksSound
    <3>4. QED
      BY <3>2, <3>3 DEF MarksSound
  <2>7. (intact => RowsSound /\ SlotsSound)'
    BY <1>4, <2>1, <2>2, <2>3 DEF IInv, RowsSound, SlotsSound
  <2>8. BlockedOnlyByRuns'
    <3>1. \A s \in ActiveRows' : s \in Runs /\ (s \in ActiveRows \/ s = r)
      BY <2>3 DEF ActiveRows
    <3>2. agent.active # 0 => agent.active \in Runs
      BY DEF IInv, TypeOK, Agent
    <3>3. QED
      BY <1>1, <2>1, <2>2, <3>1, <3>2 DEF IInv, BlockedOnlyByRuns
  <2>9. OneRunAtATime' /\ NoSlotTwice'
    BY <2>1, <2>2 DEF IInv, OneRunAtATime, NoSlotTwice
  <2>10. QED
    BY <2>4, <2>5, <2>6, <2>7, <2>8, <2>9 DEF IInv
<1>5. QED
  BY <1>2, <1>3, <1>4

LEMMA ChatNotCreatedStep ==
  ASSUME IInv, NEW r \in Runs, ChatNotCreated(r)
  PROVE  IInv'
<1>1. /\ Alive(r) /\ Finish(r, EndOf(r, "failed"))
      /\ UNCHANGED <<chatOf, slot, chat, clock, op, requests, faults, backdated, intact>>
  BY DEF ChatNotCreated, Alive
<1>2. EndOf(r, "failed") \in FinalStatuses
  BY DEF EndOf, FinalStatuses
<1>3. QED
  BY <1>1, <1>2, FinishStep DEF IInv, TypeOK

LEMMA RunEndsStep ==
  ASSUME IInv, NEW r \in Runs, RunEnds(r)
  PROVE  IInv'
<1> DEFINE status == EndOf(r, IF chat[r] = "idle" THEN "completed" ELSE "failed")
<1>1. /\ Alive(r) /\ Finish(r, status)
      /\ UNCHANGED <<chatOf, slot, chat, clock, op, requests, faults, backdated, intact>>
  BY DEF RunEnds, Alive
<1>2. status \in FinalStatuses
  BY DEF EndOf, FinalStatuses
<1>3. QED
  BY <1>1, <1>2, FinishStep DEF IInv, TypeOK

LEMMA RunEndsUnsavedStep ==
  ASSUME IInv, NEW r \in Runs, RunEndsUnsaved(r)
  PROVE  IInv'
<1>1. /\ exec' = [exec EXCEPT ![r] = "ended"] /\ aborted' = [aborted EXCEPT ![r] = FALSE]
      /\ faults < MaxFaults /\ faults' = faults + 1 /\ ~intact' /\ intact' \in BOOLEAN
      /\ UNCHANGED <<agent, row, chatOf, slot, chat, clock, op, requests, backdated>>
  BY DEF RunEndsUnsaved
<1>2. TypeOK'
  <2>1. faults' \in 0 .. MaxFaults
    BY <1>1, BoundsAssumption DEF IInv, TypeOK
  <2>2. QED
    BY <1>1, <2>1 DEF IInv, TypeOK
<1>3. NamesSound' /\ MarksSound'
  BY <1>1 DEF IInv, NamesSound, MarksSound, Started, Alive, TypeOK
<1>4. OneRunAtATime' /\ BlockedOnlyByRuns' /\ NoSlotTwice'
  BY <1>1 DEF OneRunAtATime, BlockedOnlyByRuns, NoSlotTwice
<1>5. QED
  BY <1>1, <1>2, <1>3, <1>4 DEF IInv

(* No run that was not interrupted is on its way when nothing is busy.     *)
LEMMA NobodyWorks ==
  ASSUME IInv, intact, agent.exists, ~Busy, NEW r \in Runs, Alive(r)
  PROVE  aborted[r]
BY DEF IInv, RowsSound, Busy

LEMMA StartStep ==
  ASSUME IInv, agent.exists, ~Busy, NEW r \in Fresh, NEW time \in 0 .. MaxSlots, NEW agentNow \in Agent,
         agentNow.exists, agentNow.active = agent.active,
         time \in {0, agent.next}, agentNow.next > time, agentNow.next >= agent.next,
         agentNow.next \in {agent.next, clock + 1},
         StartRun(r, time, agentNow) \/ StartFails(r, time, agentNow),
         UNCHANGED <<clock, op, requests, faults, backdated, intact>>
  PROVE  IInv'
<1>1. r \in Runs /\ row[r] = "none" /\ agent.active = 0 /\ ActiveRows = {}
  BY DEF Fresh, Busy
<1>2. /\ agent' \in Agent /\ agent'.exists /\ agent'.next = agentNow.next
      /\ agent'.active \in {0, r} /\ (agent'.active = r => exec'[r] = "creating")
      /\ slot' = [slot EXCEPT ![r] = time] /\ UNCHANGED <<chatOf, aborted, chat>>
      /\ row' \in {[row EXCEPT ![r] = "starting"], [row EXCEPT ![r] = "failed"]}
      /\ exec' \in {exec, [exec EXCEPT ![r] = "creating"]}
      /\ row' = [row EXCEPT ![r] = "starting"] => exec' = [exec EXCEPT ![r] = "creating"]
      /\ exec' # exec => row' = [row EXCEPT ![r] = "starting"]
  <2>1. CASE StartRun(r, time, agentNow)
    BY <1>1, <2>1 DEF StartRun, Agent, IInv, TypeOK
  <2>2. CASE StartFails(r, time, agentNow)
    <3>1. [row EXCEPT ![r] = "starting"][r] # [row EXCEPT ![r] = "failed"][r]
      BY <1>1 DEF IInv, TypeOK
    <3>2. QED
      BY <1>1, <2>2, <3>1 DEF StartFails, IInv, TypeOK, Runs
  <2>3. QED
    BY <2>1, <2>2
<1>3. /\ row'[r] \in {"starting", "failed"} /\ \A s \in Runs \ {r} : row'[s] = row[s]
      /\ slot'[r] = time /\ \A s \in Runs \ {r} : slot'[s] = slot[s] /\ exec'[s] = exec[s]
      /\ row'[r] = "starting" => Alive(r)'
      /\ Alive(r)' => Alive(r) \/ row'[r] = "starting"
  BY <1>1, <1>2 DEF IInv, TypeOK, Alive
<1>4. \A s \in Runs \ {r} : Alive(s)' <=> Alive(s)
  BY <1>3 DEF Alive
<1>5. TypeOK'
  <2>1. row' \in [Runs -> {"none", "deleted"} \cup ActiveStatuses \cup FinalStatuses]
    BY <1>2 DEF IInv, TypeOK, ActiveStatuses, FinalStatuses
  <2>2. exec' \in [Runs -> {"none", "creating", "working", "ended"}] /\ slot' \in [Runs -> 0 .. MaxSlots]
    BY <1>2 DEF IInv, TypeOK
  <2>3. QED
    BY <1>2, <2>1, <2>2 DEF IInv, TypeOK
<1>6. NamesSound'
  <2>1. \A s \in Runs : row[s] # "none" => row'[s] # "none"
    BY <1>1, <1>3
  <2>2. (Started(agent.active))'
    BY <1>1, <1>2, <1>3 DEF Started
  <2>3. QED
    BY <2>1, <2>2 DEF IInv, NamesSound, Started
<1>7. MarksSound'
  <2>1. \A c \in Clients : op[c].kind = "interrupt" => op[c].run \in Runs /\ row[op[c].run] # "none"
    BY OpFields DEF IInv, NamesSound, Started, Runs
  <2>2. \A s \in Runs : row'[s] = "interrupted" => s # r
    BY <1>3
  <2>3. \A c \in Clients : op[c].kind = "interrupt" => op[c].run # r
    BY <1>1, <2>1
  <2>4. QED
    BY <1>2, <1>3, <1>4, <2>1, <2>2, <2>3 DEF IInv, MarksSound
<1>8. ASSUME intact
      PROVE  RowsSound' /\ SlotsSound' /\ OneRunAtATime' /\ BlockedOnlyByRuns' /\ NoSlotTwice'
  <2>1. \A s \in Runs : Alive(s) => aborted[s]
    BY <1>8, NobodyWorks
  <2>2. \A s \in Runs : s \in ActiveRows' => s = r /\ row'[r] = "starting"
    BY <1>1, <1>3 DEF ActiveRows, ActiveStatuses
  <2>3. row'[r] = "starting" => r \in ActiveRows'
    BY <1>1 DEF ActiveRows, ActiveStatuses
  <2>4. RowsSound'
    BY <1>2, <1>3, <1>4, <2>1, <2>3 DEF RowsSound
  <2>5. OneRunAtATime'
    BY <1>2, <1>4, <2>1 DEF OneRunAtATime
  <2>6. BlockedOnlyByRuns'
    <3>1. \A s \in ActiveRows' : Alive(s)'
      BY <1>3, <2>2 DEF ActiveRows
    <3>2. agent'.active # 0 => (Alive(agent.active))'
      BY <1>2 DEF Alive
    <3>3. QED
      BY <3>1, <3>2 DEF BlockedOnlyByRuns
  <2>7. clock \in Nat /\ agent.next \in Nat /\ agentNow.next \in Nat /\ \A s \in Runs : slot[s] \in Nat
    BY DEF IInv, TypeOK, Agent
  <2>8. SlotsSound
    BY <1>8 DEF IInv
  <2>9. SlotsSound'
    BY <1>2, <1>3, <2>7, <2>8 DEF SlotsSound
  <2>10. NoSlotTwice'
    <3>1. \A s \in Runs \ {r} : slot[s] # 0 /\ slot[s] \notin backdated => slot[s] # time
      BY <2>7, <2>8 DEF SlotsSound
    <3>2. QED
      BY <1>3, <1>8, <3>1 DEF IInv, NoSlotTwice
  <2>11. QED
    BY <2>4, <2>5, <2>6, <2>9, <2>10
<1>9. ASSUME ~intact PROVE OneRunAtATime' /\ BlockedOnlyByRuns' /\ NoSlotTwice' /\ ~intact'
  BY <1>9 DEF OneRunAtATime, BlockedOnlyByRuns, NoSlotTwice
<1>10. QED
  BY <1>5, <1>6, <1>7, <1>8, <1>9 DEF IInv

LEMMA RunDueStep ==
  ASSUME IInv, RunDue
  PROVE  IInv'
<1>1. PICK r \in Fresh : StartRun(r, agent.next, Advanced) \/ StartFails(r, agent.next, Advanced)
  BY DEF RunDue
<1>2. /\ agent.exists /\ ~Busy /\ agent.next <= clock
      /\ UNCHANGED <<clock, op, requests, faults, backdated, intact>>
  BY DEF RunDue, Due
<1>3. clock \in 1 .. MaxSlots /\ agent.next \in 1 .. MaxSlots + 1 /\ MaxSlots \in Nat
  BY BoundsAssumption DEF IInv, TypeOK, Agent
<1>4. /\ Advanced \in Agent /\ Advanced.exists /\ Advanced.active = agent.active
      /\ Advanced.next = clock + 1
  BY <1>2, AdvancedAgent DEF IInv
<1>5. /\ agent.next \in 0 .. MaxSlots /\ Advanced.next > agent.next /\ Advanced.next >= agent.next
  BY <1>2, <1>3, <1>4
<1>6. QED
  BY <1>1, <1>2, <1>4, <1>5, StartStep

LEMMA RunNowStep ==
  ASSUME IInv, RunNow
  PROVE  IInv'
<1>1. PICK r \in Fresh : StartRun(r, 0, agent)
  BY DEF RunNow
<1>2. agent.exists /\ ~Busy /\ UNCHANGED <<clock, op, requests, faults, backdated, intact>>
  BY DEF RunNow
<1>3. agent \in Agent /\ agent.next > 0 /\ agent.next >= agent.next /\ 0 \in 0 .. MaxSlots
  BY BoundsAssumption DEF IInv, TypeOK, Agent
<1>4. QED
  BY <1>1, <1>2, <1>3, StartStep

LEMMA RestartStep ==
  ASSUME IInv, Restart
  PROVE  IInv'
<1>1. /\ faults < MaxFaults /\ faults' = faults + 1
      /\ exec' = [r \in Runs |-> IF Alive(r) THEN "ended" ELSE exec[r]]
      /\ aborted' = [r \in Runs |-> FALSE] /\ op' = [c \in Clients |-> NoOp]
      /\ row' = Reconciled /\ agent' = [agent EXCEPT !.active = 0]
      /\ UNCHANGED <<chatOf, slot, chat, clock, requests, backdated, intact>>
  BY DEF Restart
<1>2. /\ \A r \in Runs : ~Alive(r)' /\ r \notin ActiveRows'
      /\ \A r \in Runs : row[r] # "none" => row'[r] # "none"
  BY <1>1 DEF Reconciled, Alive, ActiveRows, ActiveStatuses
<1>3. /\ agent' \in Agent /\ agent'.active = 0 /\ agent'.exists = agent.exists /\ agent'.next = agent.next
  BY <1>1 DEF IInv, TypeOK, Agent
<1>4. TypeOK'
  <2>1. row' \in [Runs -> {"none", "deleted"} \cup ActiveStatuses \cup FinalStatuses]
    BY <1>1 DEF IInv, TypeOK, Reconciled, FinalStatuses
  <2>2. faults' \in 0 .. MaxFaults
    BY <1>1, BoundsAssumption DEF IInv, TypeOK
  <2>3. op' \in [Clients -> Ops] /\ aborted' \in [Runs -> BOOLEAN]
    BY <1>1 DEF Ops
  <2>4. exec' \in [Runs -> {"none", "creating", "working", "ended"}]
    BY <1>1 DEF IInv, TypeOK
  <2>5. QED
    BY <1>1, <1>3, <2>1, <2>2, <2>3, <2>4 DEF IInv, TypeOK
<1>5. NamesSound' /\ MarksSound'
  BY <1>1, <1>2, <1>3 DEF NamesSound, MarksSound, Started, NoOp
<1>6. (intact => RowsSound /\ SlotsSound)'
  <2>1. RowsSound'
    BY <1>2, <1>3 DEF RowsSound, ActiveRows
  <2>2. intact => SlotsSound'
    BY <1>1, <1>3 DEF IInv, SlotsSound
  <2>3. QED
    BY <1>1, <2>1, <2>2
<1>7. OneRunAtATime' /\ BlockedOnlyByRuns' /\ NoSlotTwice'
  BY <1>1, <1>2, <1>3 DEF IInv, OneRunAtATime, BlockedOnlyByRuns, NoSlotTwice, ActiveRows
<1>8. QED
  BY <1>4, <1>5, <1>6, <1>7 DEF IInv

-----------------------------------------------------------------------------
LEMMA NextIInv == IInv /\ [Next]_vars => IInv'
<1> SUFFICES ASSUME IInv, [Next]_vars PROVE IInv'
  OBVIOUS
<1>1. CASE SkipDue \/ RunDue \/ RunNow \/ Tock \/ Restart
  BY <1>1, SkipDueStep, RunDueStep, RunNowStep, TockStep, RestartStep
<1>2. ASSUME NEW enabled \in BOOLEAN, NEW next \in 1 .. MaxSlots + 1, Edit(enabled, next) PROVE IInv'
  BY <1>2, EditStep
<1>3. ASSUME NEW r \in Runs, Executor(r) \/ TurnEnds(r) \/ RunEndsUnsaved(r) PROVE IInv'
  BY <1>3, ChatCreatedStep, ChatNotCreatedStep, RunEndsStep, TurnEndsStep, RunEndsUnsavedStep DEF Executor
<1>4. ASSUME NEW c \in Clients, Requests(c) PROVE IInv'
  BY <1>4, EditBeginsStep, EditSavesStep, EditFailsStep, InterruptBeginsStep, InterruptFindsNothingStep,
     InterruptEarlyStep, InterruptChatStep, InterruptEndsStep, DeleteRunBeginsStep, DeleteRunStep,
     DeleteAgentBeginsStep, DeleteAgentStep DEF Requests
<1>5. CASE UNCHANGED vars
  <2>1. TypeOK' /\ NamesSound' /\ MarksSound'
    BY <1>5 DEF vars, IInv, TypeOK, NamesSound, MarksSound, Started, Alive
  <2>2. (intact => RowsSound /\ SlotsSound)'
    BY <1>5 DEF vars, IInv, RowsSound, SlotsSound, Alive, ActiveRows
  <2>3. OneRunAtATime' /\ BlockedOnlyByRuns' /\ NoSlotTwice'
    BY <1>5 DEF vars, IInv, OneRunAtATime, BlockedOnlyByRuns, NoSlotTwice, Alive, ActiveRows
  <2>4. QED
    BY <2>1, <2>2, <2>3 DEF IInv
<1>6. QED
  BY <1>1, <1>2, <1>3, <1>4, <1>5 DEF Next

LEMMA Invariance == Spec => []IInv
BY InitIInv, NextIInv, PTL DEF Spec

(* The agent, its runs and the requests under way are of their types. *)
THEOREM TypeCorrect == Spec => []TypeOK
<1>1. IInv => TypeOK
  BY DEF IInv
<1>2. QED
  BY <1>1, Invariance, PTL

(* Runs exclude each other, whatever ticks, edits, interruptions,          *)
(* deletions and restarts come together.                                   *)
THEOREM RunsExclude == Spec => []OneRunAtATime
<1>1. IInv => OneRunAtATime
  BY DEF IInv
<1>2. QED
  BY <1>1, Invariance, PTL

(* The schedule is never blocked by a run that nobody executes. *)
THEOREM NothingElseBlocks == Spec => []BlockedOnlyByRuns
<1>1. IInv => BlockedOnlyByRuns
  BY DEF IInv
<1>2. QED
  BY <1>1, Invariance, PTL

(* No slot is run a second time, unless a request gave it as the time to   *)
(* run next when it was past, or a save computed before a wait has put it  *)
(* back (~intact): a tick advances the due time beyond the clock before it *)
(* starts the run, and an edit without a wait never sets it back.          *)
THEOREM SlotsRunOnce == Spec => []NoSlotTwice
<1>1. IInv => NoSlotTwice
  BY DEF IInv
<1>2. QED
  BY <1>1, Invariance, PTL

(* The executor of an interrupted run finds the mark, whatever it was      *)
(* waiting for, and nobody else writes over the row but to delete it.      *)
THEOREM InterruptedRunsStay == Spec => InterruptedStays
<1>1. ASSUME IInv, [Next]_vars, NEW r \in Runs, row[r] = "interrupted"
      PROVE  row'[r] \in {"interrupted", "deleted"}
  <2>1. \A s \in Runs : Alive(s) /\ row[s] = "interrupted" => aborted[s]
    BY <1>1 DEF IInv, MarksSound
  <2>2. row \in [Runs -> {"none", "deleted"} \cup ActiveStatuses \cup FinalStatuses]
    BY <1>1 DEF IInv, TypeOK
  <2>3. CASE SkipDue \/ Tock \/ \E enabled \in BOOLEAN, next \in 1 .. MaxSlots + 1 : Edit(enabled, next)
    BY <1>1, <2>3 DEF SkipDue, Tock, Edit
  <2>4. CASE RunDue \/ RunNow
    BY <1>1, <2>2, <2>4 DEF RunDue, RunNow, StartRun, StartFails, Fresh
  <2>5. CASE Restart
    BY <1>1, <2>5 DEF Restart, Reconciled, ActiveRows, ActiveStatuses
  <2>6. ASSUME NEW s \in Runs, Executor(s) \/ TurnEnds(s) \/ RunEndsUnsaved(s)
        PROVE  row'[r] \in {"interrupted", "deleted"}
    <3>1. CASE ChatCreated(s)
      BY <1>1, <2>1, <2>2, <3>1 DEF ChatCreated, Finish, Alive
    <3>2. CASE ChatNotCreated(s)
      BY <1>1, <2>1, <2>2, <3>2 DEF ChatNotCreated, Finish, EndOf, Alive
    <3>3. CASE RunEnds(s)
      BY <1>1, <2>1, <2>2, <3>3 DEF RunEnds, Finish, EndOf, Alive
    <3>4. CASE TurnEnds(s) \/ RunEndsUnsaved(s)
      BY <1>1, <3>4 DEF TurnEnds, RunEndsUnsaved
    <3>5. QED
      BY <2>6, <3>1, <3>2, <3>3, <3>4 DEF Executor
  <2>7. ASSUME NEW c \in Clients, Requests(c)
        PROVE  row'[r] \in {"interrupted", "deleted"}
    <3>1. CASE EditSaves(c) \/ EditFails(c) \/ \E enabled \in BOOLEAN, next \in 1 .. MaxSlots + 1 : EditBegins(c, enabled, next)
      BY <1>1, <3>1 DEF EditBegins, EditSaves, EditFails
    <3>2. CASE InterruptBegins(c) \/ InterruptFindsNothing(c) \/ InterruptChat(c)
      BY <1>1, <3>2 DEF InterruptBegins, InterruptFindsNothing, InterruptChat
    <3>3. CASE InterruptEarly(c) \/ InterruptEnds(c)
      BY <1>1, <2>2, <3>3 DEF InterruptEarly, InterruptEnds
    <3>4. CASE DeleteRunBegins(c) \/ DeleteRun(c)
      BY <1>1, <2>2, <3>4 DEF DeleteRunBegins, DeleteRun
    <3>5. CASE DeleteAgentBegins(c) \/ DeleteAgent(c)
      BY <1>1, <3>5 DEF DeleteAgentBegins, DeleteAgent
    <3>6. QED
      BY <2>7, <3>1, <3>2, <3>3, <3>4, <3>5 DEF Requests
  <2>8. CASE UNCHANGED vars
    BY <1>1, <2>8 DEF vars
  <2>9. QED
    BY <1>1, <2>3, <2>4, <2>5, <2>6, <2>7, <2>8 DEF Next
<1>2. IInv /\ [Next]_vars =>
        [\A r \in Runs : row[r] = "interrupted" => row'[r] \in {"interrupted", "deleted"}]_vars
  BY <1>1
<1>3. QED
  BY <1>2, Invariance, PTL DEF Spec, InterruptedStays

=============================================================================
