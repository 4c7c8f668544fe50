----------------------------- MODULE TaskInputs -----------------------------
(***************************************************************************)
(* The mailbox of a task: TaskInputService (core/engine/engine-inputs.ts), *)
(* the prompt of the iteration loop that consumes from it, native steering *)
(* (task/task-input.ts), the takeovers of task-jumpstart.ts and            *)
(* task-follow-up.ts, and restarts of the server.                          *)
(*                                                                         *)
(* A user message reaches the agent on one of two paths: as the prompt of  *)
(* the next iteration, or steered into the running turn by a native RPC    *)
(* whose outcome may be unknown.  Both paths read the mailbox, await, and  *)
(* read it again; the mailbox is memory that checkpoints copy to the row.  *)
(* JavaScript runs one callback at a time, so an action is the code between*)
(* two awaits.  Steering, reconciliation, stopping and takeovers queue up  *)
(* behind one another (the task's lifecycle queue and operations.run), so  *)
(* one variable, op, holds the one that is in flight.                      *)
(*                                                                         *)
(* An input is known by the message that minted its id; files stands for   *)
(* the identity of its attachments array.                                  *)
(***************************************************************************)
EXTENDS Naturals, FiniteSets

CONSTANTS
  Messages,    \* what users write; each message is sent to the task once
  None,        \* no pending input
  MaxCrashes,  \* bound on restarts of the server
  MaxFaults    \* bound on checkpoints and RPCs that throw

ASSUME BoundsAssumption == MaxCrashes \in Nat /\ MaxFaults \in Nat

VARIABLES
  mem,        \* the input part of the engine's TaskState
  row,        \* the same fields in the tasks and transcript tables
  engine,     \* ctx.engines: "none", "loop", or "idle" (its loop is over)
  status,     \* "running", "stopped" or "completed"
  op,         \* the steer or reconcile in flight
  prompt,     \* the prompt the loop is building or about to send
  native,     \* ids of the inputs in the provider's history
  \* history
  handed,     \* how often the provider was given each content
  authored, acked, withdrawn, taken,   \* what users did, see below
  crashes, faults

history == <<authored, acked, withdrawn, taken>>
counters == <<crashes, faults>>
vars == <<mem, row, engine, status, op, prompt, native, handed, history, counters>>

-----------------------------------------------------------------------------

Admissions == {"none", "unknown", "accepted", "rejected", "delivered"}

Input == [id : Messages, text : Messages, files : BOOLEAN]
Content == [text : Messages, files : BOOLEAN]

ASSUME NoneAssumption == None \notin Messages \cup Input

\* pendingPrompt and pendingInput; harness.inputs; user messages of the transcript
InputState == [pend : Input \cup {None}, receipt : [Messages -> Admissions],
               shown : SUBSET Content]

Operation ==
  [at : {"idle", "preparing", "claiming", "submitting", "answered", "finishing"},
   id : Messages \cup {None}, input : Input \cup {None}, answer : Admissions]
Prompt == [at : {"idle", "preparing", "built", "ready"}, input : Input \cup {None}]

NoOp == [at |-> "idle", id |-> None, input |-> None, answer |-> "none"]
NoPrompt == [at |-> "idle", input |-> None]

Fresh(m) == [id |-> m, text |-> m, files |-> FALSE]
ContentOf(input) == [text |-> input.text, files |-> input.files]
Texts(pend) == IF pend = None THEN {} ELSE {pend.text}

(* assertMutable refuses an input whose receipt is anything but rejected. *)
Admitted(s) == s.pend # None /\ s.receipt[s.pend.id] \notin {"none", "rejected"}

(* peek(): the input the loop or a steer may take. *)
Peek == IF Admitted(mem) THEN None ELSE mem.pend

Shown(s) == [s EXCEPT !.pend = None, !.shown = @ \cup {ContentOf(s.pend)}]

Init ==
  /\ mem = [pend |-> None, receipt |-> [m \in Messages |-> "none"], shown |-> {}]
  /\ row = mem
  /\ engine = "loop"
  /\ status = "running"
  /\ op = NoOp
  /\ prompt = NoPrompt
  /\ native = {}
  /\ handed = [c \in Content |-> 0]
  /\ authored = {} /\ acked = {} /\ withdrawn = {} /\ taken = {}
  /\ crashes = 0 /\ faults = 0

(* A checkpoint succeeds: the row takes over memory, and the callers that  *)
(* stored the pending message are told so.                                 *)
Saved ==
  /\ row' = mem
  /\ acked' = acked \cup Texts(mem.pend)
  /\ UNCHANGED <<authored, withdrawn, taken>>

(* A write or an RPC throws. *)
Fault ==
  /\ faults < MaxFaults
  /\ faults' = faults + 1
  /\ UNCHANGED crashes

-----------------------------------------------------------------------------
(* The user's calls; they do not wait for the lifecycle queue. *)

Active == engine = "loop" /\ status = "running"

(* set(): a new message replaces a pending one that nobody has admitted. *)
Set(m) ==
  /\ Active
  /\ m \notin authored
  /\ ~Admitted(mem)
  /\ mem' = [mem EXCEPT !.pend = Fresh(m)]
  /\ authored' = authored \cup {m}
  /\ withdrawn' = withdrawn \cup Texts(mem.pend)
  /\ UNCHANGED <<row, engine, status, op, prompt, native, handed, acked, taken, counters>>

(* setAttachments(). *)
SetAttachments ==
  /\ Active
  /\ mem.pend # None
  /\ ~Admitted(mem)
  /\ ~mem.pend.files
  /\ mem' = [mem EXCEPT !.pend.files = TRUE]
  /\ UNCHANGED <<row, engine, status, op, prompt, native, handed, history, counters>>

(* Mutant of Clear: assertMutable is not called. *)
ClearAnything ==
  /\ Active
  /\ mem.pend # None
  /\ mem' = [mem EXCEPT !.pend = None]
  /\ withdrawn' = withdrawn \cup Texts(mem.pend)
  /\ UNCHANGED <<row, engine, status, op, prompt, native, handed, authored, acked, taken, counters>>

(* clear(). *)
Clear ==
  /\ Active
  /\ mem.pend # None
  /\ ~Admitted(mem)
  /\ mem' = [mem EXCEPT !.pend = None]
  /\ withdrawn' = withdrawn \cup Texts(mem.pend)
  /\ UNCHANGED <<row, engine, status, op, prompt, native, handed, authored, acked, taken, counters>>

-----------------------------------------------------------------------------
(* The prompt of an iteration. *)

(* buildPrompt up to its await: peek, then prepare the attachments. *)
BuildPrompt ==
  /\ Active
  /\ prompt = NoPrompt
  /\ Peek # None
  /\ prompt' = [at |-> "preparing", input |-> Peek]
  /\ UNCHANGED <<mem, row, engine, status, op, native, handed, history, counters>>

(* Mutant of ConsumePrompt: the mailbox is not read again after the await. *)
ConsumePrepared ==
  /\ prompt.at = "preparing"
  /\ mem' = IF Peek = prompt.input THEN Shown(mem) ELSE mem
  /\ prompt' = [prompt EXCEPT !.at = "built"]
  /\ UNCHANGED <<row, engine, status, op, native, handed, history, counters>>

(* After the await: the input is consumed and emitted as a user message if *)
(* it is still the one that was prepared; otherwise the build starts over. *)
ConsumePrompt ==
  /\ prompt.at = "preparing"
  /\ \/ /\ Peek = prompt.input
        /\ mem' = Shown(mem)
        /\ prompt' = [prompt EXCEPT !.at = "built"]
     \/ /\ Peek # prompt.input
        /\ prompt' = NoPrompt
        /\ UNCHANGED mem
  /\ UNCHANGED <<row, engine, status, op, native, handed, history, counters>>

(* The executor checkpoints before it opens the stream. *)
CheckpointPrompt ==
  /\ prompt.at = "built"
  /\ Saved
  /\ prompt' = [prompt EXCEPT !.at = "ready"]
  /\ UNCHANGED <<mem, engine, status, op, native, handed, counters>>

(* An agent that does not know the session refuses the prompt, and the     *)
(* executor sends it again in a new one: what is counted is the prompt the *)
(* agent takes, not the one it refused.                                    *)
SendPrompt ==
  /\ prompt.at = "ready"
  /\ handed' = [handed EXCEPT ![ContentOf(prompt.input)] = @ + 1]
  /\ prompt' = NoPrompt
  /\ UNCHANGED <<mem, row, engine, status, op, native, history, counters>>

(* The iteration is aborted or fails before its prompt was sent. *)
DropPrompt ==
  /\ prompt # NoPrompt
  /\ prompt' = NoPrompt
  /\ UNCHANGED <<mem, row, engine, status, op, native, handed, history, counters>>

(* Any other checkpoint of the engine. *)
Checkpoint ==
  /\ engine # "none"
  /\ row # mem
  /\ Saved
  /\ UNCHANGED <<mem, engine, status, op, prompt, native, handed, counters>>

-----------------------------------------------------------------------------
(* Native steering. *)

(* steer() up to its first await. *)
Steer ==
  /\ Active
  /\ op = NoOp
  /\ Peek # None
  /\ op' = [NoOp EXCEPT !.at = "preparing", !.id = Peek.id, !.input = Peek]
  /\ UNCHANGED <<mem, row, engine, status, prompt, native, handed, history, counters>>

(* After the attachments are prepared: the input must still be the pending *)
(* one and the task active; then the claim is recorded.                    *)
Claim ==
  /\ op.at = "preparing"
  /\ \/ /\ Peek = op.input
        /\ status = "running"
        /\ mem' = [mem EXCEPT !.receipt[op.id] = "unknown"]
        /\ op' = [op EXCEPT !.at = "claiming"]
     \/ /\ Peek # op.input \/ status # "running"
        /\ op' = NoOp
        /\ UNCHANGED mem
  /\ UNCHANGED <<row, engine, status, prompt, native, handed, history, counters>>

(* Mutant of FlushClaim: the RPC does not wait for the claim to be durable. *)
FlushClaimLater ==
  /\ op.at = "claiming"
  /\ op' = [op EXCEPT !.at = "submitting"]
  /\ UNCHANGED <<mem, row, history, engine, status, prompt, native, handed, counters>>

(* flushInputs() of the claim; when it throws the claim stays in memory. *)
FlushClaim ==
  /\ op.at = "claiming"
  /\ \/ /\ Saved
        /\ op' = [op EXCEPT !.at = "submitting"]
        /\ UNCHANGED counters
     \/ /\ Fault
        /\ op' = NoOp
        /\ UNCHANGED <<row, history>>
  /\ UNCHANGED <<mem, engine, status, prompt, native, handed>>

(* The native RPC: the provider takes the input or not, and its reply may  *)
(* get lost.  An exception that is no validation error leaves the claim.   *)
Submit ==
  /\ op.at = "submitting"
  /\ \/ /\ handed' = [handed EXCEPT ![ContentOf(op.input)] = @ + 1]
        /\ native' = native \cup {op.id}
        /\ \E answer \in {"accepted", "unknown"} :
             op' = [op EXCEPT !.at = "answered", !.answer = answer]
        /\ UNCHANGED counters
     \/ /\ \E answer \in {"rejected", "unknown"} :
             op' = [op EXCEPT !.at = "answered", !.answer = answer]
        /\ UNCHANGED <<handed, native, counters>>
     \/ /\ Fault
        /\ op' = NoOp
        /\ UNCHANGED <<handed, native>>
  /\ UNCHANGED <<mem, row, engine, status, prompt, history>>

(* reconcile(): ask the provider's history about an unresolved receipt,    *)
(* recovering an engine for the owned conversation when there is none.     *)
(* History confirms only what it holds, and may not confirm it yet (or,    *)
(* without the native message id, ever).                                   *)
Reconcile(i) ==
  /\ op = NoOp
  /\ mem.receipt[i] \in {"unknown", "accepted"}
  /\ engine' = IF engine = "none" THEN "idle" ELSE engine
  /\ \E answer \in {"unknown"} \cup (IF i \in native THEN {"delivered"} ELSE {}) :
       op' = [NoOp EXCEPT !.at = "answered", !.id = i, !.answer = answer]
  /\ UNCHANGED <<mem, row, status, prompt, native, handed, history, counters>>

(* Mutant of Finish: the input is released whatever the answer. *)
FinishClearing ==
  /\ op.at = "answered"
  /\ mem' = [mem EXCEPT !.receipt[op.id] = op.answer, !.pend = None]
  /\ op' = [op EXCEPT !.at = "finishing"]
  /\ UNCHANGED <<row, engine, status, prompt, native, handed, history, counters>>

(* finish() up to its flush: record the answer; an admitted input becomes  *)
(* a user message of the transcript and leaves the mailbox.                *)
Finish ==
  /\ op.at = "answered"
  /\ LET answered == [mem EXCEPT !.receipt[op.id] = op.answer]
     IN  mem' = IF /\ op.answer \in {"accepted", "delivered"}
                   /\ mem.pend # None
                   /\ mem.pend.id = op.id
                THEN Shown(answered)
                ELSE answered
  /\ op' = [op EXCEPT !.at = "finishing"]
  /\ UNCHANGED <<row, engine, status, prompt, native, handed, history, counters>>

FlushFinish ==
  /\ op.at = "finishing"
  /\ \/ Saved /\ UNCHANGED counters
     \/ Fault /\ UNCHANGED <<row, history>>
  /\ op' = NoOp
  /\ UNCHANGED <<mem, engine, status, prompt, native, handed>>

-----------------------------------------------------------------------------
(* Engines come and go under the lifecycle queue. *)

(* The loop ends on its own; a steer may still be in flight. *)
LoopEnds ==
  /\ Active
  /\ prompt = NoPrompt
  /\ engine' = "idle"
  /\ status' \in {"completed", "stopped"}
  /\ UNCHANGED <<mem, row, op, prompt, native, handed, history, counters>>

(* stopTask: the final checkpoint succeeds, or the engine is dropped with  *)
(* what it had not saved.                                                  *)
Stop ==
  /\ engine # "none"
  /\ op = NoOp
  /\ prompt = NoPrompt
  /\ engine' = "none"
  /\ status' = IF status = "completed" THEN status ELSE "stopped"
  /\ \/ Saved /\ UNCHANGED <<mem, counters>>
     \/ Fault /\ mem' = row /\ UNCHANGED <<row, history>>
  /\ UNCHANGED <<op, prompt, native, handed>>

(* cleanupIdleTaskEngine. *)
Release ==
  /\ engine = "idle"
  /\ op = NoOp
  /\ engine' = "none"
  /\ mem' = row
  /\ UNCHANGED <<row, status, op, prompt, native, handed, history, counters>>

(* A takeover installs a fresh engine over the row s.  Its predecessor has *)
(* ended: checkpoints of one that still settles, or whose stop timed out,  *)
(* are not modelled.                                                       *)
TakeOver(s) ==
  /\ mem' = s
  /\ row' = s
  /\ engine' = "loop"
  /\ status' = "running"

(* jumpstart: the message overwrites the pending text in the loaded row,   *)
(* under the id and attachments of the input that was pending there.       *)
Jumpstart(m) ==
  /\ op = NoOp
  /\ status # "running"
  /\ m \notin authored
  /\ TakeOver([row EXCEPT !.pend = IF @ = None THEN Fresh(m) ELSE [@ EXCEPT !.text = m]])
  /\ authored' = authored \cup {m}
  /\ acked' = acked \cup {m}
  /\ IF Admitted(row)
     THEN taken' = taken \cup Texts(row.pend) /\ UNCHANGED withdrawn
     ELSE withdrawn' = withdrawn \cup Texts(row.pend) /\ UNCHANGED taken
  /\ UNCHANGED <<op, prompt, native, handed, counters>>

(* jumpstart without a message. *)
Resume ==
  /\ op = NoOp
  /\ status # "running"
  /\ TakeOver(row)
  /\ UNCHANGED <<op, prompt, native, handed, history, counters>>

(* A single-turn follow-up of a completed task goes through set(), on an   *)
(* engine loaded from the row; set() may refuse, after the old engine was  *)
(* taken out of the map.                                                   *)
FollowUp(m) ==
  /\ op = NoOp
  /\ status = "completed"
  /\ m \notin authored
  /\ \/ /\ ~Admitted(row)
        /\ TakeOver([row EXCEPT !.pend = Fresh(m)])
        /\ authored' = authored \cup {m}
        /\ acked' = acked \cup {m}
        /\ withdrawn' = withdrawn \cup Texts(row.pend)
        /\ UNCHANGED taken
     \/ /\ Admitted(row)
        /\ engine' = "none"
        /\ mem' = row
        /\ UNCHANGED <<row, status, history>>
  /\ UNCHANGED <<op, prompt, native, handed, counters>>

(* The server restarts: resetStaleTasks stops what was active. *)
Crash ==
  /\ crashes < MaxCrashes
  /\ crashes' = crashes + 1
  /\ mem' = row
  /\ engine' = "none"
  /\ op' = NoOp
  /\ prompt' = NoPrompt
  /\ status' \in IF status = "running" THEN {"stopped"} ELSE {status, "stopped"}
  /\ UNCHANGED <<row, native, handed, history, faults>>

-----------------------------------------------------------------------------

Next ==
  \/ \E m \in Messages : Set(m) \/ Jumpstart(m) \/ FollowUp(m) \/ Reconcile(m)
  \/ SetAttachments \/ Clear
  \/ BuildPrompt \/ ConsumePrompt \/ CheckpointPrompt \/ SendPrompt \/ DropPrompt
  \/ Checkpoint
  \/ Steer \/ Claim \/ FlushClaim \/ Submit \/ Finish \/ FlushFinish
  \/ LoopEnds \/ Stop \/ Release \/ Resume
  \/ Crash

Spec == Init /\ [][Next]_vars

-----------------------------------------------------------------------------
(* Properties. *)

(* Type invariant of the mailbox.  A task without an engine has its row    *)
(* for memory and nothing of it in flight.                                 *)
TypeOK ==
  /\ mem \in InputState
  /\ row \in InputState
  /\ engine \in {"none", "loop", "idle"}
  /\ status \in {"running", "stopped", "completed"}
  /\ op \in Operation
  /\ prompt \in Prompt
  /\ native \subseteq Messages
  /\ handed \in [Content -> Nat]
  /\ authored \subseteq Messages
  /\ acked \subseteq authored
  /\ withdrawn \subseteq authored
  /\ taken \subseteq authored
  /\ crashes \in 0..MaxCrashes
  /\ faults \in 0..MaxFaults
  /\ engine = "none" => mem = row /\ op = NoOp /\ prompt = NoPrompt

(* A message reaches the provider at most once, whatever the interleaving  *)
(* of prompts, steers, takeovers, lost replies and restarts.               *)
AtMostOnce ==
  \A c, d \in Content : c.text = d.text =>
    /\ handed[c] <= 1
    /\ handed[c] > 0 /\ handed[d] > 0 => c = d

(* What the provider was given is in the transcript with the attachments   *)
(* it was given, or is still held in the mailbox under an unknown receipt. *)
(* (taken: the admitted messages a jumpstart overwrote.)                   *)
NothingSentOffRecord ==
  \A c \in Content : handed[c] > 0 =>
    \/ c \in mem.shown
    \/ /\ mem.pend # None
       /\ ContentOf(mem.pend) = c
       /\ mem.receipt[mem.pend.id] = "unknown"
    \/ c.text \in taken

(* Once the call that stored a message has returned, no failed checkpoint, *)
(* dropped engine or restart loses it: the row holds it as pending or has  *)
(* it in the transcript, unless a user withdrew or replaced it.            *)
AckedIsKept ==
  \A m \in acked :
    \/ row.pend # None /\ row.pend.text = m
    \/ \E c \in row.shown : c.text = m
    \/ m \in withdrawn \cup taken

(* What becomes of a message in the end.  It is open while memory or the   *)
(* row holds it as pending, a prompt was built from it, or memory shows it *)
(* and the row does not know yet.                                          *)
Pending(s, m) == s.pend # None /\ s.pend.text = m
ShownIn(s, m) == \E c \in s.shown : c.text = m
Open(m) ==
  \/ Pending(mem, m) \/ Pending(row, m)
  \/ prompt.at \in {"built", "ready"} /\ prompt.input.text = m
  \/ ShownIn(mem, m) /\ ~ShownIn(row, m)

Copies(m) == handed[[text |-> m, files |-> FALSE]] + handed[[text |-> m, files |-> TRUE]]

FateOf(m) ==
  CASE Copies(m) > 0 -> "given"
    [] Copies(m) = 0 /\ m \notin authored -> "unsent"
    [] Copies(m) = 0 /\ m \in authored ->
         IF Open(m) THEN "held"
         ELSE IF ShownIn(row, m) THEN "shown"
         ELSE IF m \in withdrawn \cup taken THEN "withdrawn"
         ELSE IF m \notin acked THEN "refused" ELSE "lost"

Delivery == INSTANCE MessageDelivery
  WITH fate <- [m \in Messages |-> FateOf(m)], copies <- [m \in Messages |-> Copies(m)]

(* The mailbox promises what a chat does: a message is given to the agent  *)
(* once, and one that was withdrawn, or that no prompt or steer took, is   *)
(* not given later, by no engine that takes the task over and by no restart*)
(* that brings an older row back.                                          *)
ImplementsDelivery == Delivery!Spec

(* What assertMutable says of the mailbox: an admitted input cannot be     *)
(* replaced.  jumpstart writes the row without asking.                     *)
AdmittedIsNotReplaced ==
  [][Admitted(mem) /\ mem'.pend # None => mem'.pend = mem.pend]_vars

=============================================================================
