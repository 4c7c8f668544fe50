-------------------------------- MODULE Chats --------------------------------
(***************************************************************************)
(* One chat with an ACP backend: its queue of messages, the turns that     *)
(* take messages to the agent, the interruptions, and restarts             *)
(* (ChatInteractionService, ChatConversationService).                      *)
(*                                                                         *)
(* Sends, removals and drains of the queue go one at a time through the    *)
(* chat's operation queue; a dispatch holds it from the status "starting"  *)
(* to the start of the prompt.  Interruptions, the consumer of the agent's *)
(* events and "done" do not pass through it.  A handler that awaits only   *)
(* the database runs in one turn of the event loop and is one action; the  *)
(* actions of a dispatch or an interruption divide where it waits for the  *)
(* workspace, the backend or a timer.  What such a wait's end sets off in  *)
(* the same turn of the event loop belongs to the same action.             *)
(***************************************************************************)
EXTENDS Naturals, Sequences, FiniteSets, SequencesExt

CONSTANTS Messages, Users, QueueCapacity, MaxInterrupts, MaxFaults, None

ASSUME BoundsAssumption ==
  /\ QueueCapacity \in Nat \ {0}
  /\ MaxInterrupts \in Nat /\ MaxFaults \in Nat

Startup == [batch : Seq(Messages), phase : {"preparing", "sending"}, interrupted : BOOLEAN]
Interruption == [startup : {"none", "running", "settled"}, stream : BOOLEAN,
                 phase : {"closing", "settling"}]

ASSUME NoneAssumption == None \notin Startup \cup Interruption

VARIABLES
  status,     \* the row's status
  requested,  \* the row's interruptRequested
  queued,     \* the row's queuedMessages
  transcript, \* the user messages of the row's transcript
  session,    \* whether the row names a session
  inputs,     \* inputOperations: what was called and has not ended, in order
  startup,    \* the entry of startupOperations, or None
  stream,     \* whether activeStreams has an entry
  interrupt,  \* per user, the interruption under way, or None
  answer,     \* per message, what its sender was told
  given,      \* per message, how many prompts the agent received with it
  excused,    \* messages a failed, interrupted or crashed startup took along
  interrupts, \* how many interruptions were requested
  faults,     \* how many restarts and unmarked ends of a stream there were
  lost        \* which rare events the properties except have happened

row == <<status, requested, queued, transcript, session>>
ghosts == <<answer, given, excused, lost>>
vars == <<row, inputs, startup, stream, interrupt, ghosts, interrupts, faults>>

Busy == {"starting", "streaming", "interrupting"}
Statuses == Busy \cup {"idle", "failed", "stopped", "done"}
Drain == [kind |-> "drain"]
Send(m) == [kind |-> "send", message |-> m]
Removal(m) == [kind |-> "remove", message |-> m]
Rare == {"unmarked", "timeout", "overtaken", "forgotten"}
Running == {u \in Users : interrupt[u] # None}

Operations == {Drain} \cup {Send(m) : m \in Messages} \cup {Removal(m) : m \in Messages}

TypeOK ==
  /\ status \in Statuses /\ requested \in BOOLEAN /\ session \in BOOLEAN
  /\ queued \in Seq(Messages) /\ Len(queued) <= QueueCapacity
  /\ transcript \subseteq Messages
  /\ inputs \in Seq(Operations)
  /\ \A i, j \in DOMAIN inputs : inputs[i] = Drain /\ inputs[j] = Drain => i = j
  /\ startup \in Startup \cup {None}
  /\ stream \in BOOLEAN
  /\ interrupt \in [Users -> Interruption \cup {None}]
  /\ answer \in [Messages -> {"none", "waiting", "accepted", "refused", "removed"}]
  /\ given \in [Messages -> Nat] /\ excused \subseteq Messages
  /\ interrupts \in 0 .. MaxInterrupts /\ faults \in 0 .. MaxFaults
  /\ lost \subseteq Rare

Init ==
  /\ status = "idle" /\ requested = FALSE /\ queued = <<>> /\ transcript = {}
  /\ session = FALSE /\ inputs = <<>> /\ startup = None /\ stream = FALSE
  /\ interrupt = [u \in Users |-> None]
  /\ answer = [m \in Messages |-> "none"] /\ given = [m \in Messages |-> 0]
  /\ excused = {} /\ interrupts = 0 /\ faults = 0 /\ lost = {}

(***************************************************************************)
(* The operation queue.  The set queuedMessageDrains has the chat exactly  *)
(* while a drain is in it, and drops what is scheduled meanwhile.          *)
(***************************************************************************)
Scheduled(ops) == IF Contains(ops, Drain) THEN ops ELSE Append(ops, Drain)

ShouldQueue == stream \/ status \in Busy

\* The queue without msgs, in order: filter().
Kept(msgs) ==
  LET left == {i \in DOMAIN queued : queued[i] \notin msgs}
      rank(i) == Cardinality({j \in left : j <= i})
  IN [k \in 1 .. Cardinality(left) |-> queued[CHOOSE i \in left : rank(i) = k]]

\* A client calls; a message is sent once, a removal names a queued message.
Call ==
  /\ \E m \in Messages :
       \/ /\ answer[m] = "none"
          /\ answer' = [answer EXCEPT ![m] = "waiting"]
          /\ inputs' = Append(inputs, Send(m))
       \/ /\ Contains(queued, m) /\ ~Contains(inputs, Removal(m))
          /\ inputs' = Append(inputs, Removal(m))
          /\ UNCHANGED answer
  /\ UNCHANGED <<row, startup, stream, interrupt, given, excused, lost, interrupts, faults>>

HeadIs(kind) == inputs # <<>> /\ Head(inputs).kind = kind /\ startup = None

Drained == Head(inputs) = Drain

Told(result) ==
  answer' = IF Drained THEN answer ELSE [answer EXCEPT ![Head(inputs).message] = result]

Enqueued ==
  IF Len(queued) < QueueCapacity
  THEN queued' = Append(queued, Head(inputs).message) /\ Told("accepted")
  ELSE UNCHANGED queued /\ Told("refused")

\* A message for a busy chat is appended to the queue, unless that is full.
Enqueue ==
  /\ HeadIs("send") /\ ShouldQueue
  /\ Enqueued /\ inputs' = Tail(inputs)
  /\ UNCHANGED <<status, requested, transcript, session, startup, stream, interrupt, given,
                 excused, lost, interrupts, faults>>

\* Mutant: a removal does not wait for the dispatch in progress.
RemoveAtOnce ==
  \E i \in DOMAIN inputs :
    /\ inputs[i].kind = "remove"
    /\ LET m == inputs[i].message
       IN /\ queued' = Kept({m})
          /\ answer' = IF Contains(queued, m) THEN [answer EXCEPT ![m] = "removed"] ELSE answer
    /\ inputs' = RemoveAt(inputs, i)
    /\ UNCHANGED <<status, requested, transcript, session, startup, stream, interrupt, given,
                   excused, lost, interrupts, faults>>

RemoveQueued ==
  /\ HeadIs("remove")
  /\ LET m == Head(inputs).message
     IN /\ queued' = Kept({m})
        /\ answer' = IF Contains(queued, m) THEN [answer EXCEPT ![m] = "removed"] ELSE answer
  /\ inputs' = Tail(inputs)
  /\ UNCHANGED <<status, requested, transcript, session, startup, stream, interrupt, given,
                 excused, lost, interrupts, faults>>

\* A drain of an empty queue or of a busy chat ends without effect.
DrainNothing ==
  /\ HeadIs("drain") /\ (ShouldQueue \/ queued = <<>>)
  /\ inputs' = Tail(inputs)
  /\ UNCHANGED <<row, startup, stream, interrupt, ghosts, interrupts, faults>>

(***************************************************************************)
(* A dispatch.  A message sent to a free chat is written to the transcript *)
(* at once; the messages of a drain stay in the queue until their prompt   *)
(* is ready.  A drain takes the messages up to the first that comes from   *)
(* another client; which one that is, is left open.                        *)
(***************************************************************************)
Begins(batch) ==
  /\ status' = "starting" /\ requested' = FALSE
  /\ startup' = [batch |-> batch, phase |-> "preparing", interrupted |-> FALSE]

SendDirectly ==
  /\ HeadIs("send") /\ ~ShouldQueue
  /\ LET m == Head(inputs).message
     IN Begins(<<m>>) /\ transcript' = transcript \cup {m}
  /\ UNCHANGED <<queued, session, inputs, stream, interrupt, ghosts, interrupts, faults>>

SendQueued ==
  /\ HeadIs("drain") /\ ~ShouldQueue
  /\ \E n \in 1 .. Len(queued) : Begins(SubSeq(queued, 1, n))
  /\ UNCHANGED <<queued, transcript, session, inputs, stream, interrupt, ghosts, interrupts,
                 faults>>

Batch == ToSet(startup.batch)

\* Mutant: the prompt of a drain empties the queue.
ClearedAll == IF Drained THEN <<>> ELSE queued

\* The queue after the prompt of a drain was prepared.
Cleared == IF Drained THEN Kept(Batch) ELSE queued

\* A dispatch that has prepared so far, and finds its row as it wrote it.
Prepares ==
  /\ startup # None /\ startup.phase = "preparing" /\ ~startup.interrupted
  /\ status = "starting"

\* A chat without a session gets one, and its row names it before the prompt
\* is there: a later interruption finds it although the startup has failed.
SessionCreated ==
  /\ Prepares /\ ~session
  /\ session' = TRUE
  /\ UNCHANGED <<status, requested, queued, transcript, inputs, startup, stream, interrupt,
                 ghosts, interrupts, faults>>

\* The stream is registered and the chat "streaming" before the prompt is sent.
Prompt ==
  /\ Prepares /\ session
  /\ queued' = Cleared /\ transcript' = transcript \cup Batch
  /\ status' = "streaming" /\ requested' = FALSE /\ stream' = TRUE
  /\ startup' = [startup EXCEPT !.phase = "sending"]
  /\ UNCHANGED <<session, inputs, interrupt, ghosts, interrupts, faults>>

\* Mutant: an interruption that found nothing to stop leaves the row alone.
CompletesWhatItFound(i, st, req, next) ==
  /\ ~(i.startup # "none" /\ st = "failed")
  /\ \/ i.startup # "none" /\ (next = None \/ i.startup = "running")
     \/ i.stream

(***************************************************************************)
(* An interruption ends: unless the startup it found has failed, the chat  *)
(* becomes idle when that startup is not followed by another, when a       *)
(* stream was found, or when the row still says so.                        *)
(***************************************************************************)
Completes(i, st, req, next) ==
  /\ ~(i.startup # "none" /\ st = "failed")
  /\ \/ i.startup # "none" /\ (next = None \/ i.startup = "running")
     \/ i.stream
     \/ st = "interrupting" \/ req

\* The interruptions of the users in us end, with the row st and req before.
End(us, st, req, next) ==
  LET completes == \E u \in us : Completes(interrupt[u], st, req, next)
  IN /\ status' = IF completes THEN "idle" ELSE st
     /\ requested' = (req /\ ~completes)

\* The head of the operation queue ends; the interruptions waiting for its
\* startup end with it, those still closing the backend will find it settled.
Settling == {u \in Running : interrupt[u].phase = "settling"}
\* Mutant: the interruptions that waited schedule no drain.
SettlesSilently(ops) ==
  /\ startup' = None
  /\ interrupt' = [u \in Users |->
       IF interrupt[u] = None \/ u \in Settling THEN None
       ELSE IF interrupt[u].startup = "running" THEN [interrupt[u] EXCEPT !.startup = "settled"]
       ELSE interrupt[u]]
  /\ inputs' = ops

Settles(ops) ==
  /\ startup' = None
  /\ interrupt' = [u \in Users |->
       IF interrupt[u] = None \/ u \in Settling THEN None
       ELSE IF interrupt[u].startup = "running" THEN [interrupt[u] EXCEPT !.startup = "settled"]
       ELSE interrupt[u]]
  /\ inputs' = IF Settling = {} THEN ops ELSE Scheduled(ops)

\* The prompt reaches the agent and its events are consumed from here on.
Started ==
  /\ startup # None /\ startup.phase = "sending" /\ stream /\ status = "streaming"
  /\ given' = [m \in Messages |-> given[m] + (IF m \in Batch THEN 1 ELSE 0)]
  /\ Told("accepted") /\ Settles(Tail(inputs))
  /\ UNCHANGED <<row, stream, excused, lost, interrupts, faults>>

\* The handle was closed in between: the prompt may have been sent or not,
\* nobody consumes its events, and the interruption has the last word.
StartedClosed ==
  /\ startup # None /\ startup.phase = "sending" /\ ~stream
  /\ \E sent \in BOOLEAN :
       given' = [m \in Messages |-> given[m] + (IF sent /\ m \in Batch THEN 1 ELSE 0)]
  /\ excused' = excused \cup Batch
  /\ Told("accepted") /\ End(Settling, status, requested, None) /\ Settles(Tail(inputs))
  /\ UNCHANGED <<queued, transcript, session, stream, lost, interrupts, faults>>

\* An interrupted startup stops where it next looks, and leaves an idle chat.
StartInterrupted ==
  /\ startup # None /\ startup.interrupted
  /\ status' = "idle" /\ requested' = FALSE
  /\ excused' = excused \cup (Batch \cap transcript)
  /\ Told("accepted") /\ Settles(Tail(inputs))
  /\ UNCHANGED <<queued, transcript, session, stream, given, lost, interrupts, faults>>

\* The workspace, the backend, the attachments or the prompt fail: the chat
\* fails, and other messages are drained unless the attachments were at fault.
StartFails ==
  /\ startup # None /\ ~startup.interrupted
  /\ status' = "failed" /\ requested' = FALSE /\ stream' = FALSE
  /\ excused' = excused \cup (Batch \cap transcript)
  /\ Told("refused")
  /\ \E attachments \in (IF startup.phase = "preparing" THEN BOOLEAN ELSE {FALSE}) :
       Settles(IF queued = <<>> \/ attachments THEN Tail(inputs)
               ELSE Tail(Scheduled(inputs)))
  /\ UNCHANGED <<queued, transcript, session, given, lost, interrupts, faults>>

\* The row is no longer what the dispatch wrote: it finds the chat changed,
\* possibly with the prompt sent, and gives up.  Its message would be queued
\* if the chat were busy, but nothing makes it so without interrupting it.
StartOvertaken ==
  /\ startup # None /\ ~startup.interrupted
  /\ status # (IF startup.phase = "preparing" THEN "starting" ELSE "streaming")
  /\ stream' = FALSE
  /\ given' = [m \in Messages |->
       given[m] + (IF startup.phase = "sending" /\ m \in Batch THEN 1 ELSE 0)]
  /\ Told("refused") /\ excused' = excused \cup (Batch \cap transcript)
  /\ Settles(Tail(inputs))
  /\ UNCHANGED <<status, requested, queued, transcript, session, lost, interrupts, faults>>

(***************************************************************************)
(* The consumer of the agent's events.                                     *)
(***************************************************************************)
Consuming == stream /\ startup = None

\* Mutant: the end of a turn schedules no drain.
TurnCompletesQuietly ==
  /\ Consuming
  /\ status' = "idle" /\ requested' = FALSE /\ stream' = FALSE
  /\ UNCHANGED <<queued, transcript, session, inputs, startup, interrupt, ghosts, interrupts,
                 faults>>

\* The prompt completes, or the stream was inactive for too long.
TurnCompletes ==
  /\ Consuming
  /\ status' = "idle" /\ requested' = FALSE /\ stream' = FALSE
  /\ inputs' = Scheduled(inputs)
  /\ UNCHANGED <<queued, transcript, session, startup, interrupt, ghosts, interrupts, faults>>

TurnFails ==
  /\ Consuming
  /\ status' = "failed" /\ requested' = FALSE /\ stream' = FALSE
  /\ inputs' = Scheduled(inputs)
  /\ UNCHANGED <<queued, transcript, session, startup, interrupt, ghosts, interrupts, faults>>

\* The stream closes without a terminal event, or with a cancellation nobody
\* asked for: the entry is cleared, the row keeps its status.
TurnEndsUnmarked ==
  /\ Consuming /\ faults < MaxFaults /\ faults' = faults + 1
  /\ stream' = FALSE /\ inputs' = Scheduled(inputs) /\ lost' = lost \cup {"unmarked"}
  /\ UNCHANGED <<row, startup, interrupt, answer, given, excused, interrupts>>

(***************************************************************************)
(* Interruptions.  The connection that one closes is the one it found; the *)
(* interruptions of a chat share the closing of its connection.            *)
(***************************************************************************)
Interrupt(u) ==
  /\ interrupt[u] = None /\ interrupts < MaxInterrupts
  /\ session \/ startup # None \/ stream
  /\ interrupt' = [interrupt EXCEPT ![u] =
       [startup |-> IF startup = None THEN "none" ELSE "running", stream |-> stream,
        phase |-> "closing"]]
  /\ startup' = IF startup = None THEN None ELSE [startup EXCEPT !.interrupted = TRUE]
  /\ status' = "interrupting" /\ requested' = TRUE /\ stream' = FALSE
  /\ inputs' = IF Consuming THEN Scheduled(inputs) ELSE inputs
  /\ interrupts' = interrupts + 1
  /\ UNCHANGED <<queued, transcript, session, ghosts, faults>>

Closing == {u \in Running : interrupt[u].phase = "closing"}
Waits(u) == interrupt[u].startup = "running"

\* The backend is disconnected; who found a startup waits until it settles.
Disconnected ==
  /\ Closing # {}
  /\ LET ending == {u \in Closing : ~Waits(u)}
     IN /\ interrupt' = [u \in Users |->
             IF u \in ending THEN None
             ELSE IF u \in Closing THEN [interrupt[u] EXCEPT !.phase = "settling"]
             ELSE interrupt[u]]
        /\ End(ending, status, requested, startup)
        /\ inputs' = IF ending = {} THEN inputs ELSE Scheduled(inputs)
        /\ lost' = IF startup # None /\ status' # status THEN lost \cup {"overtaken"} ELSE lost
  /\ UNCHANGED <<queued, transcript, session, startup, stream, answer, given, excused,
                 interrupts, faults>>

\* The startup did not settle within five seconds.
SettleTimeout(u) ==
  /\ u \in Settling
  /\ interrupt' = [interrupt EXCEPT ![u] = None]
  /\ End({u}, status, requested, startup)
  /\ inputs' = Scheduled(inputs) /\ lost' = lost \cup {"timeout"}
  /\ UNCHANGED <<queued, transcript, session, startup, stream, answer, given, excused,
                 interrupts, faults>>

(***************************************************************************)
(* "Done", and a restart: the rows that were busy are stopped, the queue   *)
(* stays, and nothing is scheduled.                                        *)
(***************************************************************************)
MarkDone ==
  /\ ~ShouldQueue /\ status # "done"
  /\ status' = "done" /\ requested' = FALSE
  /\ UNCHANGED <<queued, transcript, session, inputs, startup, stream, interrupt, ghosts,
                 interrupts, faults>>

Restart ==
  /\ faults < MaxFaults /\ faults' = faults + 1
  /\ status' = IF status \in Busy THEN "stopped" ELSE status
  /\ requested' = (requested /\ status \notin Busy)
  /\ excused' = IF startup = None THEN excused ELSE excused \cup (Batch \cap transcript)
  /\ answer' = [m \in Messages |-> IF answer[m] = "waiting" THEN "refused" ELSE answer[m]]
  /\ inputs' = <<>> /\ startup' = None /\ stream' = FALSE
  /\ interrupt' = [u \in Users |-> None]
  /\ lost' = IF queued # <<>> /\ status \notin Busy THEN lost \cup {"forgotten"} ELSE lost
  /\ UNCHANGED <<queued, transcript, session, given, interrupts>>

Work == Enqueue \/ RemoveQueued \/ DrainNothing \/ SendDirectly \/ SendQueued
Dispatch ==
  \/ SessionCreated \/ Prompt \/ Started
  \/ StartedClosed \/ StartInterrupted \/ StartFails \/ StartOvertaken

Next ==
  \/ Call \/ Work \/ Dispatch
  \/ TurnCompletes \/ TurnFails \/ TurnEndsUnmarked
  \/ \E u \in Users : Interrupt(u) \/ SettleTimeout(u)
  \/ Disconnected \/ MarkDone \/ Restart

Spec == Init /\ [][Next]_vars

\* What was queued runs, waits of a startup and of the agent end (the startup
\* by an error at the latest, the turn by its inactivity timeout), and so does
\* closing a connection.
FairSpec == /\ Spec /\ WF_vars(Work) /\ WF_vars(Dispatch)
            /\ WF_vars(TurnCompletes) /\ WF_vars(Disconnected)

(***************************************************************************)
(* Properties.                                                             *)
(***************************************************************************)
\* No prompt is ever sent twice: not by a drain that follows an interrupted
\* or failed one, not after a restart (chat-conversation-service.ts:438).
SentOnce == \A m \in Messages : given[m] <= 1

\* A message whose sender was told it was accepted, or whose turn crashed, is
\* in the queue, was taken out by the user, reached the agent, or is in the
\* transcript after a startup that ended badly; never in queue and transcript.
NothingLost ==
  /\ \A m \in Messages : answer[m] = "accepted" =>
       \/ Contains(queued, m) \/ given[m] > 0 \/ m \in transcript \cap excused
       \/ startup # None /\ m \in Batch
  /\ transcript \cap ToSet(queued) = {}

\* A busy row has somebody who will end it: a startup, a stream, or an
\* interruption; a busy row without one refuses every message until a restart.
BusyRowHasTurn ==
  status \in Busy /\ "unmarked" \notin lost =>
    startup # None \/ stream \/ Running # {}

\* A queue that is not served has a cause the user sees: the chat failed, was
\* stopped or is done.  Otherwise a drain, a turn or an interruption is there.
NoStrandedQueue ==
  queued # <<>> /\ lost = {} /\ status \notin {"failed", "stopped", "done"} =>
    Contains(inputs, Drain) \/ startup # None \/ stream \/ Running # {}

\* What has become of a message, and that it is what MessageDelivery promises:
\* a message that was withdrawn, refused or only shown is never sent later, and
\* one that was accepted does not vanish.
FateOf(m) ==
  IF given[m] > 0 THEN "given"
  ELSE CASE answer[m] = "none" -> "unsent"
         [] answer[m] = "waiting" -> "held"
         [] answer[m] = "removed" -> "withdrawn"
         [] answer[m] = "refused" -> "refused"
         [] answer[m] = "accepted" ->
              IF Contains(queued, m) \/ (startup # None /\ m \in Batch) THEN "held"
              ELSE IF m \in transcript \cap excused THEN "shown" ELSE "lost"

Delivery == INSTANCE MessageDelivery
  WITH fate <- [m \in Messages |-> FateOf(m)], copies <- given

ImplementsDelivery == Delivery!Spec

\* A message that waits is taken up by a turn or removed, or the chat stops.
QueuedIsServed ==
  \A m \in Messages :
    Contains(queued, m) ~>
      \/ ~Contains(queued, m) \/ lost # {}
      \/ status \in {"failed", "stopped", "done"}
==============================================================================
