--------------------------- MODULE TaskInputsProofs ---------------------------
(***************************************************************************)
(* For any set of messages and any bound on restarts and faults: a message *)
(* reaches the agent at most once, what reached it is on record, and what  *)
(* a user was told is stored is kept.  The argument is that memory and row *)
(* are each fit to go on from (Sound), because a restart may make the row  *)
(* the memory at any moment, and that what a prompt or a claim is about to *)
(* hand over was never handed over before.                                 *)
(***************************************************************************)
EXTENDS TaskInputs, TLAPS

Given(m, ha) == \E c \in Content : c.text = m /\ ha[c] > 0

Spent(m) == Given(m, handed)

Holds(s, m) == s.pend # None /\ s.pend.text = m

Recorded(s, ha, ta) ==
  \A c \in Content : ha[c] > 0 =>
    \/ c \in s.shown
    \/ s.pend # None /\ ContentOf(s.pend) = c /\ s.receipt[s.pend.id] = "unknown"
    \/ c.text \in ta

Keeps(s, ac, wi, ta) ==
  \A m \in ac :
    \/ Holds(s, m)
    \/ \E c \in s.shown : c.text = m
    \/ m \in wi \cup ta

(* A mailbox the engine may run from, given what was authored, handed to   *)
(* the agent, acknowledged, withdrawn and taken over: what it may still    *)
(* send was not sent.                                                      *)
SoundIn(s, au, ha, ac, wi, ta) ==
  /\ s \in InputState
  /\ s.pend # None => s.pend.text \in au /\ (Given(s.pend.text, ha) => Admitted(s))
  /\ Recorded(s, ha, ta)
  /\ Keeps(s, ac, wi, ta)

Sound(s) == SoundIn(s, authored, handed, acked, withdrawn, taken)

(* Only a running engine builds prompts. *)
Engines ==
  /\ engine = "loop" <=> status = "running"
  /\ engine # "loop" => prompt = NoPrompt

(* The claim in flight is the pending input and was not handed over; from  *)
(* the claim's checkpoint to the RPC the row agrees with memory.           *)
Claims ==
  /\ op.at = "preparing" => op.input \in Input /\ op.id = op.input.id
  /\ op.at \in {"claiming", "submitting"} \/ (op.at = "answered" /\ op.answer = "rejected")
       => /\ op.input \in Input /\ op.id = op.input.id
          /\ mem.pend = op.input /\ mem.receipt[op.id] = "unknown"
          /\ ~Spent(op.input.text)
  /\ op.at = "submitting" => row = mem
  /\ op.at = "answered" => op.answer # "none"

(* A prompt that was built holds an input that left the mailbox unsent,    *)
(* and once it may be sent the row knows that it left.                     *)
Prompts ==
  /\ prompt.at # "idle" => prompt.input \in Input /\ prompt.input.text \in authored
  /\ prompt.at \in {"built", "ready"} =>
       /\ ~Spent(prompt.input.text)
       /\ ~Holds(mem, prompt.input.text)
       /\ ContentOf(prompt.input) \in mem.shown
  /\ prompt.at = "ready" =>
       /\ ~Holds(row, prompt.input.text)
       /\ ContentOf(prompt.input) \in row.shown

Authored == \A c \in Content : handed[c] > 0 => c.text \in authored

IInv ==
  /\ TypeOK /\ AtMostOnce /\ Authored
  /\ Sound(mem) /\ Sound(row)
  /\ Engines /\ Claims /\ Prompts

-----------------------------------------------------------------------------
(* How a mailbox changes, and why it stays sound.                          *)

LEMMA ShownType ==
  ASSUME NEW s \in InputState, s.pend # None
  PROVE  /\ Shown(s) \in InputState
         /\ Shown(s).pend = None /\ Shown(s).receipt = s.receipt
         /\ Shown(s).shown = s.shown \cup {ContentOf(s.pend)}
         /\ ContentOf(s.pend) \in Content
         /\ ContentOf(s.pend).text = s.pend.text
  <1>1. s.pend \in Input
    BY DEF InputState
  <1>2. ContentOf(s.pend) \in Content /\ ContentOf(s.pend).text = s.pend.text
    BY <1>1 DEF ContentOf, Content, Input
  <1>3. QED
    BY <1>2 DEF Shown, InputState

LEMMA FreshType ==
  ASSUME NEW m \in Messages
  PROVE  Fresh(m) \in Input /\ Fresh(m) # None /\ Fresh(m).text = m
  <1>1. Fresh(m) \in Input /\ Fresh(m).text = m
    BY DEF Fresh, Input
  <1>2. QED
    BY <1>1, NoneAssumption

LEMMA SoundStays ==
  ASSUME NEW s, NEW au, NEW ha, NEW ac, NEW wi, NEW ta, SoundIn(s, au, ha, ac, wi, ta),
         NEW au2, NEW wi2, NEW ta2, au \subseteq au2, wi \subseteq wi2, ta \subseteq ta2
  PROVE  SoundIn(s, au2, ha, ac, wi2, ta2)
  BY DEF SoundIn, Recorded, Keeps

(* The pending input becomes a user message of the transcript.             *)
LEMMA SoundShown ==
  ASSUME NEW s, NEW au, NEW ha, NEW ac, NEW wi, NEW ta, SoundIn(s, au, ha, ac, wi, ta),
         s.pend # None
  PROVE  SoundIn(Shown(s), au, ha, ac, wi, ta)
  <1>1. /\ Shown(s) \in InputState
        /\ Shown(s).pend = None
        /\ Shown(s).shown = s.shown \cup {ContentOf(s.pend)}
        /\ ContentOf(s.pend).text = s.pend.text
    BY ShownType DEF SoundIn
  <1>2. Recorded(Shown(s), ha, ta)
    BY <1>1 DEF SoundIn, Recorded
  <1>3. Keeps(Shown(s), ac, wi, ta)
    BY <1>1 DEF SoundIn, Keeps, Holds
  <1>4. QED
    BY <1>1, <1>2, <1>3 DEF SoundIn

(* The pending input gives way to another one, or to none; what it was is  *)
(* among the withdrawn messages, or among those taken over if it had been  *)
(* admitted, unless the other one has the same text.                       *)
LEMMA SoundReplaced ==
  ASSUME NEW s, NEW au, NEW ha, NEW ac, NEW wi, NEW ta, SoundIn(s, au, ha, ac, wi, ta),
         NEW t \in InputState, t.receipt = s.receipt, t.shown = s.shown,
         NEW au2, NEW ac2, NEW wi2, NEW ta2,
         au \subseteq au2, wi \subseteq wi2, ta \subseteq ta2,
         t.pend # None => t.pend.text \in au2 /\ ~Given(t.pend.text, ha),
         ac2 \subseteq ac \cup Texts(t.pend),
         Texts(s.pend) \subseteq wi2 \cup ta2 \cup Texts(t.pend),
         Admitted(s) => Texts(s.pend) \subseteq ta2
  PROVE  SoundIn(t, au2, ha, ac2, wi2, ta2)
  <1>1. Recorded(t, ha, ta2)
    <2> SUFFICES ASSUME NEW c \in Content, ha[c] > 0
                 PROVE  c \in t.shown \/ c.text \in ta2
      BY DEF Recorded
    <2>1. CASE s.pend # None /\ ContentOf(s.pend) = c /\ s.receipt[s.pend.id] = "unknown"
      <3>1. Admitted(s)
        BY <2>1 DEF Admitted
      <3>2. c.text = s.pend.text
        BY <2>1, ShownType DEF SoundIn
      <3>3. QED
        BY <2>1, <3>1, <3>2 DEF Texts
    <2>2. QED
      BY <2>1 DEF SoundIn, Recorded
  <1>2. Keeps(t, ac2, wi2, ta2)
    <2> SUFFICES ASSUME NEW m \in ac2
                 PROVE  Holds(t, m) \/ (\E c \in t.shown : c.text = m) \/ m \in wi2 \cup ta2
      BY DEF Keeps
    <2>1. CASE m \in Texts(t.pend)
      BY <2>1 DEF Texts, Holds
    <2>2. CASE m \in ac
      BY <2>2 DEF SoundIn, Keeps, Holds, Texts
    <2>3. QED
      BY <2>1, <2>2
  <1>3. QED
    BY <1>1, <1>2 DEF SoundIn

(* A receipt changes, and does not release what was handed over.           *)
LEMMA SoundReceipt ==
  ASSUME NEW s, NEW au, NEW ha, NEW ac, NEW wi, NEW ta, SoundIn(s, au, ha, ac, wi, ta),
         NEW t \in InputState, t.pend = s.pend, t.shown = s.shown,
         NEW i, NEW a, a # "none", t.receipt = [s.receipt EXCEPT ![i] = a],
         s.pend # None /\ s.pend.id = i => a = "unknown" \/ ~Given(s.pend.text, ha)
  PROVE  SoundIn(t, au, ha, ac, wi, ta)
  <1>1. s.pend # None => s.pend \in Input /\ s.pend.id \in Messages
    BY DEF SoundIn, InputState, Input
  <1>2. DOMAIN s.receipt = Messages
    BY DEF SoundIn, InputState
  <1>3. s.pend # None =>
          t.receipt[s.pend.id] = IF s.pend.id = i THEN a ELSE s.receipt[s.pend.id]
    BY <1>1, <1>2
  <1>4. s.pend # None /\ Given(s.pend.text, ha) => Admitted(t)
    BY <1>3 DEF SoundIn, Admitted
  <1>5. Recorded(t, ha, ta)
    <2> SUFFICES ASSUME NEW c \in Content, ha[c] > 0, s.pend # None, ContentOf(s.pend) = c,
                        s.receipt[s.pend.id] = "unknown"
                 PROVE  t.receipt[s.pend.id] = "unknown"
      BY DEF SoundIn, Recorded
    <2>1. Given(s.pend.text, ha)
      BY ShownType DEF SoundIn, Given
    <2>2. QED
      BY <1>3, <2>1
  <1>6. Keeps(t, ac, wi, ta)
    BY DEF SoundIn, Keeps, Holds
  <1>7. QED
    BY <1>4, <1>5, <1>6 DEF SoundIn

(* A checkpoint acknowledges the pending input to whoever stored it.       *)
LEMMA SoundAcknowledged ==
  ASSUME NEW s, NEW au, NEW ha, NEW ac, NEW wi, NEW ta, SoundIn(s, au, ha, ac, wi, ta)
  PROVE  SoundIn(s, au, ha, ac \cup Texts(s.pend), wi, ta)
  BY DEF SoundIn, Keeps, Texts, Holds

(* The agent is given content that is on record and that no sound mailbox  *)
(* will send again.                                                        *)
LEMMA SoundHanded ==
  ASSUME NEW s, NEW au, NEW ha \in [Content -> Nat], NEW ac, NEW wi, NEW ta,
         SoundIn(s, au, ha, ac, wi, ta), NEW c \in Content,
         \/ c \in s.shown
         \/ s.pend # None /\ ContentOf(s.pend) = c /\ s.receipt[s.pend.id] = "unknown",
         Holds(s, c.text) => Admitted(s)
  PROVE  SoundIn(s, au, [ha EXCEPT ![c] = @ + 1], ac, wi, ta)
  <1> DEFINE ha2 == [ha EXCEPT ![c] = @ + 1]
  <1>1. \A d \in Content : ha2[d] > 0 => d = c \/ ha[d] > 0
    OBVIOUS
  <1> HIDE DEF ha2
  <1>2. s.pend # None /\ Given(s.pend.text, ha2) => Admitted(s)
    BY <1>1 DEF SoundIn, Given, Holds
  <1>3. Recorded(s, ha2, ta)
    BY <1>1 DEF SoundIn, Recorded
  <1>4. SoundIn(s, au, ha2, ac, wi, ta)
    BY <1>2, <1>3 DEF SoundIn
  <1>5. QED
    BY <1>4 DEF ha2

-----------------------------------------------------------------------------
(* The user's calls.                                                       *)

LEMMA IdleTypes == NoOp \in Operation /\ NoPrompt \in Prompt
  BY DEF NoOp, NoPrompt, Operation, Prompt, Admissions

(* While a claim is held the pending input is admitted.                    *)
Held == op.at \in {"claiming", "submitting"} \/ (op.at = "answered" /\ op.answer = "rejected")

LEMMA HeldIsAdmitted ==
  ASSUME Claims, Held PROVE Admitted(mem)
  BY NoneAssumption DEF Claims, Held, Admitted

LEMMA PendingAuthored ==
  ASSUME NEW s, Sound(s) PROVE Texts(s.pend) \subseteq authored
  BY DEF Sound, SoundIn, Texts

(* What a user does to a mailbox that holds no admitted input.             *)
LEMMA UserCall ==
  ASSUME IInv, Active, ~Admitted(mem),
         mem' \in InputState, mem'.receipt = mem.receipt, mem'.shown = mem.shown,
         authored' \in SUBSET Messages, authored \subseteq authored',
         withdrawn' \in {withdrawn, withdrawn \cup Texts(mem.pend)},
         Texts(mem.pend) \subseteq withdrawn' \cup Texts(mem'.pend),
         mem'.pend # None => /\ mem'.pend.text \in authored'
                             /\ \/ mem'.pend.text \notin authored
                                \/ Holds(mem, mem'.pend.text),
         UNCHANGED <<row, engine, status, op, prompt, native, handed, acked, taken, counters>>
  PROVE  IInv'
  <1> USE DEF IInv
  <1>1. TypeOK'
    <2>1. withdrawn' \subseteq authored'
      BY PendingAuthored DEF TypeOK
    <2>2. QED
      BY <2>1 DEF TypeOK, Active, counters
  <1>2. mem'.pend # None => ~Given(mem'.pend.text, handed)
    BY DEF Authored, Given, Holds, Sound, SoundIn
  <1>3. Sound(mem)'
    <2>1. SoundIn(mem', authored', handed, acked, withdrawn', taken)
      BY <1>2, SoundReplaced DEF Sound
    <2>2. QED
      BY <2>1 DEF Sound
  <1>4. Sound(row)'
    BY SoundStays DEF Sound
  <1>5. Claims'
    BY HeldIsAdmitted DEF Claims, Held
  <1>6. Prompts'
    BY DEF Prompts, Holds, Spent
  <1>7. QED
    BY <1>1, <1>3, <1>4, <1>5, <1>6 DEF AtMostOnce, Authored, Engines

LEMMA SetKeeps ==
  ASSUME IInv, NEW m \in Messages, Set(m) PROVE IInv'
  <1>1. /\ mem' \in InputState /\ mem'.pend = Fresh(m)
        /\ mem'.receipt = mem.receipt /\ mem'.shown = mem.shown
    BY FreshType DEF Set, IInv, TypeOK, InputState
  <1>2. authored' \in SUBSET Messages
    BY DEF Set, IInv, TypeOK
  <1>3. QED
    BY <1>1, <1>2, FreshType, UserCall DEF Set

LEMMA SetAttachmentsKeeps ==
  ASSUME IInv, SetAttachments PROVE IInv'
  <1>1. mem \in InputState /\ mem.pend \in Input
    BY DEF SetAttachments, IInv, TypeOK, InputState
  <1>2. [mem.pend EXCEPT !.files = TRUE] \in Input
    BY <1>1 DEF Input
  <1>3. mem'.pend = [mem.pend EXCEPT !.files = TRUE]
    BY <1>1 DEF SetAttachments, InputState
  <1>4. mem'.pend \in Input /\ mem'.pend # None /\ mem'.pend.text = mem.pend.text
    <2>1. mem'.pend \in Input
      BY <1>2, <1>3
    <2>2. mem'.pend.text = mem.pend.text
      BY <1>1, <1>3 DEF Input
    <2>3. QED
      BY <2>1, <2>2, NoneAssumption
  <1>5. mem' \in InputState /\ mem'.receipt = mem.receipt /\ mem'.shown = mem.shown
    BY <1>1, <1>2 DEF SetAttachments, InputState
  <1>6. mem.pend.text \in authored /\ authored' = authored /\ withdrawn' = withdrawn
    BY DEF SetAttachments, IInv, Sound, SoundIn, history
  <1>7. authored' \in SUBSET Messages
    BY <1>6 DEF IInv, TypeOK
  <1>8. Holds(mem, mem'.pend.text) /\ Texts(mem.pend) \subseteq Texts(mem'.pend)
    BY <1>1, <1>4, NoneAssumption DEF Holds, Texts
  <1>9. QED
    BY <1>4, <1>5, <1>6, <1>7, <1>8, UserCall DEF SetAttachments, history

LEMMA ClearKeeps ==
  ASSUME IInv, Clear PROVE IInv'
  <1>1. /\ mem' \in InputState /\ mem'.pend = None
        /\ mem'.receipt = mem.receipt /\ mem'.shown = mem.shown
    BY DEF Clear, IInv, TypeOK, InputState
  <1>2. authored' \in SUBSET Messages
    BY DEF Clear, IInv, TypeOK
  <1>3. QED
    BY <1>1, <1>2, UserCall DEF Clear

-----------------------------------------------------------------------------
(* The prompt of an iteration.                                             *)

(* Steps that leave memory, row and history alone, but for bounds.         *)
LEMMA MailboxUntouched ==
  ASSUME IInv, UNCHANGED <<mem, row, handed, history>>,
         TypeOK', Engines', Claims', Prompts'
  PROVE  IInv'
  BY DEF IInv, AtMostOnce, Authored, Sound, history

LEMMA BuildPromptKeeps ==
  ASSUME IInv, BuildPrompt PROVE IInv'
  <1> USE DEF IInv, BuildPrompt
  <1>1. Peek \in Input /\ Peek = mem.pend /\ Peek.text \in authored
    BY DEF Peek, TypeOK, InputState, Sound, SoundIn
  <1>2. TypeOK'
    <2>1. prompt' \in Prompt
      BY <1>1 DEF Prompt
    <2>2. QED
      BY <2>1 DEF TypeOK, Active, history, counters
  <1>3. Engines' /\ Claims' /\ Prompts'
    BY <1>1 DEF Engines, Claims, Prompts, Active, Spent, history
  <1>4. QED
    BY <1>2, <1>3, MailboxUntouched

LEMMA ConsumePromptKeeps ==
  ASSUME IInv, ConsumePrompt PROVE IInv'
  <1> USE DEF IInv, ConsumePrompt
  <1>1. prompt # NoPrompt /\ engine = "loop"
    BY DEF Engines, NoPrompt
  <1>2. prompt.input \in Input /\ prompt.input # None /\ prompt.input.text \in authored
    BY NoneAssumption DEF Prompts
  <1>3. CASE Peek = prompt.input /\ mem' = Shown(mem) /\ prompt' = [prompt EXCEPT !.at = "built"]
    <2>1. mem.pend = prompt.input /\ mem.pend # None /\ ~Admitted(mem)
      BY <1>2, <1>3 DEF Peek
    <2>2. /\ mem' \in InputState /\ mem'.pend = None /\ mem'.receipt = mem.receipt
          /\ ContentOf(prompt.input) \in mem'.shown
      BY <1>3, <2>1, ShownType DEF TypeOK
    <2>3. prompt' \in Prompt /\ prompt'.at = "built" /\ prompt'.input = prompt.input
      BY <1>3 DEF TypeOK, Prompt
    <2>4. TypeOK'
      BY <1>1, <2>2, <2>3 DEF TypeOK, history, counters
    <2>5. Sound(mem)'
      BY <1>3, <2>1, SoundShown DEF Sound, history
    <2>6. ~Spent(prompt.input.text)
      BY <2>1 DEF Spent, Sound, SoundIn
    <2>7. Claims'
      BY <2>1, HeldIsAdmitted DEF Claims, Held
    <2>8. Prompts'
      BY <1>2, <2>2, <2>3, <2>6 DEF Prompts, Holds, Spent, history
    <2>9. QED
      BY <1>1, <2>4, <2>5, <2>7, <2>8 DEF AtMostOnce, Authored, Engines, Sound, history
  <1>4. CASE prompt' = NoPrompt /\ UNCHANGED mem
    <2>1. TypeOK' /\ Engines' /\ Claims' /\ Prompts'
      BY <1>4, IdleTypes DEF TypeOK, Engines, Claims, Prompts, NoPrompt, Spent, history, counters
    <2>2. QED
      BY <1>4, <2>1, MailboxUntouched
  <1>5. QED
    BY <1>3, <1>4

LEMMA DropPromptKeeps ==
  ASSUME IInv, DropPrompt PROVE IInv'
  <1>1. TypeOK' /\ Engines' /\ Claims' /\ Prompts'
    BY IdleTypes DEF IInv, DropPrompt, TypeOK, Engines, Claims, Prompts, NoPrompt, Spent, history,
                     counters
  <1>2. QED
    BY <1>1, MailboxUntouched DEF DropPrompt

(* What a checkpoint preserves.                                            *)
LEMMA SavedSound ==
  ASSUME IInv, Saved, mem' = mem, UNCHANGED handed
  PROVE  /\ Sound(mem)' /\ Sound(row)'
         /\ acked' \subseteq authored' /\ row' \in InputState
         /\ AtMostOnce' /\ Authored'
  <1> USE DEF IInv, Saved
  <1>1. Sound(mem)' /\ Sound(row)'
    BY SoundAcknowledged DEF Sound
  <1>2. acked' \subseteq authored'
    BY PendingAuthored DEF TypeOK
  <1>3. QED
    BY <1>1, <1>2 DEF AtMostOnce, Authored, TypeOK

LEMMA CheckpointPromptKeeps ==
  ASSUME IInv, CheckpointPrompt PROVE IInv'
  <1> USE DEF IInv, CheckpointPrompt, Saved
  <1>1. prompt' \in Prompt /\ prompt'.at = "ready" /\ prompt'.input = prompt.input
    BY DEF TypeOK, Prompt
  <1>2. engine = "loop"
    BY DEF Engines, NoPrompt
  <1>3. TypeOK'
    BY <1>1, <1>2, SavedSound DEF TypeOK, counters
  <1>4. Engines' /\ Claims' /\ Prompts'
    BY <1>1, <1>2 DEF Engines, Claims, Prompts, Spent, Holds
  <1>5. QED
    BY <1>3, <1>4, SavedSound

LEMMA CheckpointKeeps ==
  ASSUME IInv, Checkpoint PROVE IInv'
  <1> USE DEF IInv, Checkpoint, Saved
  <1>1. TypeOK'
    BY SavedSound DEF TypeOK, counters
  <1>2. Engines' /\ Claims' /\ Prompts'
    BY DEF Engines, Claims, Prompts, Spent, Holds
  <1>3. QED
    BY <1>1, <1>2, SavedSound

-----------------------------------------------------------------------------
(* Handing a message to the agent, by prompt or by RPC.                    *)

OnRecord(s, c) ==
  \/ c \in s.shown
  \/ s.pend # None /\ ContentOf(s.pend) = c /\ s.receipt[s.pend.id] = "unknown"

LEMMA HandedOver ==
  ASSUME IInv, NEW c \in Content, handed' = [handed EXCEPT ![c] = @ + 1],
         ~Spent(c.text), c.text \in authored, UNCHANGED <<mem, row, history>>,
         OnRecord(mem, c), Holds(mem, c.text) => Admitted(mem),
         OnRecord(row, c), Holds(row, c.text) => Admitted(row)
  PROVE  /\ Sound(mem)' /\ Sound(row)' /\ AtMostOnce' /\ Authored'
         /\ handed' \in [Content -> Nat]
         /\ \A m : Given(m, handed') => m = c.text \/ Spent(m)
  <1> USE DEF IInv
  <1>1. handed \in [Content -> Nat] /\ handed' \in [Content -> Nat]
    BY DEF TypeOK
  <1>2. \A d \in Content : handed'[d] = IF d = c THEN handed[d] + 1 ELSE handed[d]
    BY <1>1
  <1>3. \A d \in Content : d.text = c.text => handed[d] = 0
    BY <1>1 DEF Spent, Given
  <1>4. AtMostOnce'
    BY <1>1, <1>2, <1>3 DEF AtMostOnce
  <1>5. Authored'
    BY <1>1, <1>2 DEF Authored, history
  <1>6. Sound(mem)'
    BY <1>1, SoundHanded DEF Sound, OnRecord, history
  <1>7. Sound(row)'
    BY <1>1, SoundHanded DEF Sound, OnRecord, history
  <1>8. \A m : Given(m, handed') => m = c.text \/ Spent(m)
    BY <1>2 DEF Spent, Given
  <1>9. QED
    BY <1>1, <1>4, <1>5, <1>6, <1>7, <1>8

LEMMA ContentType ==
  ASSUME NEW i \in Input
  PROVE  ContentOf(i) \in Content /\ ContentOf(i).text = i.text /\ i # None
  BY NoneAssumption DEF ContentOf, Content, Input

LEMMA SendPromptKeeps ==
  ASSUME IInv, SendPrompt PROVE IInv'
  <1> USE DEF IInv, SendPrompt
  <1> DEFINE c == ContentOf(prompt.input)
  <1>1. c \in Content /\ c.text = prompt.input.text
    BY ContentType DEF Prompts
  <1>2. /\ ~Spent(c.text) /\ c.text \in authored
        /\ OnRecord(mem, c) /\ ~Holds(mem, c.text)
        /\ OnRecord(row, c) /\ ~Holds(row, c.text)
    BY <1>1 DEF Prompts, OnRecord
  <1> HIDE DEF c
  <1>3. handed' = [handed EXCEPT ![c] = @ + 1]
    BY DEF c
  <1>4. /\ Sound(mem)' /\ Sound(row)' /\ AtMostOnce' /\ Authored'
        /\ handed' \in [Content -> Nat]
        /\ \A m : Given(m, handed') => m = c.text \/ Spent(m)
    BY <1>1, <1>2, <1>3, HandedOver
  <1>5. TypeOK'
    BY <1>4, IdleTypes DEF TypeOK, history, counters
  <1>6. Claims'
    BY <1>2, <1>4, ContentType DEF Claims, Spent, Holds
  <1>7. Engines' /\ Prompts'
    BY DEF Engines, Prompts, NoPrompt
  <1>8. QED
    BY <1>4, <1>5, <1>6, <1>7

-----------------------------------------------------------------------------
(* Native steering.                                                        *)

LEMMA SteerKeeps ==
  ASSUME IInv, Steer PROVE IInv'
  <1> USE DEF IInv, Steer
  <1>1. Peek \in Input
    BY DEF Peek, TypeOK, InputState
  <1>2. /\ op' \in Operation /\ op'.at = "preparing"
        /\ op'.input = Peek /\ op'.id = Peek.id
    BY <1>1 DEF NoOp, Operation, Input, Admissions
  <1>3. TypeOK'
    BY <1>2 DEF TypeOK, Active, history, counters
  <1>4. Engines' /\ Claims' /\ Prompts'
    BY <1>1, <1>2 DEF Engines, Claims, Prompts, Spent, history
  <1>5. QED
    BY <1>3, <1>4, MailboxUntouched

LEMMA ClaimKeeps ==
  ASSUME IInv, Claim PROVE IInv'
  <1> USE DEF IInv, Claim
  <1>1. op.input \in Input /\ op.id = op.input.id /\ op.id \in Messages /\ op # NoOp
    BY DEF Claims, Input, NoOp
  <1>2. CASE Peek = op.input /\ mem' = [mem EXCEPT !.receipt[op.id] = "unknown"]
             /\ op' = [op EXCEPT !.at = "claiming"]
    <2>1. mem.pend = op.input /\ mem.pend # None /\ ~Admitted(mem)
      BY <1>1, <1>2, NoneAssumption DEF Peek
    <2>2. /\ mem' \in InputState /\ mem'.pend = mem.pend /\ mem'.shown = mem.shown
          /\ mem'.receipt = [mem.receipt EXCEPT ![op.id] = "unknown"]
      BY <1>1, <1>2 DEF TypeOK, InputState, Admissions
    <2>3. mem'.receipt[op.id] = "unknown"
      BY <1>1, <2>2 DEF TypeOK, InputState
    <2>4. op' \in Operation /\ op'.at = "claiming" /\ op'.input = op.input /\ op'.id = op.id
      BY <1>2 DEF TypeOK, Operation
    <2>5. Sound(mem)'
      <3>1. SoundIn(mem, authored, handed, acked, withdrawn, taken)
        BY DEF Sound
      <3>2. SoundIn(mem', authored, handed, acked, withdrawn, taken)
        BY ONLY <2>2, <3>1, SoundReceipt
      <3>3. QED
        BY <3>2 DEF Sound, history
    <2>6. TypeOK'
      BY <1>1, <2>2, <2>4 DEF TypeOK, history, counters
    <2>7. ~Spent(op.input.text)
      BY <2>1 DEF Spent, Sound, SoundIn
    <2>8. Claims'
      BY <1>1, <2>1, <2>2, <2>3, <2>4, <2>7 DEF Claims, Spent
    <2>9. Engines' /\ Prompts'
      BY <2>2 DEF Engines, Prompts, Spent, Holds, history
    <2>10. QED
      BY <2>5, <2>6, <2>8, <2>9 DEF AtMostOnce, Authored, Sound, history
  <1>3. CASE op' = NoOp /\ UNCHANGED mem
    <2>1. TypeOK' /\ Engines' /\ Claims' /\ Prompts'
      BY <1>3, IdleTypes DEF TypeOK, Engines, Claims, Prompts, NoOp, Spent, history, counters
    <2>2. QED
      BY <1>3, <2>1, MailboxUntouched
  <1>4. QED
    BY <1>2, <1>3

(* The RPC or a flush gives up, or the operation is over.                  *)
LEMMA OpEnds ==
  ASSUME IInv, op' = NoOp, UNCHANGED <<mem, row, engine, status, prompt, native, handed, history>>,
         crashes' = crashes, faults' \in 0..MaxFaults
  PROVE  IInv'
  <1>1. TypeOK' /\ Engines' /\ Claims' /\ Prompts'
    BY IdleTypes DEF IInv, TypeOK, Engines, Claims, Prompts, NoOp, Spent, history
  <1>2. QED
    BY <1>1, MailboxUntouched

LEMMA FaultType == ASSUME TypeOK, Fault PROVE crashes' = crashes /\ faults' \in 0..MaxFaults
  BY BoundsAssumption DEF TypeOK, Fault

LEMMA FlushClaimKeeps ==
  ASSUME IInv, FlushClaim PROVE IInv'
  <1> USE DEF IInv, FlushClaim
  <1>1. CASE Saved /\ op' = [op EXCEPT !.at = "submitting"] /\ UNCHANGED counters
    <2> USE DEF Saved
    <2>1. /\ op' \in Operation /\ op'.at = "submitting"
          /\ op'.input = op.input /\ op'.id = op.id
      BY <1>1 DEF TypeOK, Operation
    <2>2. op # NoOp
      BY DEF NoOp
    <2>3. TypeOK'
      BY <1>1, <2>1, <2>2, SavedSound DEF TypeOK, counters
    <2>4. Engines' /\ Claims' /\ Prompts'
      BY <1>1, <2>1 DEF Engines, Claims, Prompts, Spent, Holds
    <2>5. QED
      BY <1>1, <2>3, <2>4, SavedSound
  <1>2. CASE Fault /\ op' = NoOp /\ UNCHANGED <<row, history>>
    BY <1>2, FaultType, OpEnds
  <1>3. QED
    BY <1>1, <1>2

LEMMA FlushFinishKeeps ==
  ASSUME IInv, FlushFinish PROVE IInv'
  <1> USE DEF IInv, FlushFinish
  <1>1. CASE Saved /\ UNCHANGED counters
    <2> USE DEF Saved
    <2>1. TypeOK'
      BY <1>1, IdleTypes, SavedSound DEF TypeOK, counters
    <2>2. Engines' /\ Claims' /\ Prompts'
      BY <1>1 DEF Engines, Claims, Prompts, NoOp, Spent, Holds
    <2>3. QED
      BY <1>1, <2>1, <2>2, SavedSound
  <1>2. CASE Fault /\ UNCHANGED <<row, history>>
    BY <1>2, FaultType, OpEnds
  <1>3. QED
    BY <1>1, <1>2

LEMMA SubmitKeeps ==
  ASSUME IInv, Submit PROVE IInv'
  <1> USE DEF IInv, Submit
  <1> DEFINE c == ContentOf(op.input)
  <1>1. /\ op.input \in Input /\ op.id = op.input.id /\ op.id \in Messages /\ op # NoOp
        /\ row = mem /\ mem.pend = op.input /\ mem.receipt[op.id] = "unknown"
        /\ ~Spent(op.input.text)
    BY DEF Claims, Input, NoOp
  <1>2. c \in Content /\ c.text = op.input.text /\ op.input # None
    BY <1>1, ContentType
  <1>3. ASSUME NEW answer \in {"accepted", "rejected", "unknown"},
               op' = [op EXCEPT !.at = "answered", !.answer = answer]
        PROVE  /\ op' \in Operation /\ op'.at = "answered" /\ op'.answer = answer
               /\ op'.input = op.input /\ op'.id = op.id
    BY <1>3 DEF TypeOK, Operation, Admissions
  <1>4. ASSUME handed' = [handed EXCEPT ![c] = @ + 1], native' = native \cup {op.id},
               NEW answer \in {"accepted", "unknown"},
               op' = [op EXCEPT !.at = "answered", !.answer = answer], UNCHANGED counters
        PROVE  IInv'
    <2>1. OnRecord(mem, c) /\ Admitted(mem)
      BY <1>1, <1>2 DEF OnRecord, Admitted
    <2>2. c.text \in authored
      BY <1>1, <1>2 DEF Sound, SoundIn
    <2>3. /\ Sound(mem)' /\ Sound(row)' /\ AtMostOnce' /\ Authored'
          /\ handed' \in [Content -> Nat]
          /\ \A m : Given(m, handed') => m = c.text \/ Spent(m)
      <3> HIDE DEF c
      <3>1. QED
        BY <1>1, <1>2, <1>4, <2>1, <2>2, HandedOver
    <2>4. TypeOK'
      BY <1>1, <1>3, <1>4, <2>3 DEF TypeOK, history, counters
    <2>5. Engines' /\ Claims'
      BY <1>3, <1>4 DEF Engines, Claims
    <2>6. Prompts'
      BY <1>1, <1>2, <2>3 DEF Prompts, Spent, Holds, history
    <2>7. QED
      BY <2>3, <2>4, <2>5, <2>6
  <1>5. ASSUME NEW answer \in {"rejected", "unknown"},
               op' = [op EXCEPT !.at = "answered", !.answer = answer],
               UNCHANGED <<handed, native, counters>>
        PROVE  IInv'
    <2>1. TypeOK' /\ Engines' /\ Claims' /\ Prompts'
      BY <1>1, <1>3, <1>5 DEF TypeOK, Engines, Claims, Prompts, Spent, history, counters
    <2>2. QED
      BY <1>5, <2>1, MailboxUntouched
  <1>6. CASE Fault /\ op' = NoOp /\ UNCHANGED <<handed, native>>
    BY <1>6, FaultType, OpEnds
  <1>7. QED
    BY <1>4, <1>5, <1>6

LEMMA ReconcileKeeps ==
  ASSUME IInv, NEW i \in Messages, Reconcile(i) PROVE IInv'
  <1> USE DEF IInv, Reconcile
  <1>1. PICK answer \in {"unknown", "delivered"} :
          op' = [NoOp EXCEPT !.at = "answered", !.id = i, !.answer = answer]
    OBVIOUS
  <1>2. op' \in Operation /\ op'.at = "answered" /\ op'.answer \in {"unknown", "delivered"}
    BY <1>1 DEF NoOp, Operation, Admissions
  <1>3. TypeOK'
    BY <1>2 DEF TypeOK, history, counters
  <1>4. Engines' /\ Claims' /\ Prompts'
    BY <1>2 DEF Engines, Claims, Prompts, Spent, history
  <1>5. QED
    BY <1>3, <1>4, MailboxUntouched

LEMMA FinishKeeps ==
  ASSUME IInv, Finish PROVE IInv'
  <1> USE DEF IInv
  <1> DEFINE answered == [mem EXCEPT !.receipt[op.id] = op.answer]
             taken_in == op.answer \in {"accepted", "delivered"} /\ mem.pend # None
                           /\ mem.pend.id = op.id
  <1>1. /\ op.at = "answered" /\ op.answer \in Admissions \ {"none"} /\ op # NoOp
        /\ mem \in InputState
        /\ SoundIn(mem, authored, handed, acked, withdrawn, taken)
    BY DEF Finish, TypeOK, Operation, Claims, NoOp, Sound
  <1>2. /\ answered \in InputState /\ answered.pend = mem.pend /\ answered.shown = mem.shown
        /\ answered.receipt = [mem.receipt EXCEPT ![op.id] = op.answer]
    BY <1>1 DEF InputState
  <1>3. mem' = IF taken_in THEN Shown(answered) ELSE answered
    BY DEF Finish
  <1> HIDE DEF answered, taken_in
  <1>4. /\ SoundIn(mem', authored, handed, acked, withdrawn, taken)
        /\ mem' \in InputState /\ mem'.pend \in {None, mem.pend} /\ mem.shown \subseteq mem'.shown
    <2>1. CASE taken_in
      <3>1. mem.pend # None
        BY <2>1 DEF taken_in
      <3> DEFINE s == Shown(mem)
      <3>2. /\ s.pend = None /\ s.receipt = mem.receipt
            /\ s.shown = mem.shown \cup {ContentOf(mem.pend)}
            /\ SoundIn(s, authored, handed, acked, withdrawn, taken)
        BY <1>1, <3>1, ShownType, SoundShown
      <3>3. /\ mem' \in InputState /\ mem'.pend = None
            /\ mem'.receipt = [mem.receipt EXCEPT ![op.id] = op.answer]
            /\ mem'.shown = mem.shown \cup {ContentOf(mem.pend)}
        BY <1>2, <1>3, <2>1, <3>1, ShownType
      <3> HIDE DEF s
      <3>4. /\ mem' \in InputState /\ mem'.pend = s.pend /\ mem'.shown = s.shown
            /\ mem'.receipt = [s.receipt EXCEPT ![op.id] = op.answer]
            /\ op.answer # "none" /\ s.pend = None
            /\ SoundIn(s, authored, handed, acked, withdrawn, taken)
        BY <1>1, <3>2, <3>3
      <3>5. SoundIn(mem', authored, handed, acked, withdrawn, taken)
        BY ONLY <3>4, SoundReceipt
      <3>6. QED
        BY <3>3, <3>5
    <2>2. CASE ~taken_in
      <3>1. mem.pend # None /\ mem.pend.id = op.id
              => op.answer = "unknown" \/ ~Given(mem.pend.text, handed)
        BY <1>1, <2>2 DEF taken_in, Claims, Spent, Admissions
      <3>2. mem' = answered
        BY <1>3, <2>2
      <3>3. QED
        BY ONLY <1>1, <1>2, <3>1, <3>2, SoundReceipt
    <2>3. QED
      BY <2>1, <2>2
  <1>5. op' \in Operation /\ op'.at = "finishing"
    BY DEF Finish, TypeOK, Operation
  <1>6. TypeOK'
    BY <1>1, <1>4, <1>5 DEF Finish, TypeOK, history, counters
  <1>7. Sound(mem)' /\ Sound(row)'
    BY <1>4 DEF Finish, Sound, history
  <1>8. Engines' /\ Claims' /\ Prompts'
    BY <1>4, <1>5 DEF Finish, Engines, Claims, Prompts, Spent, Holds, history
  <1>9. QED
    BY <1>6, <1>7, <1>8 DEF Finish, AtMostOnce, Authored, history

-----------------------------------------------------------------------------
(* Engines come and go.                                                    *)

(* An engine is dropped, or the server restarts, and memory is the row.    *)
LEMMA FallsBack ==
  ASSUME IInv, mem' = row, prompt' = NoPrompt, op' = NoOp,
         engine' = "none", status' \in {"stopped", "completed"},
         UNCHANGED <<row, native, handed, history>>,
         crashes' \in 0..MaxCrashes, faults' \in 0..MaxFaults
  PROVE  IInv'
  <1> USE DEF IInv
  <1>1. TypeOK'
    BY IdleTypes DEF TypeOK, history
  <1>2. Engines' /\ Claims' /\ Prompts'
    BY DEF Engines, Claims, Prompts, NoOp, NoPrompt
  <1>3. QED
    BY <1>1, <1>2 DEF AtMostOnce, Authored, Sound, history

LEMMA LoopEndsKeeps ==
  ASSUME IInv, LoopEnds PROVE IInv'
  <1>1. TypeOK' /\ Engines' /\ Claims' /\ Prompts'
    BY DEF IInv, LoopEnds, TypeOK, Engines, Claims, Prompts, Spent, history, counters
  <1>2. QED
    BY <1>1, MailboxUntouched DEF LoopEnds

LEMMA StopKeeps ==
  ASSUME IInv, Stop PROVE IInv'
  <1> USE DEF IInv, Stop
  <1>1. CASE Saved /\ UNCHANGED <<mem, counters>>
    <2> USE DEF Saved
    <2>1. TypeOK'
      BY <1>1, SavedSound DEF TypeOK, counters
    <2>2. Engines' /\ Claims' /\ Prompts'
      BY <1>1 DEF Engines, Claims, Prompts, NoOp, NoPrompt, TypeOK
    <2>3. QED
      BY <1>1, <2>1, <2>2, SavedSound
  <1>2. CASE Fault /\ mem' = row /\ UNCHANGED <<row, history>>
    <2>1. crashes' \in 0..MaxCrashes /\ faults' \in 0..MaxFaults
      BY <1>2, FaultType DEF TypeOK
    <2>2. status' \in {"stopped", "completed"}
      OBVIOUS
    <2>3. QED
      BY <1>2, <2>1, <2>2, FallsBack
  <1>3. QED
    BY <1>1, <1>2

LEMMA ReleaseKeeps ==
  ASSUME IInv, Release PROVE IInv'
  <1> USE DEF IInv, Release
  <1>1. prompt = NoPrompt /\ status \in {"stopped", "completed"}
    BY DEF Engines, TypeOK
  <1>2. crashes' \in 0..MaxCrashes /\ faults' \in 0..MaxFaults
    BY DEF TypeOK, counters
  <1>3. QED
    BY <1>1, <1>2, FallsBack

LEMMA CrashKeeps ==
  ASSUME IInv, Crash PROVE IInv'
  <1>1. status' \in {"stopped", "completed"}
    BY DEF IInv, Crash, TypeOK
  <1>2. crashes' \in 0..MaxCrashes /\ faults' \in 0..MaxFaults
    BY BoundsAssumption DEF IInv, Crash, TypeOK
  <1>3. QED
    BY <1>1, <1>2, FallsBack DEF Crash

(* A takeover runs from a sound mailbox.                                   *)
LEMMA TakenOver ==
  ASSUME IInv, op = NoOp, status # "running", NEW s, TakeOver(s),
         SoundIn(s, authored', handed, acked', withdrawn', taken'),
         authored' \subseteq Messages, authored \subseteq authored',
         acked' \subseteq authored', withdrawn' \subseteq authored', taken' \subseteq authored',
         UNCHANGED <<op, prompt, native, handed, counters>>
  PROVE  IInv'
  <1> USE DEF IInv, TakeOver
  <1>1. prompt = NoPrompt
    BY DEF Engines
  <1>2. TypeOK'
    BY DEF TypeOK, SoundIn, counters
  <1>3. Engines' /\ Claims' /\ Prompts'
    BY <1>1 DEF Engines, Claims, Prompts, NoOp, NoPrompt
  <1>4. QED
    BY <1>2, <1>3 DEF AtMostOnce, Authored, Sound

LEMMA ResumeKeeps ==
  ASSUME IInv, Resume PROVE IInv'
  <1>1. SoundIn(row, authored', handed, acked', withdrawn', taken')
    BY DEF IInv, Resume, Sound, history
  <1>2. QED
    BY <1>1, TakenOver DEF IInv, Resume, TypeOK, history

LEMMA JumpstartKeeps ==
  ASSUME IInv, NEW m \in Messages, Jumpstart(m) PROVE IInv'
  <1> USE DEF IInv
  <1> DEFINE s == [row EXCEPT !.pend = IF @ = None THEN Fresh(m) ELSE [@ EXCEPT !.text = m]]
  <1>1. /\ op = NoOp /\ status # "running" /\ m \notin authored /\ TakeOver(s)
        /\ authored' = authored \cup {m} /\ acked' = acked \cup {m}
        /\ IF Admitted(row)
           THEN taken' = taken \cup Texts(row.pend) /\ UNCHANGED withdrawn
           ELSE withdrawn' = withdrawn \cup Texts(row.pend) /\ UNCHANGED taken
        /\ UNCHANGED <<op, prompt, native, handed, counters>>
    BY DEF Jumpstart
  <1>2. row \in InputState /\ SoundIn(row, authored, handed, acked, withdrawn, taken)
    BY DEF TypeOK, Sound
  <1>3. /\ s.pend \in Input /\ s.pend.text = m /\ s.receipt = row.receipt
        /\ s.shown = row.shown /\ s \in InputState
    <2>1. CASE row.pend = None
      BY <1>2, <2>1, FreshType DEF InputState
    <2>2. CASE row.pend # None
      <3>1. row.pend \in Input
        BY <1>2, <2>2 DEF InputState
      <3>2. [row.pend EXCEPT !.text = m] \in Input /\ [row.pend EXCEPT !.text = m].text = m
        BY <3>1 DEF Input
      <3>3. QED
        BY <1>2, <2>2, <3>2 DEF InputState
    <2>3. QED
      BY <2>1, <2>2
  <1> HIDE DEF s
  <1>4. s.pend # None
    BY <1>3, NoneAssumption
  <1>5. Texts(row.pend) \subseteq authored
    BY PendingAuthored
  <1>6. /\ withdrawn \subseteq withdrawn' /\ taken \subseteq taken'
        /\ withdrawn' \subseteq authored' /\ taken' \subseteq authored'
        /\ acked' \subseteq authored' /\ authored' \subseteq Messages
    BY <1>1, <1>5 DEF TypeOK
  <1>7. ~Given(m, handed)
    BY <1>1 DEF Authored, Given
  <1>8. SoundIn(s, authored', handed, acked', withdrawn', taken')
    <2>1. /\ acked' \subseteq acked \cup Texts(s.pend)
          /\ Texts(row.pend) \subseteq withdrawn' \cup taken'
          /\ Admitted(row) => Texts(row.pend) \subseteq taken'
          /\ s.pend.text \in authored' /\ authored \subseteq authored'
      BY <1>1, <1>3, <1>4 DEF Texts
    <2>2. QED
      BY <1>2, <1>3, <1>6, <1>7, <2>1, SoundReplaced
  <1>9. QED
    BY <1>1, <1>6, <1>8, TakenOver

LEMMA FollowUpKeeps ==
  ASSUME IInv, NEW m \in Messages, FollowUp(m) PROVE IInv'
  <1> USE DEF IInv
  <1>1. op = NoOp /\ status = "completed" /\ prompt = NoPrompt
    BY DEF FollowUp, Engines
  <1>2. CASE ~Admitted(row)
    <2> DEFINE s == [row EXCEPT !.pend = Fresh(m)]
    <2>1. /\ m \notin authored /\ TakeOver(s)
          /\ authored' = authored \cup {m} /\ acked' = acked \cup {m}
          /\ withdrawn' = withdrawn \cup Texts(row.pend) /\ taken' = taken
          /\ UNCHANGED <<op, prompt, native, handed, counters>>
      BY <1>2 DEF FollowUp
    <2>2. row \in InputState /\ SoundIn(row, authored, handed, acked, withdrawn, taken)
      BY DEF TypeOK, Sound
    <2>3. /\ s.pend = Fresh(m) /\ s.receipt = row.receipt /\ s.shown = row.shown
          /\ s \in InputState
      BY <2>2, FreshType DEF InputState
    <2> HIDE DEF s
    <2>4. Texts(row.pend) \subseteq authored
      BY PendingAuthored
    <2>5. /\ withdrawn' \subseteq authored' /\ taken' \subseteq authored'
          /\ acked' \subseteq authored' /\ authored' \subseteq Messages
      BY <2>1, <2>4 DEF TypeOK
    <2>6. ~Given(m, handed)
      BY <2>1 DEF Authored, Given
    <2>7. acked' \subseteq acked \cup Texts(s.pend)
      BY <2>1, <2>3, FreshType DEF Texts
    <2>8. SoundIn(s, authored', handed, acked', withdrawn', taken')
      BY <1>2, <2>1, <2>2, <2>3, <2>6, <2>7, FreshType, SoundReplaced
    <2>9. QED
      BY <1>1, <2>1, <2>5, <2>8, TakenOver
  <1>3. CASE engine' = "none" /\ mem' = row /\ UNCHANGED <<row, status, history>>
    <2>1. crashes' \in 0..MaxCrashes /\ faults' \in 0..MaxFaults
      BY DEF FollowUp, TypeOK, counters
    <2>2. QED
      BY <1>1, <1>3, <2>1, FallsBack DEF FollowUp
  <1>4. QED
    BY <1>2, <1>3 DEF FollowUp

-----------------------------------------------------------------------------

LEMMA InitEstablishes == Init => IInv
  <1> SUFFICES ASSUME Init PROVE IInv
    OBVIOUS
  <1>1. mem \in InputState /\ mem.pend = None /\ row = mem
    BY DEF Init, InputState, Admissions
  <1>2. handed \in [Content -> Nat] /\ \A c \in Content : handed[c] = 0
    BY DEF Init
  <1>3. TypeOK
    BY <1>1, <1>2, IdleTypes, BoundsAssumption DEF Init, TypeOK
  <1>4. AtMostOnce /\ Authored
    BY <1>2 DEF AtMostOnce, Authored
  <1>5. Sound(mem) /\ Sound(row)
    BY <1>1, <1>2 DEF Init, Sound, SoundIn, Recorded, Keeps
  <1>6. Engines /\ Claims /\ Prompts
    BY DEF Init, Engines, Claims, Prompts, NoOp, NoPrompt
  <1>7. QED
    BY <1>3, <1>4, <1>5, <1>6 DEF IInv

LEMMA StutterKeeps == ASSUME IInv, UNCHANGED vars PROVE IInv'
  <1>1. TypeOK' /\ Engines' /\ Claims' /\ Prompts'
    BY DEF IInv, TypeOK, Engines, Claims, Prompts, Spent, vars, history, counters
  <1>2. QED
    BY <1>1, MailboxUntouched DEF vars

LEMMA NextPreserves == IInv /\ [Next]_vars => IInv'
  <1> SUFFICES ASSUME IInv, [Next]_vars PROVE IInv'
    OBVIOUS
  <1>1. CASE \E m \in Messages : Set(m) \/ Jumpstart(m) \/ FollowUp(m) \/ Reconcile(m)
    BY <1>1, SetKeeps, JumpstartKeeps, FollowUpKeeps, ReconcileKeeps
  <1>2. CASE SetAttachments \/ Clear
    BY <1>2, SetAttachmentsKeeps, ClearKeeps
  <1>3. CASE BuildPrompt \/ ConsumePrompt \/ CheckpointPrompt \/ SendPrompt \/ DropPrompt
    BY <1>3, BuildPromptKeeps, ConsumePromptKeeps, CheckpointPromptKeeps, SendPromptKeeps,
       DropPromptKeeps
  <1>4. CASE Checkpoint
    BY <1>4, CheckpointKeeps
  <1>5. CASE Steer \/ Claim \/ FlushClaim \/ Submit \/ Finish \/ FlushFinish
    BY <1>5, SteerKeeps, ClaimKeeps, FlushClaimKeeps, SubmitKeeps, FinishKeeps, FlushFinishKeeps
  <1>6. CASE LoopEnds \/ Stop \/ Release \/ Resume \/ Crash
    BY <1>6, LoopEndsKeeps, StopKeeps, ReleaseKeeps, ResumeKeeps, CrashKeeps
  <1>7. CASE UNCHANGED vars
    BY <1>7, StutterKeeps
  <1>8. QED
    BY <1>1, <1>2, <1>3, <1>4, <1>5, <1>6, <1>7 DEF Next

LEMMA Invariance == Spec => []IInv
  BY InitEstablishes, NextPreserves, PTL DEF Spec

(* The mailbox is well typed; in particular an engine leaves nothing in    *)
(* flight and nothing unsaved behind when it is dropped from the map.      *)
THEOREM TypeCorrect == Spec => []TypeOK
  BY Invariance, PTL DEF IInv

(* A message is handed to the agent at most once: whatever the order of    *)
(* prompts, steers, lost replies, failing checkpoints, takeovers and       *)
(* restarts.                                                               *)
THEOREM SentAtMostOnce == Spec => []AtMostOnce
  BY Invariance, PTL DEF IInv

(* What the agent was given is in the transcript, or still held under an   *)
(* unknown receipt, or was overwritten by a jumpstart.                     *)
THEOREM SentIsOnRecord == Spec => []NothingSentOffRecord
  <1>1. IInv => NothingSentOffRecord
    BY DEF IInv, Sound, SoundIn, Recorded, NothingSentOffRecord
  <1>2. QED
    BY <1>1, Invariance, PTL

(* What a checkpoint acknowledged to a user is never lost from the row.    *)
THEOREM AcknowledgedIsKept == Spec => []AckedIsKept
  <1>1. IInv => AckedIsKept
    BY DEF IInv, Sound, SoundIn, Keeps, Holds, AckedIsKept
  <1>2. QED
    BY <1>1, Invariance, PTL

-----------------------------------------------------------------------------
(* The refinement.  The transcript of the row is never ahead of memory, and*)
(* a mailbox comes from an earlier one: what it holds as pending was       *)
(* pending there or is new, and what it shows was shown or pending there.  *)
Behind == row.shown \subseteq mem.shown

Follows(t, s) ==
  /\ \A m \in Messages : Pending(t, m) => Pending(s, m) \/ m \in authored' \ authored
  /\ s.shown \subseteq t.shown
  /\ \A m \in Messages : ShownIn(t, m) => ShownIn(s, m) \/ Pending(s, m)

InPrompt(m) == prompt.at \in {"built", "ready"} /\ prompt.input.text = m

(* What any step leaves of the mailboxes, the prompt and the history.      *)
MailboxStep ==
  /\ Follows(mem', mem) \/ Follows(mem', row)
  /\ Follows(row', mem) \/ Follows(row', row)
  /\ Behind'
  /\ \A m \in Messages : InPrompt(m)' => InPrompt(m) \/ Pending(mem, m)

HistoryStep ==
  /\ authored \subseteq authored' /\ acked \subseteq acked'
  /\ withdrawn \cup taken \subseteq withdrawn' \cup taken'
  /\ withdrawn' \cup taken' \subseteq withdrawn \cup taken \cup Texts(mem.pend) \cup Texts(row.pend)
  /\ acked' \subseteq acked \cup Texts(mem.pend) \cup (authored' \ authored)
  /\ \A m \in authored' \ authored : Pending(mem', m)

HandOver ==
  \A m \in Messages :
    /\ Copies(m)' >= Copies(m)
    /\ Copies(m)' # Copies(m) => Open(m) /\ m \in authored

LEMMA FollowsItself ==
  ASSUME NEW s PROVE Follows(s, s)
  BY DEF Follows

LEMMA FollowsShown ==
  ASSUME NEW s \in InputState, s.pend # None
  PROVE  Follows(Shown(s), s)
  <1>1. /\ Shown(s).pend = None /\ Shown(s).shown = s.shown \cup {ContentOf(s.pend)}
        /\ ContentOf(s.pend).text = s.pend.text
    BY ShownType
  <1>2. QED
    BY <1>1 DEF Follows, Pending, ShownIn

LEMMA FollowsChanged ==
  ASSUME NEW s, NEW t, t.shown = s.shown,
         \/ t.pend = None
         \/ s.pend # None /\ t.pend.text = s.pend.text
         \/ t.pend.text \in authored' \ authored
  PROVE  Follows(t, s)
  BY DEF Follows, Pending, ShownIn

LEMMA CopiesType ==
  ASSUME TypeOK, NEW m \in Messages
  PROVE  /\ [text |-> m, files |-> FALSE] \in Content /\ [text |-> m, files |-> TRUE] \in Content
         /\ Copies(m) \in Nat
         /\ \A c \in Content : c.text = m =>
              c \in {[text |-> m, files |-> FALSE], [text |-> m, files |-> TRUE]}
  <1>1. [text |-> m, files |-> FALSE] \in Content /\ [text |-> m, files |-> TRUE] \in Content
    BY DEF Content
  <1>2. \A c \in Content : c.text = m =>
          c = [text |-> m, files |-> FALSE] \/ c = [text |-> m, files |-> TRUE]
    BY DEF Content
  <1>3. handed \in [Content -> Nat]
    BY DEF TypeOK
  <1> HIDE DEF Content
  <1>4. Copies(m) \in Nat
    BY <1>1, <1>3 DEF Copies
  <1>5. QED
    BY <1>1, <1>2, <1>4

LEMMA NothingHandedOver ==
  ASSUME IInv, UNCHANGED handed
  PROVE  HandOver
  <1>1. ASSUME NEW m \in Messages
        PROVE  Copies(m)' = Copies(m) /\ Copies(m) \in Nat
    BY CopiesType DEF Copies, IInv
  <1>2. QED
    BY <1>1 DEF HandOver

(* An input handed over is one message; the others' copies stay.           *)
LEMMA OneHandedOver ==
  ASSUME IInv, NEW input \in Input, Open(input.text), input.text \in authored,
         handed' = [handed EXCEPT ![ContentOf(input)] = @ + 1]
  PROVE  HandOver
  <1>1. ContentOf(input) \in Content /\ ContentOf(input).text = input.text
    BY DEF ContentOf, Content, Input
  <1>2. handed \in [Content -> Nat]
    BY DEF IInv, TypeOK
  <1>3. ASSUME NEW m \in Messages
        PROVE  Copies(m)' >= Copies(m) /\ (Copies(m)' # Copies(m) => m = input.text)
    <2> DEFINE c == [text |-> m, files |-> FALSE]
               d == [text |-> m, files |-> TRUE]
    <2>1. c \in Content /\ d \in Content /\ c.text = m /\ d.text = m
      BY DEF Content
    <2>2. Copies(m) = handed[c] + handed[d] /\ Copies(m)' = handed'[c] + handed'[d]
      BY DEF Copies
    <2>3. /\ handed[c] \in Nat /\ handed[d] \in Nat
          /\ handed'[c] \in {handed[c], handed[c] + 1} /\ handed'[d] \in {handed[d], handed[d] + 1}
          /\ handed'[c] # handed[c] => c = ContentOf(input)
          /\ handed'[d] # handed[d] => d = ContentOf(input)
      BY <1>1, <1>2, <2>1
    <2> HIDE DEF c, d
    <2>4. Copies(m)' >= Copies(m) /\ (Copies(m)' # Copies(m) =>
             handed'[c] # handed[c] \/ handed'[d] # handed[d])
      BY <2>2, <2>3
    <2>5. QED
      BY <1>1, <2>1, <2>3, <2>4
  <1>4. QED
    BY <1>3 DEF HandOver

LEMMA UserCallStep ==
  ASSUME IInv, Behind, NEW m \in Messages, Set(m) \/ SetAttachments \/ Clear
  PROVE  MailboxStep /\ HistoryStep /\ HandOver
  <1>1. mem \in InputState /\ (mem.pend # None => mem.pend \in Input)
    BY DEF IInv, TypeOK, InputState
  <1>2. /\ mem'.shown = mem.shown
        /\ \/ mem'.pend = None
           \/ mem.pend # None /\ mem'.pend.text = mem.pend.text
           \/ mem'.pend.text \in authored' \ authored
        /\ \A n \in authored' \ authored : mem'.pend # None /\ mem'.pend.text = n
    <2>1. CASE Set(m)
      BY <1>1, <2>1, FreshType DEF Set, InputState
    <2>2. CASE SetAttachments
      BY <1>1, <2>2 DEF SetAttachments, InputState, Input, history
    <2>3. CASE Clear
      BY <1>1, <2>3 DEF Clear, InputState
    <2>4. QED
      BY <2>1, <2>2, <2>3
  <1>3. UNCHANGED <<row, prompt, handed, acked, taken>>
    BY DEF Set, SetAttachments, Clear, history
  <1>4. Follows(mem', mem) /\ Follows(row', row)
    BY <1>2, <1>3, FollowsChanged, FollowsItself
  <1>5. authored \subseteq authored' /\ withdrawn' \in {withdrawn, withdrawn \cup Texts(mem.pend)}
    BY DEF Set, SetAttachments, Clear, history
  <1>6. QED
    BY <1>2, <1>3, <1>4, <1>5, NothingHandedOver
       DEF MailboxStep, HistoryStep, Behind, InPrompt, Pending

(* Steps that leave mailboxes and history alone.                           *)
LEMMA IdleStep ==
  ASSUME IInv, Behind,
         \/ BuildPrompt \/ DropPrompt \/ Steer \/ LoopEnds
         \/ \E i \in Messages : Reconcile(i)
  PROVE  MailboxStep /\ HistoryStep /\ HandOver
  <1>1. UNCHANGED <<mem, row, handed, authored, acked, withdrawn, taken>>
    BY DEF BuildPrompt, DropPrompt, Steer, LoopEnds, Reconcile, history
  <1>2. \A m \in Messages : InPrompt(m)' => InPrompt(m)
    <2>1. prompt' = prompt \/ prompt'.at \in {"idle", "preparing"}
      <3>1. CASE BuildPrompt \/ DropPrompt
        BY <3>1 DEF BuildPrompt, DropPrompt, NoPrompt
      <3>2. CASE Steer \/ LoopEnds \/ \E i \in Messages : Reconcile(i)
        BY <3>2 DEF Steer, LoopEnds, Reconcile
      <3>3. QED
        BY <3>1, <3>2
    <2>2. QED
      BY <2>1 DEF InPrompt
  <1>3. QED
    BY <1>1, <1>2, FollowsItself, NothingHandedOver DEF MailboxStep, HistoryStep, Behind

(* A checkpoint.                                                           *)
LEMMA SavedStep ==
  ASSUME IInv, Behind, Saved, mem' = mem,
         UNCHANGED handed, \A m \in Messages : InPrompt(m)' => InPrompt(m)
  PROVE  MailboxStep /\ HistoryStep /\ HandOver
  BY FollowsItself, NothingHandedOver DEF Saved, MailboxStep, HistoryStep, Behind

LEMMA ConsumeStep ==
  ASSUME IInv, Behind, ConsumePrompt
  PROVE  MailboxStep /\ HistoryStep /\ HandOver
  <1>1. UNCHANGED <<row, handed, authored, acked, withdrawn, taken>>
    BY DEF ConsumePrompt, history
  <1>2. prompt \in Prompt /\ prompt.input \in Input /\ prompt.input # None /\ mem \in InputState
    BY NoneAssumption DEF ConsumePrompt, IInv, TypeOK, Prompts
  <1>3. CASE Peek = prompt.input /\ mem' = Shown(mem) /\ prompt' = [prompt EXCEPT !.at = "built"]
    <2>1. mem.pend = prompt.input /\ prompt'.input = prompt.input
      BY <1>2, <1>3 DEF Peek, Prompt
    <2>2. Follows(mem', mem) /\ mem.shown \subseteq mem'.shown
      BY <1>2, <1>3, <2>1, FollowsShown DEF Follows
    <2>3. QED
      BY <1>1, <1>2, <2>1, <2>2, FollowsItself, NothingHandedOver
         DEF MailboxStep, HistoryStep, Behind, InPrompt, Pending
  <1>4. CASE prompt' = NoPrompt /\ UNCHANGED mem
    BY <1>1, <1>4, FollowsItself, NothingHandedOver
       DEF MailboxStep, HistoryStep, Behind, InPrompt, NoPrompt
  <1>5. QED
    BY <1>3, <1>4 DEF ConsumePrompt

LEMMA SendStep ==
  ASSUME IInv, Behind, SendPrompt
  PROVE  MailboxStep /\ HistoryStep /\ HandOver
  <1>1. UNCHANGED <<mem, row, authored, acked, withdrawn, taken>> /\ prompt' = NoPrompt
    BY DEF SendPrompt, history
  <1>2. prompt.input \in Input /\ Open(prompt.input.text) /\ prompt.input.text \in authored
    BY DEF SendPrompt, IInv, Prompts, Open
  <1>3. HandOver
    BY <1>2, OneHandedOver DEF SendPrompt
  <1>4. QED
    BY <1>1, <1>3, FollowsItself DEF MailboxStep, HistoryStep, Behind, InPrompt, NoPrompt

LEMMA SubmitStep ==
  ASSUME IInv, Behind, Submit
  PROVE  MailboxStep /\ HistoryStep /\ HandOver
  <1>1. UNCHANGED <<mem, row, prompt, authored, acked, withdrawn, taken>>
    BY DEF Submit, history
  <1>2. MailboxStep /\ HistoryStep
    BY <1>1, FollowsItself DEF MailboxStep, HistoryStep, Behind, InPrompt
  <1>3. /\ op.input \in Input /\ mem.pend = op.input /\ op.input # None
        /\ op.input.text \in authored /\ Open(op.input.text)
    BY NoneAssumption DEF Submit, IInv, Claims, Sound, SoundIn, Open, Pending
  <1>4. HandOver
    <2>1. CASE UNCHANGED handed
      BY <2>1, NothingHandedOver
    <2>2. CASE handed' = [handed EXCEPT ![ContentOf(op.input)] = @ + 1]
      BY <1>3, <2>2, OneHandedOver
    <2>3. QED
      BY <2>1, <2>2 DEF Submit
  <1>5. QED
    BY <1>2, <1>4

(* A claim or an answer goes into memory; an admitted input is shown.      *)
LEMMA AnswerStep ==
  ASSUME IInv, Behind, Claim \/ Finish
  PROVE  MailboxStep /\ HistoryStep /\ HandOver
  <1>1. UNCHANGED <<row, prompt, handed, authored, acked, withdrawn, taken>>
    BY DEF Claim, Finish, history
  <1>2. Follows(mem', mem) /\ mem.shown \subseteq mem'.shown
    <2>1. mem \in InputState
      BY DEF IInv, TypeOK
    <2>2. CASE Claim
      <3>1. mem'.pend = mem.pend /\ mem'.shown = mem.shown
        BY <2>1, <2>2 DEF Claim, InputState
      <3>2. QED
        BY <3>1 DEF Follows, Pending, ShownIn
    <2>3. CASE Finish
      <3> DEFINE answered == [mem EXCEPT !.receipt[op.id] = op.answer]
      <3>1. answered \in InputState /\ answered.pend = mem.pend /\ answered.shown = mem.shown
        BY <2>1 DEF InputState, IInv, TypeOK, Operation
      <3>2. mem' = answered \/ (mem' = Shown(answered) /\ mem.pend # None)
        BY <2>3 DEF Finish
      <3> HIDE DEF answered
      <3>3. Follows(mem', answered)
        BY <3>1, <3>2, FollowsItself, FollowsShown
      <3>4. QED
        BY <3>1, <3>3 DEF Follows, Pending, ShownIn
    <2>4. QED
      BY <2>2, <2>3
  <1>3. QED
    BY <1>1, <1>2, FollowsItself, NothingHandedOver
       DEF MailboxStep, HistoryStep, Behind, InPrompt

LEMMA CheckpointsStep ==
  ASSUME IInv, Behind, CheckpointPrompt \/ Checkpoint \/ FlushClaim \/ FlushFinish
  PROVE  MailboxStep /\ HistoryStep /\ HandOver
  <1>1. mem' = mem /\ UNCHANGED handed
    BY DEF CheckpointPrompt, Checkpoint, FlushClaim, FlushFinish
  <1>2. \A m \in Messages : InPrompt(m)' => InPrompt(m)
    <2>1. CASE CheckpointPrompt
      <3>1. prompt'.input = prompt.input
        BY <2>1 DEF CheckpointPrompt, IInv, TypeOK, Prompt
      <3>2. QED
        BY <2>1, <3>1 DEF CheckpointPrompt, InPrompt
    <2>2. CASE Checkpoint \/ FlushClaim \/ FlushFinish
      BY <2>2 DEF Checkpoint, FlushClaim, FlushFinish, InPrompt
    <2>3. QED
      BY <2>1, <2>2
  <1>3. CASE Saved
    BY <1>1, <1>2, <1>3, SavedStep
  <1>4. CASE UNCHANGED <<row, history>>
    BY <1>1, <1>2, <1>4, FollowsItself, NothingHandedOver
       DEF MailboxStep, HistoryStep, Behind, history
  <1>5. QED
    BY <1>3, <1>4 DEF CheckpointPrompt, Checkpoint, FlushClaim, FlushFinish

(* An engine is dropped, by a stop, a cleanup, a refused follow-up or a    *)
(* restart.                                                                *)
LEMMA DropStep ==
  ASSUME IInv, Behind, UNCHANGED <<row, handed, history>>, mem' = row,
         prompt' \in {prompt, NoPrompt}
  PROVE  MailboxStep /\ HistoryStep /\ HandOver
  <1>1. \A m \in Messages : InPrompt(m)' => InPrompt(m)
    BY DEF InPrompt, NoPrompt
  <1>2. QED
    BY <1>1, FollowsItself, NothingHandedOver DEF MailboxStep, HistoryStep, Behind, history

LEMMA StopStep ==
  ASSUME IInv, Behind, Stop \/ Release \/ Crash
  PROVE  MailboxStep /\ HistoryStep /\ HandOver
  <1>1. CASE Saved /\ UNCHANGED <<mem, prompt, handed>>
    BY <1>1, SavedStep DEF InPrompt
  <1>2. CASE mem' = row /\ UNCHANGED <<row, handed, history>> /\ prompt' \in {prompt, NoPrompt}
    BY <1>2, DropStep
  <1>3. QED
    BY <1>1, <1>2 DEF Stop, Release, Crash

(* A takeover: the new engine and the row agree on a mailbox made from the *)
(* row.                                                                    *)
LEMMA TakeOverStep ==
  ASSUME IInv, Behind, NEW s, TakeOver(s), Follows(s, row), UNCHANGED <<prompt, handed>>
  PROVE  MailboxStep /\ HandOver
  BY NothingHandedOver DEF TakeOver, MailboxStep, Behind, InPrompt

LEMMA ResumeStep ==
  ASSUME IInv, Behind, Resume
  PROVE  MailboxStep /\ HistoryStep /\ HandOver
  <1>1. MailboxStep /\ HandOver
    BY FollowsItself, TakeOverStep DEF Resume
  <1>2. QED
    BY <1>1 DEF Resume, HistoryStep, history

LEMMA JumpstartStep ==
  ASSUME IInv, Behind, NEW m \in Messages, Jumpstart(m)
  PROVE  MailboxStep /\ HistoryStep /\ HandOver
  <1> DEFINE s == [row EXCEPT !.pend = IF @ = None THEN Fresh(m) ELSE [@ EXCEPT !.text = m]]
  <1>1. row \in InputState
    BY DEF IInv, TypeOK
  <1>2. s.pend \in Input /\ s.pend.text = m /\ s.shown = row.shown
    <2>1. CASE row.pend = None
      BY <1>1, <2>1, FreshType DEF InputState
    <2>2. CASE row.pend # None
      <3>1. row.pend \in Input
        BY <1>1, <2>2 DEF InputState
      <3>2. [row.pend EXCEPT !.text = m] \in Input /\ [row.pend EXCEPT !.text = m].text = m
        BY <3>1 DEF Input
      <3>3. QED
        BY <1>1, <2>2, <3>2 DEF InputState
    <2>3. QED
      BY <2>1, <2>2
  <1>3. /\ TakeOver(s) /\ authored' = authored \cup {m} /\ m \notin authored
        /\ acked' = acked \cup {m} /\ UNCHANGED <<prompt, handed>>
        /\ withdrawn' \cup taken' = withdrawn \cup taken \cup Texts(row.pend)
    BY DEF Jumpstart
  <1> HIDE DEF s
  <1>4. MailboxStep /\ HandOver
    BY <1>2, <1>3, FollowsChanged, TakeOverStep
  <1>5. QED
    BY <1>2, <1>3, <1>4, NoneAssumption DEF HistoryStep, TakeOver, Pending

LEMMA FollowUpStep ==
  ASSUME IInv, Behind, NEW m \in Messages, FollowUp(m)
  PROVE  MailboxStep /\ HistoryStep /\ HandOver
  <1>1. CASE ~Admitted(row)
    <2> DEFINE s == [row EXCEPT !.pend = Fresh(m)]
    <2>1. /\ TakeOver(s) /\ authored' = authored \cup {m} /\ m \notin authored
          /\ acked' = acked \cup {m} /\ UNCHANGED <<prompt, handed, taken>>
          /\ withdrawn' = withdrawn \cup Texts(row.pend)
      BY <1>1 DEF FollowUp
    <2>2. s.pend = Fresh(m) /\ s.shown = row.shown
      BY DEF IInv, TypeOK, InputState
    <2> HIDE DEF s
    <2>3. MailboxStep /\ HandOver
      BY <2>1, <2>2, FreshType, FollowsChanged, TakeOverStep
    <2>4. QED
      BY <2>1, <2>2, <2>3, FreshType DEF HistoryStep, TakeOver, Pending
  <1>2. CASE Admitted(row)
    BY <1>2, DropStep DEF FollowUp
  <1>3. QED
    BY <1>1, <1>2

LEMMA AnyStep ==
  ASSUME IInv, Behind, Next
  PROVE  MailboxStep /\ HistoryStep /\ HandOver
  <1>1. CASE \E m \in Messages : Set(m) \/ Jumpstart(m) \/ FollowUp(m) \/ Reconcile(m)
    BY <1>1, UserCallStep, JumpstartStep, FollowUpStep, IdleStep
  <1>2. CASE SetAttachments \/ Clear
    <2>1. Messages # {}
      BY <1>2, NoneAssumption DEF SetAttachments, Clear, IInv, TypeOK, InputState, Input
    <2>2. QED
      BY <1>2, <2>1, UserCallStep
  <1>3. CASE BuildPrompt \/ ConsumePrompt \/ CheckpointPrompt \/ SendPrompt \/ DropPrompt
    BY <1>3, IdleStep, ConsumeStep, CheckpointsStep, SendStep
  <1>4. CASE Checkpoint
    BY <1>4, CheckpointsStep
  <1>5. CASE Steer \/ Claim \/ FlushClaim \/ Submit \/ Finish \/ FlushFinish
    BY <1>5, IdleStep, AnswerStep, CheckpointsStep, SubmitStep
  <1>6. CASE LoopEnds \/ Stop \/ Release \/ Resume \/ Crash
    BY <1>6, IdleStep, StopStep, ResumeStep
  <1>7. QED
    BY <1>1, <1>2, <1>3, <1>4, <1>5, <1>6 DEF Next

(* Memory is never behind the row.                                         *)
LEMMA RowIsBehind == Spec => []Behind
  <1>1. Init => Behind
    BY DEF Init, Behind
  <1>2. IInv /\ Behind /\ [Next]_vars => Behind'
    BY AnyStep DEF MailboxStep, Behind, vars
  <1>3. QED
    BY <1>1, <1>2, Invariance, PTL DEF Spec

LEMMA CopiesOnce ==
  ASSUME IInv, NEW m \in Messages
  PROVE  /\ Copies(m) \in {0, 1}
         /\ m \notin authored => Copies(m) = 0
  <1> DEFINE c == [text |-> m, files |-> FALSE]
             d == [text |-> m, files |-> TRUE]
  <1>1. c \in Content /\ d \in Content /\ c.text = m /\ d.text = m /\ c # d
    BY DEF Content
  <1>2. Copies(m) = handed[c] + handed[d] /\ handed[c] \in Nat /\ handed[d] \in Nat
    BY <1>1 DEF Copies, IInv, TypeOK
  <1> HIDE DEF c, d
  <1>3. handed[c] <= 1 /\ handed[d] <= 1 /\ ~(handed[c] > 0 /\ handed[d] > 0)
    BY <1>1 DEF IInv, AtMostOnce
  <1>4. m \notin authored => handed[c] = 0 /\ handed[d] = 0
    BY <1>1, <1>2 DEF IInv, Authored
  <1>5. QED
    BY <1>2, <1>3, <1>4

(* A message whose fate is settled is in neither mailbox and in no prompt, *)
(* and stays out of them; nothing is recorded about it any more.           *)
LEMMA SettledStays ==
  ASSUME IInv, Behind, MailboxStep, HistoryStep, NEW m \in Messages, m \in authored, ~Open(m)
  PROVE  /\ ~Open(m)' /\ ShownIn(row, m)' = ShownIn(row, m)
         /\ m \in withdrawn' \cup taken' <=> m \in withdrawn \cup taken
         /\ m \in acked' <=> m \in acked
  <1>1. /\ ~Pending(mem, m) /\ ~Pending(row, m) /\ ~InPrompt(m)
        /\ ShownIn(mem, m) => ShownIn(row, m)
    BY DEF Open, InPrompt
  <1>2. ShownIn(row, m) => ShownIn(mem, m)
    BY DEF Behind, ShownIn
  <1>3. ~Pending(mem', m) /\ ~Pending(row', m) /\ ~InPrompt(m)'
    BY <1>1 DEF MailboxStep, Follows
  <1>4. /\ ShownIn(mem', m) <=> ShownIn(row, m)
        /\ ShownIn(row', m) <=> ShownIn(row, m)
    <2>1. ASSUME NEW t, NEW s, Follows(t, s), ~Pending(s, m)
          PROVE  ShownIn(t, m) <=> ShownIn(s, m)
      BY <2>1 DEF Follows, ShownIn
    <2>2. QED
      BY <1>1, <1>2, <2>1 DEF MailboxStep
  <1>5. m \notin Texts(mem.pend) /\ m \notin Texts(row.pend)
    BY <1>1 DEF Texts, Pending
  <1>6. ~Open(m)'
    BY <1>3, <1>4 DEF Open, InPrompt
  <1>7. ShownIn(row, m)' = ShownIn(row, m)
    BY <1>4 DEF ShownIn
  <1>8. QED
    BY <1>5, <1>6, <1>7 DEF HistoryStep

(* What the fate is, under the inductive invariant.                        *)
FateIsKnown(m) ==
  /\ Copies(m) \in {0, 1} /\ (FateOf(m) = "given" <=> Copies(m) = 1)
  /\ Copies(m) = 0 =>
       /\ m \notin authored => FateOf(m) = "unsent"
       /\ m \in authored =>
            FateOf(m) = IF Open(m) THEN "held"
                        ELSE IF ShownIn(row, m) THEN "shown"
                        ELSE IF m \in withdrawn \cup taken THEN "withdrawn" ELSE "refused"
  /\ m \notin authored => Copies(m) = 0

FatesAreKnown == \A m \in Messages : FateIsKnown(m)

LEMMA FateLemma == IInv => FatesAreKnown
  <1> SUFFICES ASSUME IInv, NEW m \in Messages
               PROVE  FateIsKnown(m)
    BY DEF FatesAreKnown
  <1>1. Copies(m) \in {0, 1} /\ (m \notin authored => Copies(m) = 0)
    BY CopiesOnce
  <1>2. m \in acked /\ ~Open(m) => ShownIn(row, m) \/ m \in withdrawn \cup taken
    BY DEF IInv, Sound, SoundIn, Keeps, Holds, Open, Pending, ShownIn
  <1>3. QED
    BY <1>1, <1>2 DEF FateOf, FateIsKnown

LEMMA FateLemmaNext == IInv' => FatesAreKnown'
  BY FateLemma, PTL

LEMMA DeliveryStep ==
  ASSUME IInv, IInv', Behind, Next
  PROVE  Delivery!Next
  <1>1. MailboxStep /\ HistoryStep /\ HandOver
    BY AnyStep
  <1>2. ASSUME NEW m \in Messages
        PROVE  /\ \/ FateOf(m)' = FateOf(m)
                  \/ FateOf(m) = "unsent" /\ FateOf(m)' = "held"
                  \/ FateOf(m) = "held" /\ FateOf(m)' \in {"given", "shown", "withdrawn", "refused"}
               /\ Copies(m)' = IF FateOf(m) # "given" /\ FateOf(m)' = "given"
                               THEN Copies(m) + 1 ELSE Copies(m)
    <2>1. FateIsKnown(m) /\ FateIsKnown(m)'
      BY FateLemma, FateLemmaNext DEF FatesAreKnown
    <2>2. Copies(m)' >= Copies(m) /\ (Copies(m)' # Copies(m) => Open(m) /\ m \in authored)
      BY <1>1 DEF HandOver
    <2>3. m \in authored => m \in authored'
      BY <1>1 DEF HistoryStep
    <2>4. CASE Copies(m) = 1
      BY <2>1, <2>2, <2>4 DEF FateIsKnown
    <2>5. CASE Copies(m) = 0 /\ m \notin authored
      <3>1. m \in authored' => Open(m)'
        BY <1>1, <2>5 DEF HistoryStep, Open, Pending
      <3>2. QED
        BY <2>1, <2>2, <2>5, <3>1 DEF FateIsKnown
    <2>6. CASE Copies(m) = 0 /\ m \in authored /\ Open(m)
      BY <2>1, <2>2, <2>3, <2>6 DEF FateIsKnown
    <2>7. CASE Copies(m) = 0 /\ m \in authored /\ ~Open(m)
      <3>1. /\ ~Open(m)' /\ ShownIn(row, m)' = ShownIn(row, m)
            /\ m \in withdrawn' \cup taken' <=> m \in withdrawn \cup taken
        BY <1>1, <2>7, SettledStays
      <3>2. QED
        BY <2>1, <2>2, <2>3, <2>7, <3>1 DEF FateIsKnown
    <2>8. QED
      BY <2>1, <2>4, <2>5, <2>6, <2>7 DEF FateIsKnown
  <1>3. QED
    BY <1>2 DEF Delivery!Next, Delivery!Moves, Delivery!Ends

(* The mailbox of a task implements the delivery it promises: each message *)
(* has one end, whichever of prompt, steer, withdrawal, takeover and       *)
(* restart comes first, and is given to the agent at most once.            *)
THEOREM DeliveryIsImplemented == Spec => ImplementsDelivery
  <1>1. Init => Delivery!Init
    <2> SUFFICES ASSUME Init
                 PROVE  Delivery!Init
      OBVIOUS
    <2>1. \A m \in Messages : Copies(m) = 0
      BY DEF Init, Copies, Content
    <2>2. \A m \in Messages : FateOf(m) = "unsent"
      BY <2>1 DEF Init, FateOf
    <2>3. QED
      BY <2>1, <2>2 DEF Delivery!Init
  <1>2. IInv /\ IInv' /\ Behind /\ [Next]_vars => [Delivery!Next]_(Delivery!deliveryVars)
    <2> SUFFICES ASSUME IInv, IInv', Behind, [Next]_vars
                 PROVE  [Delivery!Next]_(Delivery!deliveryVars)
      OBVIOUS
    <2>1. CASE Next
      BY <2>1, DeliveryStep
    <2>2. CASE UNCHANGED vars
      BY <2>2 DEF vars, history, Delivery!deliveryVars, FateOf, Copies, Open, Pending, ShownIn
    <2>3. QED
      BY <2>1, <2>2
  <1>3. QED
    BY <1>1, <1>2, Invariance, RowIsBehind, PTL DEF Spec, ImplementsDelivery, Delivery!Spec

=============================================================================
