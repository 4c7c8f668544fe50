----------------------------- MODULE ChatsProofs -----------------------------
(***************************************************************************)
(* Proofs about Chats, for every set of messages and users and all bounds. *)
(***************************************************************************)
EXTENDS Chats, FiniteSetTheorems, TLAPS

QueuedSet == ToSet(queued)
InputSet == ToSet(inputs)
DrainIsDue == Drain \in InputSet

Distinct(ops) == \A i, j \in DOMAIN ops : ops[i] = ops[j] => i = j

(* No operation is in the operation queue twice, and the sender of a       *)
(* message that is in it waits.                                            *)
InputsInv ==
  /\ Distinct(inputs)
  /\ \A m \in Messages : Send(m) \in InputSet => answer[m] = "waiting"

(* A startup belongs to the head of the operation queue.  Its messages     *)
(* have not been given to the agent; those of a drain stay in the queue    *)
(* until the prompt is prepared.                                           *)
StartupInv ==
  startup # None =>
    /\ inputs # <<>>
    /\ \/ /\ Head(inputs) = Drain
          /\ \A m \in Batch : answer[m] = "accepted"
          /\ startup.phase = "preparing" => Batch \subseteq QueuedSet
       \/ \E m \in Messages : Head(inputs) = Send(m) /\ Batch = {m} /\ m \in transcript
    /\ startup.phase = "sending" => Batch \subseteq transcript
    /\ \A m \in Batch : given[m] = 0

(* Where a message can be, by what its sender was told.                    *)
MessageInv ==
  \A m \in Messages :
    /\ given[m] <= 1
    /\ given[m] > 0 => m \in transcript
    /\ m \in QueuedSet => answer[m] = "accepted" /\ m \notin transcript
    /\ answer[m] = "none" => m \notin transcript
    /\ answer[m] = "waiting" /\ m \in transcript => startup # None /\ Head(inputs) = Send(m)
    /\ answer[m] = "accepted" =>
         \/ m \in QueuedSet \/ given[m] > 0 \/ m \in transcript \cap excused
         \/ startup # None /\ m \in Batch

(* What the row's status says of the startup, the stream and interruptions.*)
StatusInv ==
  /\ status = "starting" => startup # None /\ startup.phase = "preparing"
  /\ status = "streaming" => stream \/ "unmarked" \in lost
  /\ status = "interrupting" =>
       Running # {} /\ ~stream /\ (startup # None => startup.interrupted)
  /\ startup # None /\ (startup.phase = "preparing" \/ startup.interrupted) => ~stream

(* A startup that was interrupted has an interruption that waits for it,   *)
(* unless the wait timed out; one that was not finds the row as it left it *)
(* unless an older interruption has overtaken it.                          *)
WaitInv ==
  startup # None =>
    /\ startup.interrupted =>
         "timeout" \in lost \/ \E u \in Running : interrupt[u].startup = "running"
    /\ ~startup.interrupted =>
         /\ startup.phase = "sending" => stream
         /\ \/ lost # {}
            \/ status = IF startup.phase = "preparing" THEN "starting" ELSE "streaming"

QueueInv ==
  queued # <<>> /\ lost = {} /\ status \notin {"failed", "stopped", "done"} =>
    DrainIsDue \/ startup # None \/ stream \/ Running # {}

IInv == TypeOK /\ InputsInv /\ StartupInv /\ MessageInv /\ StatusInv /\ WaitInv /\ QueueInv

-----------------------------------------------------------------------------
(* What filter() keeps: every message of the queue that is not taken out,  *)
(* and no other.                                                           *)
LEMMA KeptLemma ==
  ASSUME queued \in Seq(Messages), NEW msgs
  PROVE  /\ Kept(msgs) \in Seq(Messages)
         /\ Len(Kept(msgs)) <= Len(queued)
         /\ ToSet(Kept(msgs)) = ToSet(queued) \ msgs
  <1> DEFINE left == {i \in DOMAIN queued : queued[i] \notin msgs}
             below(i) == {j \in left : j <= i}
             rank(i) == Cardinality(below(i))
             n == Cardinality(left)
             f == [i \in left |-> rank(i)]
             at(k) == CHOOSE i \in left : rank(i) = k
  <1>1. /\ DOMAIN queued = 1 .. Len(queued) /\ Len(queued) \in Nat
        /\ IsFiniteSet(1 .. Len(queued)) /\ Cardinality(1 .. Len(queued)) = Len(queued)
    <2>1. Len(queued) \in Nat /\ DOMAIN queued = 1 .. Len(queued)
      OBVIOUS
    <2>2. IsFiniteSet(1 .. Len(queued)) /\ Cardinality(1 .. Len(queued)) = Len(queued)
      BY <2>1, FS_Interval
    <2>3. QED
      BY <2>1, <2>2
  <1>2. IsFiniteSet(left) /\ n \in Nat /\ n <= Len(queued)
    BY <1>1, FS_Subset, FS_CardinalityType
  <1>3. ASSUME NEW i \in left
        PROVE  IsFiniteSet(below(i)) /\ rank(i) \in 1 .. n
    <2>1. IsFiniteSet(below(i)) /\ rank(i) <= n /\ rank(i) \in Nat
      BY <1>2, FS_Subset, FS_CardinalityType
    <2>2. i \in below(i)
      BY <1>1
    <2>3. rank(i) # 0
      BY <2>1, <2>2, FS_EmptySet
    <2>4. QED
      BY <1>2, <2>1, <2>3
  <1>4. ASSUME NEW i \in left, NEW j \in left, i < j
        PROVE  rank(i) # rank(j)
    <2>1. below(i) \subseteq below(j) /\ j \in below(j) /\ j \notin below(i)
      BY <1>1, <1>4
    <2>2. below(i) # below(j)
      BY <2>1
    <2>3. QED
      BY <1>3, <2>1, <2>2, FS_Subset
  <1>5. f \in Injection(left, 1 .. n)
    <2>1. f \in [left -> 1 .. n]
      BY <1>3
    <2>2. ASSUME NEW i \in left, NEW j \in left, f[i] = f[j]
          PROVE  i = j
      <3>1. i \in Nat /\ j \in Nat
        BY <1>1
      <3>2. CASE i < j
        BY <1>4, <2>2, <3>2
      <3>3. CASE j < i
        BY <1>4, <2>2, <3>3
      <3>4. QED
        BY <3>1, <3>2, <3>3
    <2>3. QED
      BY <2>1, <2>2 DEF Injection, IsInjective
  <1>6. f \in Surjection(left, 1 .. n)
    BY <1>2, <1>5, FS_Injection, FS_Interval
  <1>7. ASSUME NEW k \in 1 .. n
        PROVE  at(k) \in left /\ rank(at(k)) = k
    <2>1. \E i \in left : rank(i) = k
      BY <1>6 DEF Surjection
    <2>2. QED
      BY <2>1
  <1>8. ASSUME NEW i \in left
        PROVE  at(rank(i)) = i
    BY <1>3, <1>5, <1>7 DEF Injection, IsInjective
  <1>9. Kept(msgs) = [k \in 1 .. n |-> queued[at(k)]]
    BY DEF Kept
  <1>10. Kept(msgs) \in Seq(Messages) /\ Len(Kept(msgs)) = n
    <2>1. \A i \in left : queued[i] \in Messages
      BY <1>1
    <2> HIDE DEF n, at, left
    <2>2. \A k \in 1 .. n : queued[at(k)] \in Messages
      BY <1>7, <2>1
    <2>3. QED
      BY <1>2, <1>9, <2>2
  <1>11. ToSet(Kept(msgs)) = {queued[i] : i \in left}
    <2> HIDE DEF n, at, rank, left
    <2>1. ToSet(Kept(msgs)) = {queued[at(k)] : k \in 1 .. n}
      BY <1>9 DEF ToSet
    <2>2. QED
      BY <1>3, <1>7, <1>8, <2>1
  <1>12. QED
    BY <1>1, <1>2, <1>10, <1>11 DEF ToSet

-----------------------------------------------------------------------------
(* The operations are told apart, and each is known by its kind.           *)
LEMMA OperationsLemma ==
  /\ Drain \in Operations
  /\ \A m \in Messages :
       /\ Send(m) \in Operations /\ Send(m).message = m /\ Send(m).kind = "send"
       /\ Removal(m) \in Operations /\ Removal(m).message = m /\ Removal(m).kind = "remove"
       /\ Send(m) # Drain /\ Removal(m) # Drain
       /\ \A n \in Messages : Send(m) # Removal(n) /\ (Send(m) = Send(n) => m = n)
  /\ \A o \in Operations :
       /\ o.kind = "drain" <=> o = Drain
       /\ o.kind = "send" => \E m \in Messages : o = Send(m) /\ o.message = m
       /\ o.kind = "remove" => \E m \in Messages : o = Removal(m) /\ o.message = m
  <1>1. Drain \in Operations /\ Drain.kind = "drain"
    BY DEF Operations, Drain
  <1>2. ASSUME NEW m \in Messages
        PROVE  /\ Send(m) \in Operations /\ Send(m).message = m /\ Send(m).kind = "send"
               /\ Removal(m) \in Operations /\ Removal(m).message = m
               /\ Removal(m).kind = "remove"
    BY DEF Operations, Send, Removal
  <1>3. \A o \in Operations :
          o = Drain \/ \E m \in Messages : o = Send(m) \/ o = Removal(m)
    BY DEF Operations
  <1>4. QED
    BY <1>1, <1>2, <1>3

LEMMA TailLemma ==
  ASSUME NEW ops \in Seq(Operations), Distinct(ops), ops # <<>>
  PROVE  /\ Tail(ops) \in Seq(Operations) /\ Distinct(Tail(ops))
         /\ ToSet(Tail(ops)) = ToSet(ops) \ {Head(ops)}
         /\ Head(ops) \in ToSet(ops) /\ Head(ops) \in Operations
  <1>1. /\ Len(ops) \in Nat /\ Len(ops) >= 1 /\ DOMAIN ops = 1 .. Len(ops)
        /\ Tail(ops) \in Seq(Operations) /\ Len(Tail(ops)) = Len(ops) - 1
        /\ DOMAIN Tail(ops) = 1 .. (Len(ops) - 1) /\ Head(ops) = ops[1]
        /\ \A i \in 1 .. (Len(ops) - 1) : Tail(ops)[i] = ops[i + 1]
    OBVIOUS
  <1>2. Distinct(Tail(ops))
    BY <1>1 DEF Distinct
  <1>3. ASSUME NEW o \in ToSet(ops) \ {Head(ops)}
        PROVE  o \in ToSet(Tail(ops))
    <2>1. PICK i \in DOMAIN ops : o = ops[i]
      BY DEF ToSet
    <2>2. i - 1 \in 1 .. (Len(ops) - 1) /\ Tail(ops)[i - 1] = o
      BY <1>1, <1>3, <2>1
    <2>3. QED
      BY <1>1, <2>2 DEF ToSet
  <1>4. ASSUME NEW o \in ToSet(Tail(ops))
        PROVE  o \in ToSet(ops) \ {Head(ops)}
    <2>1. PICK i \in DOMAIN Tail(ops) : o = Tail(ops)[i]
      BY DEF ToSet
    <2>2. i + 1 \in DOMAIN ops /\ ops[i + 1] = o /\ ops[i + 1] # ops[1]
      BY <1>1, <2>1 DEF Distinct
    <2>3. QED
      BY <1>1, <2>2 DEF ToSet
  <1>5. Head(ops) \in ToSet(ops) /\ Head(ops) \in Operations
    BY <1>1 DEF ToSet
  <1>6. QED
    BY <1>1, <1>2, <1>3, <1>4, <1>5

LEMMA AppendLemma ==
  ASSUME NEW S, NEW s \in Seq(S), NEW e \in S
  PROVE  /\ Append(s, e) \in Seq(S) /\ Append(s, e) # <<>>
         /\ ToSet(Append(s, e)) = ToSet(s) \cup {e}
         /\ s # <<>> => Head(Append(s, e)) = Head(s)
         /\ Distinct(s) /\ e \notin ToSet(s) => Distinct(Append(s, e))
  <1>1. /\ Len(s) \in Nat /\ DOMAIN s = 1 .. Len(s)
        /\ Append(s, e) \in Seq(S) /\ DOMAIN Append(s, e) = 1 .. (Len(s) + 1)
        /\ \A i \in 1 .. Len(s) : Append(s, e)[i] = s[i]
        /\ Append(s, e)[Len(s) + 1] = e
    OBVIOUS
  <1>2. Append(s, e) # <<>> /\ (s # <<>> => Head(Append(s, e)) = Head(s))
    <2>1. Len(Append(s, e)) = Len(s) + 1 /\ Len(<<>>) = 0
      OBVIOUS
    <2>2. s # <<>> => Len(s) >= 1 /\ Head(s) = s[1] /\ Head(Append(s, e)) = Append(s, e)[1]
      OBVIOUS
    <2>3. QED
      BY <1>1, <2>1, <2>2
  <1>3. ToSet(Append(s, e)) = ToSet(s) \cup {e}
    <2>1. 1 .. (Len(s) + 1) = 1 .. Len(s) \cup {Len(s) + 1}
      BY <1>1
    <2>2. QED
      BY <1>1, <2>1 DEF ToSet
  <1>4. Distinct(s) /\ e \notin ToSet(s) => Distinct(Append(s, e))
    BY <1>1 DEF Distinct, ToSet
  <1>5. QED
    BY <1>1, <1>2, <1>3, <1>4

LEMMA ContainsLemma ==
  ASSUME NEW S, NEW s \in Seq(S), NEW e
  PROVE  Contains(s, e) <=> e \in ToSet(s)
  BY DEF Contains, ToSet

LEMMA ScheduledLemma ==
  ASSUME NEW ops \in Seq(Operations), Distinct(ops)
  PROVE  /\ Scheduled(ops) \in Seq(Operations) /\ Distinct(Scheduled(ops))
         /\ Scheduled(ops) # <<>>
         /\ ToSet(Scheduled(ops)) = ToSet(ops) \cup {Drain}
         /\ ops # <<>> => Head(Scheduled(ops)) = Head(ops)
  <1>1. Contains(ops, Drain) <=> Drain \in ToSet(ops)
    BY ContainsLemma
  <1>2. CASE Contains(ops, Drain)
    <2>1. Scheduled(ops) = ops /\ Drain \in ToSet(ops)
      BY <1>1, <1>2 DEF Scheduled
    <2>2. ops # <<>>
      BY <2>1 DEF ToSet
    <2>3. QED
      BY <2>1, <2>2
  <1>3. CASE ~Contains(ops, Drain)
    <2>1. Scheduled(ops) = Append(ops, Drain) /\ Drain \notin ToSet(ops)
      BY <1>1, <1>3 DEF Scheduled
    <2>2. QED
      BY <2>1, AppendLemma, OperationsLemma
  <1>4. QED
    BY <1>2, <1>3

-----------------------------------------------------------------------------
(* What a state of the inductive invariant says of the startup under way:  *)
(* which messages it carries, and what their senders know.                 *)
LEMMA BatchLemma ==
  ASSUME IInv, startup # None
  PROVE  /\ startup \in Startup /\ Batch \subseteq Messages
         /\ inputs # <<>> /\ Head(inputs) \in Operations /\ Head(inputs) \in InputSet
         /\ \A m \in Batch : given[m] = 0
         /\ \/ /\ Drained
               /\ \A m \in Batch : answer[m] = "accepted"
            \/ \E m \in Messages :
                 /\ Head(inputs) = Send(m) /\ ~Drained /\ Batch = {m} /\ m \in transcript
                 /\ answer[m] = "waiting" /\ Head(inputs).message = m
  <1>1. startup \in Startup
    BY DEF IInv, TypeOK
  <1>2. Batch \subseteq Messages
    <2>1. startup.batch \in Seq(Messages)
      BY <1>1 DEF Startup
    <2>2. QED
      BY <2>1 DEF Batch, ToSet
  <1>3. inputs # <<>> /\ inputs \in Seq(Operations) /\ Distinct(inputs)
    BY DEF IInv, TypeOK, StartupInv, InputsInv
  <1>4. Head(inputs) \in Operations /\ Head(inputs) \in InputSet
    BY <1>3, TailLemma DEF InputSet
  <1>5. QED
    BY <1>1, <1>2, <1>3, <1>4, OperationsLemma DEF IInv, StartupInv, InputsInv, Drained

(* What the end of the head tells: the sender of a message sent to a free  *)
(* chat, and nobody else.                                                  *)
LEMMA ToldLemma ==
  ASSUME IInv, startup # None, NEW result, Told(result)
  PROVE  \A m \in Messages :
           answer'[m] = IF m \in Batch /\ ~Drained THEN result ELSE answer[m]
  <1>1. answer \in [Messages -> {"none", "waiting", "accepted", "refused", "removed"}]
    BY DEF IInv, TypeOK
  <1>2. QED
    BY <1>1, BatchLemma DEF Told

(* What settling a startup does to the interruptions and the operations.   *)
LEMMA SettlesLemma ==
  ASSUME IInv, NEW ops \in Seq(Operations), Distinct(ops), Settles(ops)
  PROVE  /\ startup' = None
         /\ interrupt' \in [Users -> Interruption \cup {None}]
         /\ inputs' \in Seq(Operations) /\ Distinct(inputs')
         /\ ToSet(ops) \subseteq InputSet' /\ InputSet' \subseteq ToSet(ops) \cup {Drain}
         /\ Running' = Running \ Settling
         /\ Settling # {} => DrainIsDue'
         /\ ops = <<>> \/ Head(inputs') = Head(ops)
  <1>1. interrupt \in [Users -> Interruption \cup {None}]
    BY DEF IInv, TypeOK
  <1>2. ASSUME NEW u \in Users
        PROVE  /\ interrupt'[u] \in Interruption \cup {None}
               /\ interrupt'[u] # None <=> interrupt[u] # None /\ u \notin Settling
    <2>1. CASE interrupt[u] = None \/ u \in Settling
      BY <1>1, <2>1 DEF Settles
    <2>2. CASE interrupt[u] # None /\ u \notin Settling
      <3>1. interrupt[u] \in Interruption
        BY <1>1, <2>2
      <3>2. [interrupt[u] EXCEPT !.startup = "settled"] \in Interruption
        BY <3>1 DEF Interruption
      <3>3. interrupt'[u] \in Interruption
        BY <2>2, <3>1, <3>2 DEF Settles
      <3>4. QED
        BY <2>2, <3>3, NoneAssumption
    <2>3. QED
      BY <2>1, <2>2
  <1>3. interrupt' \in [Users -> Interruption \cup {None}]
    BY <1>2 DEF Settles
  <1>4. Running' = Running \ Settling
    BY <1>2 DEF Running
  <1>5. QED
    BY <1>3, <1>4, ScheduledLemma DEF Settles, InputSet, DrainIsDue

(* Whoever waits for an interrupted startup is in the way of nothing: it   *)
(* ends with the startup and schedules a drain, or it is still closing the *)
(* connection.                                                             *)
LEMMA InterruptedLemma ==
  ASSUME IInv, startup # None, startup.interrupted, lost = {}
  PROVE  Running # {}
  BY DEF IInv, WaitInv

(* How the row reads after interruptions have ended.                       *)
LEMMA EndLemma ==
  ASSUME IInv, NEW us \in SUBSET Running, NEW next, End(us, status, requested, next)
  PROVE  /\ status' \in {"idle", status} /\ requested' \in BOOLEAN
         /\ us # {} /\ status = "interrupting" => status' = "idle"
  <1>1. requested \in BOOLEAN
    BY DEF IInv, TypeOK
  <1>2. ASSUME NEW u \in us, status = "interrupting"
        PROVE  Completes(interrupt[u], status, requested, next)
    BY <1>2 DEF Completes
  <1>3. QED
    BY <1>1, <1>2 DEF End

-----------------------------------------------------------------------------
LEMMA InitInv == Init => IInv
  <1> SUFFICES ASSUME Init PROVE IInv
    OBVIOUS
  <1>1. TypeOK
    <2>1. queued \in Seq(Messages) /\ Len(queued) <= QueueCapacity /\ inputs \in Seq(Operations)
      BY BoundsAssumption DEF Init
    <2>2. interrupt \in [Users -> Interruption \cup {None}]
      BY DEF Init
    <2>3. \A i, j \in DOMAIN inputs : inputs[i] = Drain /\ inputs[j] = Drain => i = j
      BY DEF Init
    <2>4. answer \in [Messages -> {"none", "waiting", "accepted", "refused", "removed"}]
          /\ given \in [Messages -> Nat]
      BY DEF Init
    <2>5. interrupts \in 0 .. MaxInterrupts /\ faults \in 0 .. MaxFaults
      BY BoundsAssumption DEF Init
    <2>6. QED
      BY <2>1, <2>2, <2>3, <2>4, <2>5 DEF Init, TypeOK, Statuses
  <1>2. QueuedSet = {} /\ InputSet = {} /\ Distinct(inputs)
    BY DEF Init, QueuedSet, InputSet, ToSet, Distinct
  <1>3. QED
    BY <1>1, <1>2 DEF Init, IInv, InputsInv, StartupInv, MessageInv, StatusInv, WaitInv, QueueInv

(* The clients' calls and the work of the operation queue.                 *)
LEMMA CallStep ==
  ASSUME IInv, Call
  PROVE  IInv'
  <1>1. TypeOK /\ InputsInv /\ StartupInv /\ MessageInv /\ StatusInv /\ WaitInv /\ QueueInv
    BY DEF IInv
  <1>2. /\ UNCHANGED <<status, requested, queued, transcript, session, startup, stream, interrupt,
                       given, excused, lost, interrupts, faults>>
        /\ UNCHANGED <<QueuedSet, Batch, Running>>
    BY DEF Call, row, QueuedSet, Batch, Running
  <1>3. /\ answer' \in [Messages -> {"none", "waiting", "accepted", "refused", "removed"}]
        /\ inputs' \in Seq(Operations) /\ Distinct(inputs') /\ inputs' # <<>>
        /\ InputSet \subseteq InputSet'
        /\ inputs # <<>> => Head(inputs') = Head(inputs)
        /\ \A m \in Messages : Send(m) \in InputSet' => answer'[m] = "waiting"
        /\ \A m \in Messages :
             answer'[m] = answer[m] \/ (answer[m] = "none" /\ answer'[m] = "waiting")
    <2>1. inputs \in Seq(Operations) /\ Distinct(inputs)
      BY <1>1 DEF TypeOK, InputsInv
    <2>2. CASE \E m \in Messages :
                 /\ answer[m] = "none" /\ answer' = [answer EXCEPT ![m] = "waiting"]
                 /\ inputs' = Append(inputs, Send(m))
      <3>1. PICK m \in Messages :
              /\ answer[m] = "none" /\ answer' = [answer EXCEPT ![m] = "waiting"]
              /\ inputs' = Append(inputs, Send(m))
        BY <2>2
      <3>2. Send(m) \in Operations /\ Send(m) \notin InputSet
        BY <1>1, <3>1, OperationsLemma DEF InputsInv
      <3>3. /\ inputs' \in Seq(Operations) /\ Distinct(inputs') /\ inputs' # <<>>
            /\ InputSet' = InputSet \cup {Send(m)}
            /\ inputs # <<>> => Head(inputs') = Head(inputs)
        BY <2>1, <3>1, <3>2, AppendLemma DEF InputSet
      <3>4. \A n \in Messages : answer'[n] = IF n = m THEN "waiting" ELSE answer[n]
        BY <1>1, <3>1 DEF TypeOK
      <3>5. \A n \in Messages : Send(n) \in InputSet' => answer'[n] = "waiting"
        BY <1>1, <3>3, <3>4, OperationsLemma DEF InputsInv
      <3>6. answer' \in [Messages -> {"none", "waiting", "accepted", "refused", "removed"}]
        BY <1>1, <3>1 DEF TypeOK
      <3>7. QED
        BY <3>1, <3>3, <3>4, <3>5, <3>6
    <2>3. CASE \E m \in Messages :
                 /\ ~Contains(inputs, Removal(m)) /\ inputs' = Append(inputs, Removal(m))
                 /\ UNCHANGED answer
      <3>1. PICK m \in Messages :
              /\ ~Contains(inputs, Removal(m)) /\ inputs' = Append(inputs, Removal(m))
              /\ UNCHANGED answer
        BY <2>3
      <3>2. Removal(m) \in Operations /\ Removal(m) \notin InputSet
        BY <2>1, <3>1, OperationsLemma, ContainsLemma DEF InputSet
      <3>3. /\ inputs' \in Seq(Operations) /\ Distinct(inputs') /\ inputs' # <<>>
            /\ InputSet' = InputSet \cup {Removal(m)}
            /\ inputs # <<>> => Head(inputs') = Head(inputs)
        BY <2>1, <3>1, <3>2, AppendLemma DEF InputSet
      <3>4. \A n \in Messages : Send(n) \in InputSet' => answer'[n] = "waiting"
        BY <1>1, <3>1, <3>3, OperationsLemma DEF InputsInv
      <3>5. answer' \in [Messages -> {"none", "waiting", "accepted", "refused", "removed"}]
        BY <1>1, <3>1 DEF TypeOK
      <3>6. QED
        BY <3>1, <3>3, <3>4, <3>5
    <2>4. QED
      BY <2>2, <2>3 DEF Call
  <1>4. TypeOK'
    BY <1>1, <1>2, <1>3 DEF TypeOK, Distinct
  <1>5. InputsInv'
    BY <1>3 DEF InputsInv
  <1>6. StartupInv'
    <2>1. startup # None => Batch \subseteq Messages
      BY BatchLemma
    <2>2. QED
      BY <1>1, <1>2, <1>3, <2>1 DEF StartupInv
  <1>7. MessageInv'
    <2>1. ASSUME NEW m \in Messages, startup # None, Head(inputs) = Send(m)
          PROVE  Head(inputs') = Send(m)
      BY <1>1, <1>3, <2>1 DEF StartupInv
    <2>2. QED
      BY <1>1, <1>2, <1>3, <2>1 DEF MessageInv
  <1>8. StatusInv' /\ WaitInv'
    BY <1>1, <1>2 DEF StatusInv, WaitInv
  <1>9. QueueInv'
    BY <1>1, <1>2, <1>3 DEF QueueInv, DrainIsDue
  <1>10. QED
    BY <1>4, <1>5, <1>6, <1>7, <1>8, <1>9 DEF IInv

(* What the work of the operation queue may rely on and leaves behind when *)
(* it takes the head without a dispatch.                                   *)
LEMMA TakenLemma ==
  ASSUME IInv, startup = None, inputs # <<>>, inputs' = Tail(inputs)
  PROVE  /\ Head(inputs) \in Operations /\ Head(inputs) \in InputSet
         /\ inputs' \in Seq(Operations) /\ Distinct(inputs')
         /\ InputSet' = InputSet \ {Head(inputs)}
  <1>1. inputs \in Seq(Operations) /\ Distinct(inputs)
    BY DEF IInv, TypeOK, InputsInv
  <1>2. QED
    BY <1>1, TailLemma DEF InputSet

LEMMA EnqueueStep ==
  ASSUME IInv, Enqueue
  PROVE  IInv'
  <1>1. TypeOK /\ InputsInv /\ StartupInv /\ MessageInv /\ StatusInv /\ WaitInv /\ QueueInv
    BY DEF IInv
  <1>2. /\ UNCHANGED <<status, requested, transcript, session, startup, stream, interrupt, given,
                       excused, lost, interrupts, faults>>
        /\ UNCHANGED Running /\ startup = None /\ ShouldQueue
    BY DEF Enqueue, HeadIs, Running
  <1>3. /\ Head(inputs) \in Operations /\ Head(inputs) \in InputSet
        /\ inputs' \in Seq(Operations) /\ Distinct(inputs')
        /\ InputSet' = InputSet \ {Head(inputs)}
    BY TakenLemma DEF Enqueue, HeadIs
  <1>4. PICK m \in Messages : Head(inputs) = Send(m) /\ Head(inputs).message = m
    BY <1>3, OperationsLemma DEF Enqueue, HeadIs
  <1>5. ~Drained /\ answer[m] = "waiting" /\ m \notin transcript
    BY <1>1, <1>2, <1>3, <1>4, OperationsLemma DEF Drained, InputsInv, MessageInv
  <1>6. /\ queued' \in Seq(Messages) /\ Len(queued') <= QueueCapacity
        /\ \/ /\ QueuedSet' = QueuedSet \cup {m}
              /\ answer' = [answer EXCEPT ![m] = "accepted"]
           \/ UNCHANGED queued /\ QueuedSet' = QueuedSet
              /\ answer' = [answer EXCEPT ![m] = "refused"]
    <2>1. CASE Len(queued) < QueueCapacity
      <3>1. queued' = Append(queued, m) /\ answer' = [answer EXCEPT ![m] = "accepted"]
        BY <1>4, <1>5, <2>1 DEF Enqueue, Enqueued, Told
      <3>2. queued' \in Seq(Messages) /\ QueuedSet' = QueuedSet \cup {m}
        BY <1>1, <3>1, AppendLemma DEF TypeOK, QueuedSet
      <3>3. Len(queued') <= QueueCapacity
        BY <1>1, <2>1, <3>1, BoundsAssumption DEF TypeOK
      <3>4. QED
        BY <3>1, <3>2, <3>3
    <2>2. CASE ~(Len(queued) < QueueCapacity)
      BY <1>1, <1>4, <1>5, <2>2 DEF Enqueue, Enqueued, Told, TypeOK, QueuedSet
    <2>3. QED
      BY <2>1, <2>2
  <1>7. TypeOK'
    BY <1>1, <1>2, <1>3, <1>6 DEF TypeOK, Distinct
  <1>8. InputsInv'
    BY <1>1, <1>3, <1>4, <1>6, OperationsLemma DEF InputsInv, TypeOK
  <1>9. StartupInv' /\ WaitInv'
    BY <1>2 DEF StartupInv, WaitInv
  <1>10. MessageInv'
    BY <1>1, <1>2, <1>5, <1>6 DEF MessageInv, TypeOK
  <1>11. StatusInv'
    BY <1>1, <1>2 DEF StatusInv
  <1>12. QueueInv'
    BY <1>1, <1>2 DEF QueueInv, StatusInv, ShouldQueue, Busy
  <1>13. QED
    BY <1>7, <1>8, <1>9, <1>10, <1>11, <1>12 DEF IInv

LEMMA RemoveQueuedStep ==
  ASSUME IInv, RemoveQueued
  PROVE  IInv'
  <1>1. TypeOK /\ InputsInv /\ StartupInv /\ MessageInv /\ StatusInv /\ WaitInv /\ QueueInv
    BY DEF IInv
  <1>2. /\ UNCHANGED <<status, requested, transcript, session, startup, stream, interrupt, given,
                       excused, lost, interrupts, faults>>
        /\ UNCHANGED Running /\ startup = None
    BY DEF RemoveQueued, HeadIs, Running
  <1>3. /\ Head(inputs) \in Operations /\ Head(inputs) \in InputSet
        /\ inputs' \in Seq(Operations) /\ Distinct(inputs')
        /\ InputSet' = InputSet \ {Head(inputs)}
    BY TakenLemma DEF RemoveQueued, HeadIs
  <1>4. PICK m \in Messages : Head(inputs) = Removal(m) /\ Head(inputs).message = m
    BY <1>3, OperationsLemma DEF RemoveQueued, HeadIs
  <1>5. /\ queued' \in Seq(Messages) /\ Len(queued') <= QueueCapacity
        /\ QueuedSet' = QueuedSet \ {m} /\ (queued' # <<>> => queued # <<>>)
    <2>1. queued' = Kept({m}) /\ queued \in Seq(Messages)
      BY <1>1, <1>4 DEF RemoveQueued, TypeOK
    <2>2. queued' \in Seq(Messages) /\ Len(queued') <= Len(queued) /\ QueuedSet' = QueuedSet \ {m}
      BY <2>1, KeptLemma DEF QueuedSet
    <2>3. queued = <<>> => queued' = <<>>
      BY <2>2
    <2>4. QED
      BY <1>1, <2>2, <2>3, BoundsAssumption DEF TypeOK
  <1>6. answer' = IF m \in QueuedSet THEN [answer EXCEPT ![m] = "removed"] ELSE answer
    BY <1>1, <1>4, ContainsLemma DEF RemoveQueued, TypeOK, QueuedSet
  <1>7. TypeOK'
    BY <1>1, <1>2, <1>3, <1>5, <1>6 DEF TypeOK, Distinct
  <1>8. InputsInv'
    BY <1>1, <1>3, <1>6 DEF InputsInv, MessageInv, TypeOK
  <1>9. StartupInv' /\ WaitInv'
    BY <1>2 DEF StartupInv, WaitInv
  <1>10. MessageInv'
    BY <1>1, <1>2, <1>5, <1>6 DEF MessageInv, TypeOK
  <1>11. StatusInv'
    BY <1>1, <1>2 DEF StatusInv
  <1>12. QueueInv'
    BY <1>1, <1>2, <1>3, <1>4, <1>5, OperationsLemma DEF QueueInv, DrainIsDue
  <1>13. QED
    BY <1>7, <1>8, <1>9, <1>10, <1>11, <1>12 DEF IInv

LEMMA DrainNothingStep ==
  ASSUME IInv, DrainNothing
  PROVE  IInv'
  <1>1. TypeOK /\ InputsInv /\ StartupInv /\ MessageInv /\ StatusInv /\ WaitInv /\ QueueInv
    BY DEF IInv
  <1>2. /\ UNCHANGED <<status, requested, queued, transcript, session, startup, stream, interrupt,
                       answer, given, excused, lost, interrupts, faults>>
        /\ UNCHANGED <<Running, QueuedSet>> /\ startup = None /\ (ShouldQueue \/ queued = <<>>)
    BY DEF DrainNothing, HeadIs, Running, QueuedSet, row, ghosts
  <1>3. /\ inputs' \in Seq(Operations) /\ Distinct(inputs')
        /\ InputSet' = InputSet \ {Head(inputs)}
    BY TakenLemma DEF DrainNothing, HeadIs
  <1>4. TypeOK'
    BY <1>1, <1>2, <1>3 DEF TypeOK, Distinct
  <1>5. InputsInv'
    BY <1>1, <1>2, <1>3 DEF InputsInv
  <1>6. StartupInv' /\ WaitInv'
    BY <1>2 DEF StartupInv, WaitInv
  <1>7. MessageInv'
    BY <1>1, <1>2 DEF MessageInv
  <1>8. StatusInv'
    BY <1>1, <1>2 DEF StatusInv
  <1>9. QueueInv'
    BY <1>1, <1>2 DEF QueueInv, StatusInv, ShouldQueue, Busy
  <1>10. QED
    BY <1>4, <1>5, <1>6, <1>7, <1>8, <1>9 DEF IInv

-----------------------------------------------------------------------------
(* A dispatch: what every beginning has in common, and every end.          *)
LEMMA BeginsLemma ==
  ASSUME IInv, NEW batch \in Seq(Messages), Begins(batch), startup = None, inputs # <<>>,
         ~ShouldQueue, transcript' \subseteq Messages,
         UNCHANGED <<queued, session, inputs, stream, interrupt, ghosts, interrupts, faults>>
  PROVE  /\ startup' # None /\ startup'.phase = "preparing" /\ Batch' = ToSet(batch)
         /\ UNCHANGED <<QueuedSet, InputSet>>
         /\ TypeOK' /\ InputsInv' /\ StatusInv' /\ WaitInv' /\ QueueInv'
  <1>1. TypeOK /\ InputsInv
    BY DEF IInv
  <1>2. /\ startup' \in Startup /\ startup' # None /\ Batch' = ToSet(batch)
        /\ startup'.phase = "preparing" /\ ~startup'.interrupted
        /\ status' = "starting" /\ requested' = FALSE
    <2>1. startup' \in Startup /\ startup'.batch = batch
      BY DEF Begins, Startup
    <2>2. QED
      BY <2>1, NoneAssumption DEF Begins, Batch
  <1>3. /\ UNCHANGED <<queued, session, inputs, stream, interrupt, answer, given, excused, lost,
                       interrupts, faults>>
        /\ UNCHANGED <<QueuedSet, InputSet>> /\ ~stream
    BY <1>1 DEF ghosts, QueuedSet, InputSet, ShouldQueue, TypeOK
  <1>4. TypeOK'
    BY <1>1, <1>2, <1>3 DEF TypeOK, Statuses, Busy
  <1>5. InputsInv'
    BY <1>1, <1>3 DEF InputsInv
  <1>6. StatusInv' /\ WaitInv' /\ QueueInv'
    BY <1>2, <1>3 DEF StatusInv, WaitInv, QueueInv
  <1>7. QED
    BY <1>2, <1>3, <1>4, <1>5, <1>6

LEMMA SendDirectlyStep ==
  ASSUME IInv, SendDirectly
  PROVE  IInv'
  <1>1. TypeOK /\ InputsInv /\ MessageInv
    BY DEF IInv
  <1>2. startup = None /\ inputs # <<>> /\ inputs \in Seq(Operations) /\ Distinct(inputs)
    BY <1>1 DEF SendDirectly, HeadIs, TypeOK, InputsInv
  <1>3. PICK m \in Messages :
          Head(inputs) = Send(m) /\ Head(inputs).message = m /\ Send(m) \in InputSet
    BY <1>2, TailLemma, OperationsLemma DEF SendDirectly, HeadIs, InputSet
  <1>4. answer[m] = "waiting" /\ m \notin transcript /\ given[m] = 0 /\ m \notin QueuedSet
    BY <1>1, <1>2, <1>3 DEF InputsInv, MessageInv, TypeOK
  <1>5. /\ Begins(<<m>>) /\ transcript' = transcript \cup {m} /\ ~ShouldQueue
        /\ UNCHANGED <<queued, session, inputs, stream, interrupt, ghosts, interrupts, faults>>
        /\ UNCHANGED <<answer, given, excused>>
    BY <1>3 DEF SendDirectly, ghosts
  <1>6. /\ startup' # None /\ startup'.phase = "preparing" /\ Batch' = ToSet(<<m>>)
        /\ UNCHANGED <<QueuedSet, InputSet>>
        /\ TypeOK' /\ InputsInv' /\ StatusInv' /\ WaitInv' /\ QueueInv'
    <2>1. <<m>> \in Seq(Messages) /\ transcript' \subseteq Messages
      BY <1>1, <1>5 DEF TypeOK
    <2>2. QED
      BY <1>2, <1>5, <2>1, BeginsLemma
  <1>7. Batch' = {m}
    BY <1>6 DEF ToSet
  <1>8. StartupInv'
    BY <1>2, <1>3, <1>4, <1>5, <1>6, <1>7 DEF StartupInv
  <1>9. MessageInv'
    BY <1>1, <1>2, <1>3, <1>4, <1>5, <1>6 DEF MessageInv
  <1>10. QED
    BY <1>6, <1>8, <1>9 DEF IInv

LEMMA SendQueuedStep ==
  ASSUME IInv, SendQueued
  PROVE  IInv'
  <1>1. TypeOK /\ InputsInv /\ MessageInv
    BY DEF IInv
  <1>2. startup = None /\ inputs # <<>> /\ inputs \in Seq(Operations) /\ Distinct(inputs)
    BY <1>1 DEF SendQueued, HeadIs, TypeOK, InputsInv
  <1>3. Head(inputs) = Drain
    BY <1>2, TailLemma, OperationsLemma DEF SendQueued, HeadIs
  <1>4. PICK n \in 1 .. Len(queued) : Begins(SubSeq(queued, 1, n))
    BY DEF SendQueued
  <1>5. SubSeq(queued, 1, n) \in Seq(Messages) /\ ToSet(SubSeq(queued, 1, n)) \subseteq QueuedSet
    <2>1. queued \in Seq(Messages) /\ n \in 1 .. Len(queued)
      BY <1>1 DEF TypeOK
    <2>2. /\ SubSeq(queued, 1, n) \in Seq(Messages) /\ DOMAIN SubSeq(queued, 1, n) = 1 .. n
          /\ \A i \in 1 .. n : SubSeq(queued, 1, n)[i] = queued[i]
          /\ 1 .. n \subseteq DOMAIN queued
      BY <2>1
    <2>3. QED
      BY <2>2 DEF ToSet, QueuedSet
  <1>6. /\ transcript' = transcript /\ ~ShouldQueue
        /\ UNCHANGED <<queued, session, inputs, stream, interrupt, ghosts, interrupts, faults>>
        /\ UNCHANGED <<answer, given, excused>>
    BY DEF SendQueued, ghosts
  <1>7. /\ startup' # None /\ startup'.phase = "preparing"
        /\ Batch' = ToSet(SubSeq(queued, 1, n)) /\ UNCHANGED <<QueuedSet, InputSet>>
        /\ TypeOK' /\ InputsInv' /\ StatusInv' /\ WaitInv' /\ QueueInv'
    BY <1>1, <1>2, <1>4, <1>5, <1>6, BeginsLemma DEF TypeOK
  <1>8. \A m \in QueuedSet :
          m \in Messages /\ answer[m] = "accepted" /\ m \notin transcript /\ given[m] = 0
    BY <1>1 DEF MessageInv, QueuedSet, ToSet, TypeOK
  <1>9. StartupInv'
    BY <1>2, <1>3, <1>5, <1>6, <1>7, <1>8 DEF StartupInv
  <1>10. MessageInv'
    BY <1>1, <1>2, <1>6, <1>7 DEF MessageInv
  <1>11. QED
    BY <1>7, <1>9, <1>10 DEF IInv

LEMMA SessionCreatedStep ==
  ASSUME IInv, SessionCreated
  PROVE  IInv'
  <1>1. TypeOK /\ InputsInv /\ StartupInv /\ MessageInv /\ StatusInv /\ WaitInv /\ QueueInv
    BY DEF IInv
  <1>2. /\ session' = TRUE
        /\ UNCHANGED <<status, requested, queued, transcript, inputs, startup, stream, interrupt,
                       answer, given, excused, lost, interrupts, faults>>
        /\ UNCHANGED <<Running, QueuedSet, Batch, Drained>>
    BY DEF SessionCreated, ghosts, Running, QueuedSet, Batch, Drained
  <1>3. TypeOK'
    BY <1>1, <1>2 DEF TypeOK
  <1>4. InputsInv' /\ StartupInv' /\ MessageInv'
    BY <1>1, <1>2 DEF InputsInv, InputSet, Distinct, StartupInv, MessageInv
  <1>5. StatusInv' /\ WaitInv' /\ QueueInv'
    BY <1>1, <1>2 DEF StatusInv, WaitInv, QueueInv, DrainIsDue, InputSet
  <1>6. QED
    BY <1>3, <1>4, <1>5 DEF IInv

LEMMA PromptStep ==
  ASSUME IInv, Prompt
  PROVE  IInv'
  <1>1. TypeOK /\ InputsInv /\ StartupInv /\ MessageInv /\ StatusInv /\ WaitInv /\ QueueInv
    BY DEF IInv
  <1>2. /\ startup # None /\ startup.phase = "preparing" /\ ~startup.interrupted
        /\ status' = "streaming" /\ requested' = FALSE /\ session' = session /\ stream' = TRUE
        /\ transcript' = transcript \cup Batch
        /\ UNCHANGED <<inputs, interrupt, answer, given, excused, lost, interrupts, faults>>
        /\ UNCHANGED InputSet
    BY DEF Prompt, Prepares, ghosts, InputSet
  <1>3. startup \in Startup
    BY <1>2, BatchLemma
  <1>4. /\ startup' \in Startup /\ startup' # None /\ Batch' = Batch
        /\ startup'.phase = "sending" /\ ~startup'.interrupted
    <2>1. startup' = [startup EXCEPT !.phase = "sending"]
      BY DEF Prompt
    <2>2. /\ startup' \in Startup /\ startup'.batch = startup.batch
          /\ startup'.phase = "sending" /\ ~startup'.interrupted
      BY <1>2, <1>3, <2>1 DEF Startup
    <2>3. QED
      BY <2>2, NoneAssumption DEF Batch
  <1>5. /\ queued' \in Seq(Messages) /\ Len(queued') <= QueueCapacity
        /\ QueuedSet' = QueuedSet \ Batch
    <2>1. CASE Drained
      <3>1. queued' = Kept(Batch) /\ queued \in Seq(Messages)
        BY <1>1, <2>1 DEF Prompt, Cleared, TypeOK
      <3>2. queued' \in Seq(Messages) /\ Len(queued') <= Len(queued)
            /\ QueuedSet' = QueuedSet \ Batch
        BY <3>1, KeptLemma DEF QueuedSet
      <3>3. QED
        BY <1>1, <3>2, BoundsAssumption DEF TypeOK
    <2>2. CASE ~Drained
      <3>1. queued' = queued /\ QueuedSet' = QueuedSet
        BY <2>2 DEF Prompt, Cleared, QueuedSet
      <3>2. \A m \in Batch : m \notin QueuedSet
        BY <1>1, <1>2, <2>2, BatchLemma DEF MessageInv
      <3>3. QED
        BY <1>1, <3>1, <3>2 DEF TypeOK
    <2>3. QED
      BY <2>1, <2>2
  <1>6. TypeOK'
    BY <1>1, <1>2, <1>4, <1>5, BatchLemma DEF TypeOK, Statuses, Busy
  <1>7. InputsInv'
    BY <1>1, <1>2 DEF InputsInv
  <1>8. StartupInv'
    BY <1>1, <1>2, <1>4, BatchLemma DEF StartupInv
  <1>9. MessageInv'
    <2>1. ASSUME NEW m \in Messages, answer[m] # "accepted", m \in Batch
          PROVE  answer[m] = "waiting" /\ Head(inputs) = Send(m) /\ m \in transcript
      BY <1>2, <2>1, BatchLemma
    <2>2. QED
      BY <1>1, <1>2, <1>4, <1>5, <2>1 DEF MessageInv
  <1>10. StatusInv' /\ WaitInv' /\ QueueInv'
    BY <1>2, <1>4 DEF StatusInv, WaitInv, QueueInv
  <1>11. QED
    BY <1>6, <1>7, <1>8, <1>9, <1>10 DEF IInv

(* The head of the operation queue ends and is taken off it: only the      *)
(* sender of its message is told anything, and a drain may be scheduled.   *)
LEMMA EndsLemma ==
  ASSUME IInv, startup # None, NEW ops \in {Tail(inputs), Tail(Scheduled(inputs))},
         NEW result \in {"accepted", "refused"}, Told(result), Settles(ops)
  PROVE  /\ startup' = None
         /\ interrupt' \in [Users -> Interruption \cup {None}]
         /\ Running' = Running \ Settling /\ (Settling # {} => DrainIsDue')
         /\ inputs' \in Seq(Operations)
         /\ answer' \in [Messages -> {"none", "waiting", "accepted", "refused", "removed"}]
         /\ \A m \in Messages : answer'[m] = "waiting" => m \notin transcript
         /\ InputsInv' /\ StartupInv' /\ WaitInv'
  <1>1. TypeOK /\ InputsInv /\ MessageInv
    BY DEF IInv
  <1>2. inputs \in Seq(Operations) /\ Distinct(inputs) /\ inputs # <<>>
    BY <1>1, BatchLemma DEF TypeOK, InputsInv
  <1>3. /\ ops \in Seq(Operations) /\ Distinct(ops)
        /\ ToSet(ops) \subseteq (InputSet \cup {Drain}) \ {Head(inputs)}
    <2>1. CASE ops = Tail(inputs)
      BY <1>2, <2>1, TailLemma DEF InputSet
    <2>2. CASE ops = Tail(Scheduled(inputs))
      BY <1>2, <2>2, TailLemma, ScheduledLemma DEF InputSet
    <2>3. QED
      BY <2>1, <2>2
  <1>4. /\ startup' = None
        /\ interrupt' \in [Users -> Interruption \cup {None}]
        /\ inputs' \in Seq(Operations) /\ Distinct(inputs')
        /\ InputSet' \subseteq ToSet(ops) \cup {Drain}
        /\ Running' = Running \ Settling /\ (Settling # {} => DrainIsDue')
    BY <1>3, SettlesLemma
  <1>5. answer' \in [Messages -> {"none", "waiting", "accepted", "refused", "removed"}]
    BY <1>1, BatchLemma DEF Told, TypeOK
  <1>6. \A m \in Messages :
          answer'[m] = IF m \in Batch /\ ~Drained THEN result ELSE answer[m]
    BY ToldLemma
  <1>7. ASSUME NEW m \in Messages, Send(m) \in InputSet'
        PROVE  answer'[m] = "waiting"
    <2>1. Send(m) \in InputSet /\ Head(inputs) # Send(m)
      BY <1>3, <1>4, <1>7, OperationsLemma
    <2>2. answer[m] = "waiting"
      BY <1>1, <2>1 DEF InputsInv
    <2>3. ~(m \in Batch /\ ~Drained)
      BY <2>1, BatchLemma
    <2>4. QED
      BY <1>6, <2>2, <2>3
  <1>8. ASSUME NEW m \in Messages, answer'[m] = "waiting"
        PROVE  m \notin transcript
    <2>1. answer[m] = "waiting" /\ ~(m \in Batch /\ ~Drained)
      BY <1>6, <1>8
    <2>2. Head(inputs) # Send(m)
      <3>1. Head(inputs) = Send(m) => ~Drained
        BY OperationsLemma DEF Drained
      <3>2. QED
        BY <2>1, <3>1, BatchLemma, OperationsLemma
    <2>3. QED
      BY <1>1, <2>1, <2>2 DEF MessageInv
  <1>9. InputsInv' /\ StartupInv' /\ WaitInv'
    BY <1>4, <1>7 DEF InputsInv, StartupInv, WaitInv
  <1>10. QED
    BY <1>4, <1>5, <1>8, <1>9

LEMMA StartedStep ==
  ASSUME IInv, Started
  PROVE  IInv'
  <1>1. TypeOK /\ InputsInv /\ StartupInv /\ MessageInv /\ StatusInv
    BY DEF IInv
  <1>2. /\ startup # None /\ startup.phase = "sending" /\ stream /\ status = "streaming"
        /\ UNCHANGED <<status, requested, queued, transcript, session, stream, excused, lost,
                       interrupts, faults, QueuedSet>>
        /\ Told("accepted") /\ Settles(Tail(inputs))
    BY DEF Started, row, QueuedSet
  <1>3. /\ startup' = None
        /\ interrupt' \in [Users -> Interruption \cup {None}]
        /\ inputs' \in Seq(Operations)
        /\ answer' \in [Messages -> {"none", "waiting", "accepted", "refused", "removed"}]
        /\ \A m \in Messages : answer'[m] = "waiting" => m \notin transcript
        /\ InputsInv' /\ StartupInv' /\ WaitInv'
    BY <1>2, EndsLemma
  <1>4. /\ given' \in [Messages -> Nat]
        /\ \A m \in Messages : given'[m] = IF m \in Batch THEN 1 ELSE given[m]
    BY <1>1, <1>2, BatchLemma DEF Started, TypeOK
  <1>5. TypeOK'
    BY <1>1, <1>2, <1>3, <1>4 DEF TypeOK, InputsInv, Distinct
  <1>6. MessageInv'
    <2>1. Batch \subseteq transcript
      BY <1>1, <1>2 DEF StartupInv
    <2>2. \A m \in Messages :
            answer'[m] = IF m \in Batch /\ ~Drained THEN "accepted" ELSE answer[m]
      BY <1>2, ToldLemma
    <2>3. QED
      BY <1>1, <1>2, <1>3, <1>4, <2>1, <2>2 DEF MessageInv
  <1>7. StatusInv' /\ QueueInv'
    BY <1>1, <1>2, <1>3 DEF StatusInv, QueueInv
  <1>8. QED
    BY <1>3, <1>5, <1>6, <1>7 DEF IInv

LEMMA StartedClosedStep ==
  ASSUME IInv, StartedClosed
  PROVE  IInv'
  <1>1. TypeOK /\ InputsInv /\ StartupInv /\ MessageInv /\ StatusInv /\ WaitInv
    BY DEF IInv
  <1>2. /\ startup # None /\ startup.phase = "sending" /\ ~stream
        /\ UNCHANGED <<queued, transcript, session, stream, lost, interrupts, faults, QueuedSet>>
        /\ Told("accepted") /\ End(Settling, status, requested, None) /\ Settles(Tail(inputs))
        /\ excused' = excused \cup Batch
    BY DEF StartedClosed, QueuedSet
  <1>3. /\ startup' = None
        /\ interrupt' \in [Users -> Interruption \cup {None}]
        /\ inputs' \in Seq(Operations)
        /\ Running' = Running \ Settling /\ (Settling # {} => DrainIsDue')
        /\ answer' \in [Messages -> {"none", "waiting", "accepted", "refused", "removed"}]
        /\ \A m \in Messages : answer'[m] = "waiting" => m \notin transcript
        /\ InputsInv' /\ StartupInv' /\ WaitInv'
    BY <1>2, EndsLemma
  <1>4. /\ given' \in [Messages -> Nat]
        /\ \A m \in Messages :
             given'[m] = given[m] \/ (m \in Batch /\ given[m] = 0 /\ given'[m] = 1)
    <2>1. PICK sent \in BOOLEAN :
            given' = [m \in Messages |-> given[m] + (IF sent /\ m \in Batch THEN 1 ELSE 0)]
      BY DEF StartedClosed
    <2>2. QED
      BY <1>1, <1>2, <2>1, BatchLemma DEF TypeOK
  <1>5. /\ status' \in {"idle", status} /\ requested' \in BOOLEAN
        /\ Settling # {} /\ status = "interrupting" => status' = "idle"
    <2>1. Settling \subseteq Running
      BY DEF Settling
    <2>2. QED
      BY <1>2, <2>1, EndLemma
  <1>6. TypeOK'
    BY <1>1, <1>2, <1>3, <1>4, <1>5, BatchLemma DEF TypeOK, InputsInv, Distinct, Statuses
  <1>7. MessageInv'
    <2>1. Batch \subseteq transcript
      BY <1>1, <1>2 DEF StartupInv
    <2>2. \A m \in Messages :
            answer'[m] = IF m \in Batch /\ ~Drained THEN "accepted" ELSE answer[m]
      BY <1>2, ToldLemma
    <2>3. QED
      BY <1>1, <1>2, <1>3, <1>4, <2>1, <2>2 DEF MessageInv
  <1>8. StatusInv'
    BY <1>1, <1>2, <1>3, <1>5 DEF StatusInv
  <1>9. QueueInv'
    <2>1. lost = {} => Running # {}
      BY <1>1, <1>2, InterruptedLemma DEF WaitInv
    <2>2. QED
      BY <1>2, <1>3, <2>1 DEF QueueInv
  <1>10. QED
    BY <1>3, <1>6, <1>7, <1>8, <1>9 DEF IInv

LEMMA StartInterruptedStep ==
  ASSUME IInv, StartInterrupted
  PROVE  IInv'
  <1>1. TypeOK /\ InputsInv /\ StartupInv /\ MessageInv /\ StatusInv /\ WaitInv
    BY DEF IInv
  <1>2. /\ startup # None /\ startup.interrupted /\ status' = "idle" /\ requested' = FALSE
        /\ UNCHANGED <<queued, transcript, session, stream, given, lost, interrupts, faults,
                       QueuedSet>>
        /\ Told("accepted") /\ Settles(Tail(inputs))
        /\ excused' = excused \cup (Batch \cap transcript)
    BY DEF StartInterrupted, QueuedSet
  <1>3. /\ startup' = None
        /\ interrupt' \in [Users -> Interruption \cup {None}]
        /\ inputs' \in Seq(Operations)
        /\ Running' = Running \ Settling /\ (Settling # {} => DrainIsDue')
        /\ answer' \in [Messages -> {"none", "waiting", "accepted", "refused", "removed"}]
        /\ \A m \in Messages : answer'[m] = "waiting" => m \notin transcript
        /\ InputsInv' /\ StartupInv' /\ WaitInv'
    BY <1>2, EndsLemma
  <1>4. TypeOK'
    BY <1>1, <1>2, <1>3, BatchLemma DEF TypeOK, InputsInv, Distinct, Statuses
  <1>5. MessageInv'
    <2>1. \A m \in Messages :
            answer'[m] = IF m \in Batch /\ ~Drained THEN "accepted" ELSE answer[m]
      BY <1>2, ToldLemma
    <2>2. ASSUME NEW m \in Batch
          PROVE  m \in QueuedSet \/ m \in transcript
      <3>1. startup.phase \in {"preparing", "sending"}
        BY <1>2, BatchLemma DEF Startup
      <3>2. QED
        BY <1>1, <1>2, <3>1 DEF StartupInv
    <2>3. QED
      BY <1>1, <1>2, <1>3, <2>1, <2>2 DEF MessageInv
  <1>6. StatusInv'
    BY <1>2, <1>3 DEF StatusInv
  <1>7. QueueInv'
    BY <1>2, <1>3, InterruptedLemma DEF QueueInv
  <1>8. QED
    BY <1>3, <1>4, <1>5, <1>6, <1>7 DEF IInv

LEMMA StartFailsStep ==
  ASSUME IInv, StartFails
  PROVE  IInv'
  <1>1. TypeOK /\ InputsInv /\ StartupInv /\ MessageInv /\ StatusInv /\ WaitInv
    BY DEF IInv
  <1>2. /\ startup # None /\ status' = "failed" /\ requested' = FALSE /\ stream' = FALSE
        /\ UNCHANGED <<queued, transcript, session, given, lost, interrupts, faults, QueuedSet>>
        /\ Told("refused") /\ excused' = excused \cup (Batch \cap transcript)
    BY DEF StartFails, QueuedSet
  <1>3. PICK ops \in {Tail(inputs), Tail(Scheduled(inputs))} : Settles(ops)
    BY DEF StartFails
  <1>4. /\ startup' = None
        /\ interrupt' \in [Users -> Interruption \cup {None}]
        /\ inputs' \in Seq(Operations)
        /\ answer' \in [Messages -> {"none", "waiting", "accepted", "refused", "removed"}]
        /\ \A m \in Messages : answer'[m] = "waiting" => m \notin transcript
        /\ InputsInv' /\ StartupInv' /\ WaitInv'
    BY <1>2, <1>3, EndsLemma
  <1>5. TypeOK'
    BY <1>1, <1>2, <1>4, BatchLemma DEF TypeOK, InputsInv, Distinct, Statuses
  <1>6. MessageInv'
    <2>1. \A m \in Messages :
            answer'[m] = IF m \in Batch /\ ~Drained THEN "refused" ELSE answer[m]
      BY <1>2, ToldLemma
    <2>2. ASSUME NEW m \in Batch
          PROVE  m \in QueuedSet \/ m \in transcript
      <3>1. startup.phase \in {"preparing", "sending"}
        BY <1>2, BatchLemma DEF Startup
      <3>2. QED
        BY <1>1, <1>2, <3>1 DEF StartupInv
    <2>3. ASSUME NEW m \in Batch, ~Drained
          PROVE  m \notin QueuedSet /\ answer[m] = "waiting"
      BY <1>1, <1>2, <2>3, BatchLemma DEF MessageInv
    <2>4. QED
      BY <1>1, <1>2, <1>4, <2>1, <2>2, <2>3 DEF MessageInv
  <1>7. StatusInv' /\ QueueInv'
    BY <1>2, <1>4 DEF StatusInv, QueueInv
  <1>8. QED
    BY <1>4, <1>5, <1>6, <1>7 DEF IInv

LEMMA StartOvertakenStep ==
  ASSUME IInv, StartOvertaken
  PROVE  IInv'
  <1>1. TypeOK /\ InputsInv /\ StartupInv /\ MessageInv /\ StatusInv /\ WaitInv
    BY DEF IInv
  <1>2. /\ startup # None /\ ~startup.interrupted /\ stream' = FALSE
        /\ status # (IF startup.phase = "preparing" THEN "starting" ELSE "streaming")
        /\ UNCHANGED <<status, requested, queued, transcript, session, lost, interrupts, faults,
                       QueuedSet>>
        /\ Told("refused") /\ excused' = excused \cup (Batch \cap transcript)
        /\ Settles(Tail(inputs))
    BY DEF StartOvertaken, QueuedSet
  <1>3. /\ startup' = None
        /\ interrupt' \in [Users -> Interruption \cup {None}]
        /\ inputs' \in Seq(Operations)
        /\ answer' \in [Messages -> {"none", "waiting", "accepted", "refused", "removed"}]
        /\ \A m \in Messages : answer'[m] = "waiting" => m \notin transcript
        /\ InputsInv' /\ StartupInv' /\ WaitInv'
    BY <1>2, EndsLemma
  <1>4. startup.phase \in {"preparing", "sending"} /\ lost # {}
    BY <1>1, <1>2, BatchLemma DEF Startup, WaitInv
  <1>5. /\ given' \in [Messages -> Nat]
        /\ \A m \in Messages :
             \/ given'[m] = given[m]
             \/ m \in Batch /\ startup.phase = "sending" /\ given[m] = 0 /\ given'[m] = 1
    BY <1>1, <1>2, BatchLemma DEF StartOvertaken, TypeOK
  <1>6. TypeOK'
    BY <1>1, <1>2, <1>3, <1>5, BatchLemma DEF TypeOK, InputsInv, Distinct, Statuses
  <1>7. MessageInv'
    <2>1. \A m \in Messages :
            answer'[m] = IF m \in Batch /\ ~Drained THEN "refused" ELSE answer[m]
      BY <1>2, ToldLemma
    <2>2. ASSUME NEW m \in Batch
          PROVE  m \in QueuedSet \/ m \in transcript
      BY <1>1, <1>2, <1>4 DEF StartupInv
    <2>3. startup.phase = "sending" => Batch \subseteq transcript
      BY <1>1, <1>2 DEF StartupInv
    <2>4. ASSUME NEW m \in Batch, ~Drained
          PROVE  m \notin QueuedSet /\ answer[m] = "waiting"
      BY <1>1, <1>2, <2>4, BatchLemma DEF MessageInv
    <2>5. QED
      BY <1>1, <1>2, <1>3, <1>5, <2>1, <2>2, <2>3, <2>4 DEF MessageInv
  <1>8. StatusInv'
    <2>1. status # "interrupting" /\ status # "starting"
      BY <1>1, <1>2, <1>4 DEF StatusInv
    <2>2. status = "streaming" => "unmarked" \in lost
      BY <1>1, <1>2, <1>4 DEF StatusInv
    <2>3. QED
      BY <1>2, <1>3, <2>1, <2>2 DEF StatusInv
  <1>9. QueueInv'
    BY <1>2, <1>4 DEF QueueInv
  <1>10. QED
    BY <1>3, <1>6, <1>7, <1>8, <1>9 DEF IInv

-----------------------------------------------------------------------------
(* The steps that leave the messages where they are: a turn or an          *)
(* interruption may schedule a drain and mark the startup.                 *)
LEMMA StandingLemma ==
  ASSUME IInv, inputs' \in {inputs, Scheduled(inputs)},
         UNCHANGED <<queued, transcript, answer, given, excused>>,
         \/ startup = None /\ startup' = None
         \/ /\ startup # None /\ startup' \in Startup
            /\ startup'.batch = startup.batch /\ startup'.phase = startup.phase
  PROVE  /\ inputs' \in Seq(Operations)
         /\ inputs' = Scheduled(inputs) \/ DrainIsDue => DrainIsDue'
         /\ InputsInv' /\ StartupInv' /\ MessageInv'
  <1>1. InputsInv /\ StartupInv /\ MessageInv /\ inputs \in Seq(Operations) /\ Distinct(inputs)
    BY DEF IInv, TypeOK, InputsInv
  <1>2. /\ inputs' \in Seq(Operations) /\ Distinct(inputs')
        /\ InputSet' \in {InputSet, InputSet \cup {Drain}}
        /\ inputs # <<>> => inputs' # <<>> /\ Head(inputs') = Head(inputs)
        /\ inputs' = Scheduled(inputs) \/ DrainIsDue => DrainIsDue'
    BY <1>1, ScheduledLemma DEF InputSet, DrainIsDue
  <1>3. InputsInv'
    BY <1>1, <1>2, OperationsLemma DEF InputsInv
  <1>4. /\ QueuedSet' = QueuedSet
        /\ startup # None => Batch' = Batch /\ Batch \subseteq Messages
        /\ startup' # None <=> startup # None
    BY BatchLemma, NoneAssumption DEF QueuedSet, Batch
  <1>5. StartupInv'
    BY <1>1, <1>2, <1>4 DEF StartupInv
  <1>6. MessageInv'
    <2>1. startup # None => inputs # <<>>
      BY <1>1 DEF StartupInv
    <2>2. QED
      BY <1>1, <1>2, <1>4, <2>1 DEF MessageInv
  <1>7. QED
    BY <1>2, <1>3, <1>5, <1>6

(* The end of a turn.                                                      *)
LEMMA TurnEndsStep ==
  ASSUME IInv, TurnCompletes \/ TurnFails
  PROVE  IInv'
  <1>1. TypeOK
    BY DEF IInv
  <1>2. /\ status' \in {"idle", "failed"} /\ requested' = FALSE /\ stream' = FALSE
        /\ inputs' = Scheduled(inputs) /\ startup = None /\ startup' = None
        /\ UNCHANGED <<queued, transcript, session, startup, interrupt, answer, given, excused,
                       lost, interrupts, faults>>
    BY DEF TurnCompletes, TurnFails, Consuming, ghosts
  <1>3. inputs' \in Seq(Operations) /\ DrainIsDue' /\ InputsInv' /\ StartupInv' /\ MessageInv'
    BY <1>2, StandingLemma
  <1>4. TypeOK'
    BY <1>1, <1>2, <1>3 DEF TypeOK, InputsInv, Distinct, Statuses
  <1>5. StatusInv' /\ WaitInv' /\ QueueInv'
    BY <1>2, <1>3 DEF StatusInv, WaitInv, QueueInv
  <1>6. QED
    BY <1>3, <1>4, <1>5 DEF IInv

LEMMA TurnEndsUnmarkedStep ==
  ASSUME IInv, TurnEndsUnmarked
  PROVE  IInv'
  <1>1. TypeOK /\ StatusInv
    BY DEF IInv
  <1>2. /\ stream /\ stream' = FALSE /\ faults < MaxFaults /\ faults' = faults + 1
        /\ inputs' = Scheduled(inputs) /\ startup = None /\ startup' = None
        /\ lost' = lost \cup {"unmarked"}
        /\ UNCHANGED <<status, requested, queued, transcript, session, interrupt, answer, given,
                       excused, interrupts, Running>>
    BY DEF TurnEndsUnmarked, Consuming, row, Running
  <1>3. inputs' \in Seq(Operations) /\ DrainIsDue' /\ InputsInv' /\ StartupInv' /\ MessageInv'
    BY <1>2, StandingLemma
  <1>4. TypeOK'
    <2>1. faults' \in 0 .. MaxFaults
      BY <1>1, <1>2, BoundsAssumption DEF TypeOK
    <2>2. QED
      BY <1>1, <1>2, <1>3, <2>1 DEF TypeOK, InputsInv, Distinct, Rare
  <1>5. StatusInv' /\ WaitInv' /\ QueueInv'
    BY <1>1, <1>2, <1>3 DEF StatusInv, WaitInv, QueueInv
  <1>6. QED
    BY <1>3, <1>4, <1>5 DEF IInv

(* Interruptions.                                                          *)
LEMMA InterruptStep ==
  ASSUME IInv, NEW u \in Users, Interrupt(u)
  PROVE  IInv'
  <1>1. TypeOK
    BY DEF IInv
  <1>2. /\ interrupts < MaxInterrupts /\ interrupts' = interrupts + 1
        /\ status' = "interrupting" /\ requested' = TRUE /\ stream' = FALSE
        /\ inputs' \in {inputs, Scheduled(inputs)}
        /\ UNCHANGED <<queued, transcript, session, answer, given, excused, lost, faults>>
    BY DEF Interrupt, ghosts
  <1>3. /\ interrupt' \in [Users -> Interruption \cup {None}]
        /\ u \in Running'
        /\ startup # None => interrupt'[u].startup = "running"
    <2> DEFINE i == [startup |-> IF startup = None THEN "none" ELSE "running",
                     stream |-> stream, phase |-> "closing"]
    <2>1. i \in Interruption /\ (startup # None => i.startup = "running")
      BY <1>1 DEF TypeOK, Interruption
    <2>2. interrupt' = [interrupt EXCEPT ![u] = i] /\ interrupt \in [Users -> Interruption \cup {None}]
      BY <1>1 DEF Interrupt, TypeOK
    <2> HIDE DEF i
    <2>3. QED
      BY <2>1, <2>2, NoneAssumption DEF Running
  <1>4. \/ startup = None /\ startup' = None
        \/ /\ startup # None /\ startup' \in Startup /\ startup' # None
           /\ startup'.batch = startup.batch /\ startup'.phase = startup.phase
           /\ startup'.interrupted
    <2>1. CASE startup = None
      BY <2>1 DEF Interrupt
    <2>2. CASE startup # None
      <3>1. startup \in Startup /\ startup' = [startup EXCEPT !.interrupted = TRUE]
        BY <2>2, BatchLemma DEF Interrupt
      <3>2. /\ startup' \in Startup /\ startup'.batch = startup.batch
            /\ startup'.phase = startup.phase /\ startup'.interrupted
        BY <3>1 DEF Startup
      <3>3. QED
        BY <2>2, <3>2, NoneAssumption
    <2>3. QED
      BY <2>1, <2>2
  <1>5. inputs' \in Seq(Operations) /\ InputsInv' /\ StartupInv' /\ MessageInv'
    BY <1>2, <1>4, StandingLemma
  <1>6. TypeOK'
    <2>1. interrupts' \in 0 .. MaxInterrupts
      BY <1>1, <1>2, BoundsAssumption DEF TypeOK
    <2>2. QED
      BY <1>1, <1>2, <1>3, <1>4, <1>5, <2>1 DEF TypeOK, InputsInv, Distinct, Statuses, Busy
  <1>7. StatusInv' /\ WaitInv' /\ QueueInv'
    BY <1>2, <1>3, <1>4 DEF StatusInv, WaitInv, QueueInv
  <1>8. QED
    BY <1>5, <1>6, <1>7 DEF IInv

LEMMA DisconnectedStep ==
  ASSUME IInv, Disconnected
  PROVE  IInv'
  <1> DEFINE ending == {u \in Closing : ~Waits(u)}
  <1>1. TypeOK /\ StatusInv /\ WaitInv /\ QueueInv
    BY DEF IInv
  <1>2. /\ End(ending, status, requested, startup)
        /\ inputs' = IF ending = {} THEN inputs ELSE Scheduled(inputs)
        /\ lost' = IF startup # None /\ status' # status THEN lost \cup {"overtaken"} ELSE lost
        /\ UNCHANGED <<queued, transcript, session, startup, stream, answer, given, excused,
                       interrupts, faults>>
    BY DEF Disconnected
  <1>3. /\ ending \subseteq Running /\ \A u \in ending : ~Waits(u)
        /\ interrupt' \in [Users -> Interruption \cup {None}]
        /\ Running' = Running \ ending
        /\ \A u \in Users : Waits(u) /\ u \in Running => Waits(u)'
    <2>1. ASSUME NEW u \in Users
          PROVE  /\ interrupt'[u] \in Interruption \cup {None}
                 /\ interrupt'[u] # None <=> interrupt[u] # None /\ u \notin ending
                 /\ Waits(u) /\ u \in Running => Waits(u)'
      <3>1. interrupt[u] \in Interruption \cup {None}
        BY <1>1 DEF TypeOK
      <3>2. CASE u \in ending
        BY <3>2 DEF Disconnected, Waits
      <3>3. CASE u \in Closing \ ending
        <4>1. interrupt[u] \in Interruption
          BY <3>1, <3>3 DEF Closing, Running
        <4>2. /\ [interrupt[u] EXCEPT !.phase = "settling"] \in Interruption
              /\ [interrupt[u] EXCEPT !.phase = "settling"].startup = interrupt[u].startup
          BY <4>1 DEF Interruption
        <4>3. interrupt'[u] = [interrupt[u] EXCEPT !.phase = "settling"]
          BY <3>3 DEF Disconnected
        <4>4. QED
          BY <3>3, <4>1, <4>2, <4>3, NoneAssumption DEF Waits
      <3>4. CASE u \notin Closing
        BY <3>1, <3>4 DEF Disconnected, Waits
      <3>5. QED
        BY <3>2, <3>3, <3>4
    <2>2. interrupt' = [u \in Users |-> interrupt'[u]]
      BY DEF Disconnected
    <2>3. ending \subseteq Running /\ \A u \in ending : ~Waits(u)
      BY DEF Closing
    <2> HIDE DEF ending
    <2>4. QED
      BY <2>1, <2>2, <2>3 DEF Running
  <1> HIDE DEF ending
  <1>4. /\ status' \in {"idle", status} /\ requested' \in BOOLEAN
        /\ ending # {} /\ status = "interrupting" => status' = "idle"
    BY <1>2, <1>3, EndLemma
  <1>5. /\ inputs' \in Seq(Operations) /\ InputsInv' /\ StartupInv' /\ MessageInv'
        /\ ending # {} \/ DrainIsDue => DrainIsDue'
    <2>1. startup # None => startup \in Startup
      BY <1>1 DEF TypeOK
    <2>2. QED
      BY <1>2, <2>1, StandingLemma
  <1>6. TypeOK'
    BY <1>1, <1>2, <1>3, <1>4, <1>5 DEF TypeOK, InputsInv, Distinct, Statuses, Rare
  <1>7. StatusInv'
    BY <1>1, <1>2, <1>3, <1>4 DEF StatusInv
  <1>8. WaitInv'
    <2>1. lost \subseteq lost' /\ (startup # None => status' = status \/ lost' # {})
      BY <1>2
    <2>2. ASSUME NEW u \in Running, interrupt[u].startup = "running"
          PROVE  u \in Running' /\ interrupt'[u].startup = "running"
      BY <1>3, <2>2 DEF Waits, Running
    <2>3. QED
      BY <1>1, <1>2, <2>1, <2>2 DEF WaitInv
  <1>9. QueueInv'
    <2>1. CASE ending # {}
      BY <1>5, <2>1 DEF QueueInv
    <2>2. CASE ending = {}
      <3>1. Running' = Running /\ status' = status
        BY <1>2, <1>3, <2>2 DEF End
      <3>2. QED
        BY <1>1, <1>2, <1>5, <3>1 DEF QueueInv
    <2>3. QED
      BY <2>1, <2>2
  <1>10. QED
    BY <1>5, <1>6, <1>7, <1>8, <1>9 DEF IInv

LEMMA SettleTimeoutStep ==
  ASSUME IInv, NEW u \in Users, SettleTimeout(u)
  PROVE  IInv'
  <1>1. TypeOK /\ StatusInv
    BY DEF IInv
  <1>2. /\ End({u}, status, requested, startup)
        /\ inputs' = Scheduled(inputs) /\ lost' = lost \cup {"timeout"}
        /\ UNCHANGED <<queued, transcript, session, startup, stream, answer, given, excused,
                       interrupts, faults>>
    BY DEF SettleTimeout
  <1>3. interrupt' \in [Users -> Interruption \cup {None}] /\ u \in Running
    BY <1>1 DEF TypeOK, SettleTimeout, Settling
  <1>4. /\ status' \in {"idle", status} /\ requested' \in BOOLEAN
        /\ status = "interrupting" => status' = "idle"
    BY <1>2, <1>3, EndLemma
  <1>5. inputs' \in Seq(Operations) /\ InputsInv' /\ StartupInv' /\ MessageInv'
    <2>1. startup # None => startup \in Startup
      BY <1>1 DEF TypeOK
    <2>2. QED
      BY <1>2, <2>1, StandingLemma
  <1>6. TypeOK'
    BY <1>1, <1>2, <1>3, <1>4, <1>5 DEF TypeOK, InputsInv, Distinct, Statuses, Rare
  <1>7. StatusInv'
    BY <1>1, <1>2, <1>4 DEF StatusInv
  <1>8. WaitInv' /\ QueueInv'
    <2>1. startup # None /\ ~startup.interrupted /\ startup.phase = "sending" => stream
      BY DEF IInv, WaitInv
    <2>2. QED
      BY <1>2, <2>1 DEF WaitInv, QueueInv
  <1>9. QED
    BY <1>5, <1>6, <1>7, <1>8 DEF IInv

(* "Done" and a restart.                                                   *)
LEMMA MarkDoneStep ==
  ASSUME IInv, MarkDone
  PROVE  IInv'
  <1>1. TypeOK /\ StatusInv /\ WaitInv
    BY DEF IInv
  <1>2. /\ ~stream /\ status \notin Busy /\ status' = "done" /\ requested' = FALSE
        /\ UNCHANGED <<queued, transcript, session, inputs, startup, stream, interrupt, answer,
                       given, excused, lost, interrupts, faults, Running>>
    BY DEF MarkDone, ShouldQueue, ghosts, Running
  <1>3. inputs' \in Seq(Operations) /\ InputsInv' /\ StartupInv' /\ MessageInv'
    <2>1. startup # None => startup \in Startup
      BY <1>1 DEF TypeOK
    <2>2. QED
      BY <1>2, <2>1, StandingLemma
  <1>4. TypeOK'
    BY <1>1, <1>2, <1>3 DEF TypeOK, InputsInv, Distinct, Statuses
  <1>5. StatusInv' /\ QueueInv'
    BY <1>1, <1>2 DEF StatusInv, QueueInv
  <1>6. WaitInv'
    BY <1>1, <1>2 DEF WaitInv, Busy, Running
  <1>7. QED
    BY <1>3, <1>4, <1>5, <1>6 DEF IInv

LEMMA RestartStep ==
  ASSUME IInv, Restart
  PROVE  IInv'
  <1>1. TypeOK /\ StartupInv /\ MessageInv
    BY DEF IInv
  <1>2. /\ status' = (IF status \in Busy THEN "stopped" ELSE status)
        /\ requested' \in BOOLEAN /\ faults' \in 0 .. MaxFaults
        /\ inputs' = <<>> /\ startup' = None /\ stream' = FALSE
        /\ interrupt' = [u \in Users |-> None]
        /\ lost' = IF queued # <<>> /\ status \notin Busy THEN lost \cup {"forgotten"} ELSE lost
        /\ UNCHANGED <<queued, transcript, session, given, interrupts, QueuedSet>>
    BY <1>1, BoundsAssumption DEF Restart, TypeOK, QueuedSet
  <1>3. /\ answer' \in [Messages -> {"none", "accepted", "refused", "removed"}]
        /\ \A m \in Messages :
             answer'[m] = IF answer[m] = "waiting" THEN "refused" ELSE answer[m]
    BY <1>1 DEF Restart, TypeOK
  <1>4. /\ excused \subseteq excused' /\ excused' \subseteq Messages
        /\ startup # None => Batch \cap transcript \subseteq excused'
    BY <1>1, BatchLemma DEF Restart, TypeOK
  <1>5. TypeOK'
    <2>1. inputs' \in Seq(Operations) /\ interrupt' \in [Users -> Interruption \cup {None}]
      BY <1>2
    <2>2. \A i, j \in DOMAIN inputs' : inputs'[i] = Drain /\ inputs'[j] = Drain => i = j
      BY <1>2
    <2>3. answer' \in [Messages -> {"none", "waiting", "accepted", "refused", "removed"}]
      BY <1>3
    <2>4. QED
      BY <1>1, <1>2, <1>4, <2>1, <2>2, <2>3 DEF TypeOK, Statuses, Rare
  <1>6. InputsInv' /\ StartupInv' /\ WaitInv'
    BY <1>2 DEF InputsInv, StartupInv, WaitInv, Distinct, InputSet, ToSet
  <1>7. MessageInv'
    <2>1. ASSUME NEW m \in Messages, startup # None, m \in Batch
          PROVE  m \in QueuedSet \/ m \in transcript
      <3>1. startup.phase \in {"preparing", "sending"}
        BY <2>1, BatchLemma DEF Startup
      <3>2. QED
        BY <1>1, <2>1, <3>1 DEF StartupInv
    <2>2. QED
      BY <1>1, <1>2, <1>3, <1>4, <2>1 DEF MessageInv
  <1>8. StatusInv' /\ QueueInv'
    BY <1>2 DEF StatusInv, QueueInv, Busy
  <1>9. QED
    BY <1>5, <1>6, <1>7, <1>8 DEF IInv

-----------------------------------------------------------------------------
LEMMA StutterStep ==
  ASSUME IInv, UNCHANGED vars
  PROVE  IInv'
  BY DEF vars, row, ghosts, IInv, TypeOK, InputsInv, StartupInv, MessageInv, StatusInv, WaitInv,
         QueueInv, DrainIsDue, InputSet, QueuedSet, Batch, Running, Distinct

LEMMA NextInv == IInv /\ [Next]_vars => IInv'
  <1> SUFFICES ASSUME IInv, [Next]_vars
               PROVE  IInv'
    OBVIOUS
  <1>1. CASE Call
    BY <1>1, CallStep
  <1>2. CASE Work
    BY <1>2, EnqueueStep, RemoveQueuedStep, DrainNothingStep, SendDirectlyStep, SendQueuedStep
       DEF Work
  <1>3. CASE Dispatch
    BY <1>3, SessionCreatedStep, PromptStep, StartedStep, StartedClosedStep, StartInterruptedStep, StartFailsStep,
       StartOvertakenStep DEF Dispatch
  <1>4. CASE TurnCompletes \/ TurnFails \/ TurnEndsUnmarked
    BY <1>4, TurnEndsStep, TurnEndsUnmarkedStep
  <1>5. CASE \E u \in Users : Interrupt(u) \/ SettleTimeout(u)
    BY <1>5, InterruptStep, SettleTimeoutStep
  <1>6. CASE Disconnected \/ MarkDone \/ Restart
    BY <1>6, DisconnectedStep, MarkDoneStep, RestartStep
  <1>7. CASE UNCHANGED vars
    BY <1>7, StutterStep
  <1>8. QED
    BY <1>1, <1>2, <1>3, <1>4, <1>5, <1>6, <1>7 DEF Next

LEMMA Invariance == Spec => []IInv
  BY InitInv, NextInv, PTL DEF Spec

-----------------------------------------------------------------------------
(* Every variable keeps its type: the queue stays within its capacity, and *)
(* the operation queue never holds two drains (the set                     *)
(* queuedMessageDrains, chat-interaction-service.ts).                      *)
THEOREM TypeCorrect == Spec => []TypeOK
  BY Invariance, PTL DEF IInv

(* No prompt reaches the agent twice, whatever drains, interruptions,      *)
(* failures and restarts happen: a message leaves the queue when its       *)
(* prompt is prepared and the operation queue holds it once.               *)
THEOREM PromptsAreSentOnce == Spec => []SentOnce
  <1>1. IInv => SentOnce
    BY DEF IInv, MessageInv, SentOnce
  <1>2. QED
    BY <1>1, Invariance, PTL

(* A message that was accepted is queued, in a startup, given to the       *)
(* agent, withdrawn or visible in the transcript; what is queued is not in *)
(* the transcript.                                                         *)
THEOREM AcceptedIsKept == Spec => []NothingLost
  <1>1. IInv => NothingLost
    <2> SUFFICES ASSUME IInv
                 PROVE  NothingLost
      OBVIOUS
    <2>1. TypeOK /\ MessageInv
      BY DEF IInv
    <2>2. \A m \in Messages : Contains(queued, m) <=> m \in QueuedSet
      BY <2>1, ContainsLemma DEF TypeOK, QueuedSet
    <2>3. QED
      BY <2>1, <2>2 DEF MessageInv, NothingLost, TypeOK, QueuedSet
  <1>2. QED
    BY <1>1, Invariance, PTL

(* A busy row is never left alone: while it refuses direct messages, a     *)
(* startup, a stream or an interruption is there to end that.              *)
THEOREM BusyRowIsServed == Spec => []BusyRowHasTurn
  <1>1. IInv => BusyRowHasTurn
    BY DEF IInv, StatusInv, BusyRowHasTurn, Busy
  <1>2. QED
    BY <1>1, Invariance, PTL

(* A queue with nobody to drain it has a cause the user sees.              *)
THEOREM QueueIsNotStranded == Spec => []NoStrandedQueue
  <1>1. IInv => NoStrandedQueue
    <2> SUFFICES ASSUME IInv
                 PROVE  NoStrandedQueue
      OBVIOUS
    <2>1. DrainIsDue => Contains(inputs, Drain)
      BY ContainsLemma DEF IInv, TypeOK, DrainIsDue, InputSet
    <2>2. QED
      BY <2>1 DEF IInv, QueueInv, NoStrandedQueue
  <1>2. QED
    BY <1>1, Invariance, PTL

-----------------------------------------------------------------------------
(* The refinement.  A message that waits to be sent again is held by the   *)
(* queue or by the startup that has taken it from there.                   *)
Held(m) == m \in QueuedSet \/ (startup # None /\ m \in Batch)

(* What a step may do to a message: take it from the client, tell its      *)
(* sender, withdraw it from the queue, give it to the agent, or let go of  *)
(* it; what is no longer held is never held again.                         *)
Advances(m) ==
  \/ /\ given'[m] = given[m]
     /\ \/ given[m] > 0
        \/ answer'[m] = answer[m] /\ (answer[m] = "accepted" /\ Held(m)' => Held(m))
        \/ answer[m] = "none" /\ answer'[m] = "waiting"
        \/ answer[m] = "waiting" /\ answer'[m] \in {"accepted", "refused"}
        \/ answer[m] = "accepted" /\ Held(m) /\ answer'[m] = "removed"
  \/ /\ given[m] = 0 /\ given'[m] = 1
     /\ answer[m] = "waiting" \/ (answer[m] = "accepted" /\ Held(m))

(* Under the inductive invariant no message is lost: its fate follows from *)
(* the prompts the agent got, what its sender was told, and who holds it.  *)
FateIsKnown(m) ==
  /\ given[m] \in Nat /\ (FateOf(m) = "given" <=> given[m] > 0)
  /\ given[m] = 0 =>
       /\ answer[m] = "none" => FateOf(m) = "unsent"
       /\ answer[m] = "waiting" => FateOf(m) = "held"
       /\ answer[m] = "removed" => FateOf(m) = "withdrawn"
       /\ answer[m] = "refused" => FateOf(m) = "refused"
       /\ answer[m] = "accepted" => FateOf(m) = IF Held(m) THEN "held" ELSE "shown"
  /\ answer[m] \in {"none", "waiting", "removed", "refused", "accepted"}

FatesAreKnown == \A m \in Messages : FateIsKnown(m)

LEMMA FateLemma == IInv => FatesAreKnown
  <1> SUFFICES ASSUME IInv, NEW m \in Messages
               PROVE  FateIsKnown(m)
    BY DEF FatesAreKnown
  <1>1. /\ given[m] \in Nat
        /\ answer[m] \in {"none", "waiting", "removed", "refused", "accepted"}
    BY DEF IInv, TypeOK
  <1>2. Contains(queued, m) <=> m \in QueuedSet
    BY ContainsLemma DEF IInv, TypeOK, QueuedSet
  <1>3. answer[m] = "accepted" /\ given[m] = 0 => Held(m) \/ m \in transcript \cap excused
    BY <1>1 DEF IInv, MessageInv, Held
  <1>4. CASE given[m] > 0
    BY <1>1, <1>4 DEF FateOf, FateIsKnown
  <1>5. CASE given[m] = 0 /\ answer[m] # "accepted"
    BY <1>1, <1>5 DEF FateOf, FateIsKnown
  <1>6. CASE given[m] = 0 /\ answer[m] = "accepted"
    BY <1>1, <1>2, <1>3, <1>6 DEF FateOf, Held, FateIsKnown
  <1>7. QED
    BY <1>1, <1>4, <1>5, <1>6

LEMMA FateLemmaNext == IInv' => FatesAreKnown'
  BY FateLemma, PTL

LEMMA DeliveryNext ==
  ASSUME IInv, IInv', \A m \in Messages : Advances(m)
  PROVE  Delivery!Next
  <1>1. ASSUME NEW m \in Messages
        PROVE  /\ \/ FateOf(m)' = FateOf(m)
                  \/ FateOf(m) = "unsent" /\ FateOf(m)' = "held"
                  \/ FateOf(m) = "held"
                     /\ FateOf(m)' \in {"given", "shown", "withdrawn", "refused"}
               /\ given'[m] = IF FateOf(m) # "given" /\ FateOf(m)' = "given"
                              THEN given[m] + 1 ELSE given[m]
    <2>1. given[m] \in Nat /\ given'[m] \in Nat /\ Advances(m)
      BY FateLemma, FateLemmaNext DEF FatesAreKnown, FateIsKnown
    <2>2. CASE given[m] > 0
      BY <2>1, <2>2, FateLemma, FateLemmaNext
         DEF Advances, FatesAreKnown, FateIsKnown
    <2>3. CASE given[m] = 0 /\ given'[m] = 1
      BY <2>1, <2>3, FateLemma, FateLemmaNext
         DEF Advances, FatesAreKnown, FateIsKnown
    <2>4. CASE given[m] = 0 /\ given'[m] = 0
      BY <2>1, <2>4, FateLemma, FateLemmaNext
         DEF Advances, FatesAreKnown, FateIsKnown
    <2>5. QED
      BY <2>1, <2>2, <2>3, <2>4 DEF Advances
  <1>2. given' \in [Messages -> Nat]
    BY DEF IInv, TypeOK
  <1>3. \A m \in Messages : Delivery!Moves(m)
    BY <1>1 DEF Delivery!Moves, Delivery!Ends
  <1>4. QED
    BY <1>1, <1>2, <1>3 DEF Delivery!Next

(* Which operations let a message advance, and how.                        *)
LEMMA CallAdvances ==
  ASSUME IInv, Call, NEW m \in Messages
  PROVE  Advances(m)
  <1>1. /\ given' = given /\ Held(m)' = Held(m)
        /\ answer \in [Messages -> {"none", "waiting", "accepted", "refused", "removed"}]
    BY DEF Call, row, Held, QueuedSet, Batch, IInv, TypeOK
  <1>2. answer'[m] = answer[m] \/ (answer[m] = "none" /\ answer'[m] = "waiting")
    BY <1>1 DEF Call
  <1>3. QED
    BY <1>1, <1>2 DEF Advances

LEMMA EnqueueAdvances ==
  ASSUME IInv, Enqueue, NEW m \in Messages
  PROVE  Advances(m)
  <1>1. /\ given' = given /\ startup = None /\ startup' = None
        /\ inputs # <<>> /\ Head(inputs).kind = "send"
        /\ queued \in Seq(Messages)
        /\ answer \in [Messages -> {"none", "waiting", "accepted", "refused", "removed"}]
    BY DEF Enqueue, HeadIs, IInv, TypeOK
  <1>2. PICK n \in Messages :
          /\ Head(inputs) = Send(n) /\ Head(inputs).message = n /\ Send(n) \in InputSet
          /\ ~Drained
    BY <1>1, TakenLemma, OperationsLemma DEF Enqueue, Drained
  <1>3. answer[n] = "waiting"
    BY <1>2 DEF IInv, InputsInv
  <1>4. /\ QueuedSet' \subseteq QueuedSet \cup {n}
        /\ answer' \in {[answer EXCEPT ![n] = "accepted"], [answer EXCEPT ![n] = "refused"]}
    <2>1. queued' \in {queued, Append(queued, n)}
      BY <1>2 DEF Enqueue, Enqueued
    <2>2. QueuedSet' \subseteq QueuedSet \cup {n}
      BY <1>1, <2>1, AppendLemma DEF QueuedSet
    <2>3. QED
      BY <1>2, <2>2 DEF Enqueue, Enqueued, Told
  <1>5. QED
    BY <1>1, <1>3, <1>4 DEF Advances, Held

LEMMA RemoveQueuedAdvances ==
  ASSUME IInv, RemoveQueued, NEW m \in Messages
  PROVE  Advances(m)
  <1>1. /\ given' = given /\ startup = None /\ startup' = None
        /\ inputs # <<>> /\ Head(inputs).kind = "remove"
        /\ queued \in Seq(Messages)
        /\ answer \in [Messages -> {"none", "waiting", "accepted", "refused", "removed"}]
    BY DEF RemoveQueued, HeadIs, IInv, TypeOK
  <1>2. PICK n \in Messages : Head(inputs) = Removal(n) /\ Head(inputs).message = n
    BY <1>1, TakenLemma, OperationsLemma DEF RemoveQueued
  <1>3. /\ QueuedSet' = QueuedSet \ {n}
        /\ answer' = IF n \in QueuedSet THEN [answer EXCEPT ![n] = "removed"] ELSE answer
    BY <1>1, <1>2, KeptLemma, ContainsLemma DEF RemoveQueued, QueuedSet
  <1>4. n \in QueuedSet => answer[n] = "accepted"
    BY DEF IInv, MessageInv
  <1>5. QED
    BY <1>1, <1>3, <1>4 DEF Advances, Held

(* The beginning of a dispatch: a message of a drain passes from the queue *)
(* to the startup.                                                         *)
LEMMA BeginningAdvances ==
  ASSUME IInv, SendDirectly \/ SendQueued, NEW m \in Messages
  PROVE  Advances(m)
  <1>1. UNCHANGED <<given, answer, QueuedSet>>
    BY DEF SendDirectly, SendQueued, ghosts, QueuedSet
  <1>2. CASE SendDirectly
    <2>1. startup = None /\ inputs # <<>> /\ inputs \in Seq(Operations) /\ Distinct(inputs)
      BY <1>2 DEF SendDirectly, HeadIs, IInv, TypeOK, InputsInv
    <2>2. PICK n \in Messages :
            Head(inputs) = Send(n) /\ Head(inputs).message = n /\ Send(n) \in InputSet
      BY <1>2, <2>1, TailLemma, OperationsLemma DEF SendDirectly, HeadIs, InputSet
    <2>3. answer[n] = "waiting"
      BY <2>2 DEF IInv, InputsInv
    <2>4. startup'.batch = <<n>>
      BY <1>2, <2>2 DEF SendDirectly, Begins
    <2>5. Batch' = {n}
      BY <2>4 DEF Batch, ToSet
    <2>6. QED
      BY <1>1, <2>3, <2>5 DEF Advances, Held
  <1>3. CASE SendQueued
    <2>1. PICK n \in 1 .. Len(queued) : Begins(SubSeq(queued, 1, n))
      BY <1>3 DEF SendQueued
    <2>2. queued \in Seq(Messages)
      BY DEF IInv, TypeOK
    <2>3. ToSet(SubSeq(queued, 1, n)) \subseteq QueuedSet
      <3>1. /\ DOMAIN SubSeq(queued, 1, n) = 1 .. n
            /\ \A i \in 1 .. n : SubSeq(queued, 1, n)[i] = queued[i]
            /\ 1 .. n \subseteq DOMAIN queued
        BY <2>2
      <3>2. QED
        BY <3>1 DEF ToSet, QueuedSet
    <2>4. startup'.batch = SubSeq(queued, 1, n)
      BY <2>1 DEF Begins
    <2>5. Batch' \subseteq QueuedSet
      BY <2>3, <2>4 DEF Batch
    <2>6. QED
      BY <1>1, <2>5 DEF Advances, Held
  <1>4. QED
    BY <1>2, <1>3

(* The steps that send nothing, answer nobody, and take nothing up.        *)
LEMMA StandingAdvances ==
  ASSUME IInv, UNCHANGED <<answer, given>>, NEW m \in Messages,
         QueuedSet' \subseteq QueuedSet,
         startup' = None \/ (startup # None /\ startup'.batch = startup.batch)
  PROVE  Advances(m)
  BY DEF Advances, Held, Batch

LEMMA PromptAdvances ==
  ASSUME IInv, Prompt, NEW m \in Messages
  PROVE  Advances(m)
  <1>1. startup \in Startup /\ startup # None
    BY BatchLemma DEF Prompt, Prepares
  <1>2. startup'.batch = startup.batch
    BY <1>1 DEF Prompt, Startup
  <1>3. queued' \in {queued, Kept(Batch)} /\ queued \in Seq(Messages)
    BY DEF Prompt, Cleared, IInv, TypeOK
  <1>4. QueuedSet' \subseteq QueuedSet
    BY <1>3, KeptLemma DEF QueuedSet
  <1>5. QED
    BY <1>1, <1>2, <1>4, StandingAdvances DEF Prompt, ghosts

(* The end of a dispatch: the messages of the startup are given to the     *)
(* agent or not, and the sender of a message sent to a free chat is told.  *)
LEMMA EndingAdvances ==
  ASSUME IInv, Started \/ StartedClosed \/ StartInterrupted \/ StartFails \/ StartOvertaken,
         NEW m \in Messages
  PROVE  Advances(m)
  <1>1. /\ startup # None /\ UNCHANGED QueuedSet
        /\ \E result \in {"accepted", "refused"} : Told(result)
    BY DEF Started, StartedClosed, StartInterrupted, StartFails, StartOvertaken, row, QueuedSet
  <1>2. startup' = None
    BY DEF Started, StartedClosed, StartInterrupted, StartFails, StartOvertaken, Settles
  <1>3. given'[m] = given[m] \/ (m \in Batch /\ given[m] = 0 /\ given'[m] = 1)
    <2>1. given \in [Messages -> Nat] /\ \A n \in Batch : given[n] = 0
      BY <1>1, BatchLemma DEF IInv, TypeOK
    <2>2. CASE Started
      BY <2>1, <2>2 DEF Started
    <2>3. CASE StartedClosed
      <3>1. PICK sent \in BOOLEAN :
              given' = [n \in Messages |-> given[n] + (IF sent /\ n \in Batch THEN 1 ELSE 0)]
        BY <2>3 DEF StartedClosed
      <3>2. QED
        BY <2>1, <3>1
    <2>4. CASE StartInterrupted \/ StartFails
      BY <2>4 DEF StartInterrupted, StartFails
    <2>5. CASE StartOvertaken
      BY <2>1, <2>5 DEF StartOvertaken
    <2>6. QED
      BY <2>2, <2>3, <2>4, <2>5
  <1>4. PICK result \in {"accepted", "refused"} : Told(result)
    BY <1>1
  <1>5. answer'[m] = IF m \in Batch /\ ~Drained THEN result ELSE answer[m]
    BY <1>1, <1>4, ToldLemma
  <1>6. /\ m \in Batch /\ ~Drained => answer[m] = "waiting"
        /\ m \in Batch /\ Drained => answer[m] = "accepted" /\ Held(m)
    BY <1>1, BatchLemma DEF Held
  <1>7. Held(m)' => Held(m)
    BY <1>1, <1>2 DEF Held
  <1>8. QED
    BY <1>3, <1>5, <1>6, <1>7 DEF Advances

LEMMA InterruptAdvances ==
  ASSUME IInv, NEW u \in Users, Interrupt(u), NEW m \in Messages
  PROVE  Advances(m)
  <1>1. startup # None => startup \in Startup
    BY DEF IInv, TypeOK
  <1>2. startup' = None \/ (startup # None /\ startup'.batch = startup.batch)
    BY <1>1 DEF Interrupt, Startup
  <1>3. QED
    BY <1>2, StandingAdvances DEF Interrupt, ghosts, QueuedSet

LEMMA RestartAdvances ==
  ASSUME IInv, Restart, NEW m \in Messages
  PROVE  Advances(m)
  BY DEF Restart, Advances, Held, QueuedSet, IInv, TypeOK

LEMMA OtherStepsAdvance ==
  ASSUME IInv, NEW m \in Messages,
         \/ DrainNothing \/ SessionCreated \/ TurnCompletes \/ TurnFails \/ TurnEndsUnmarked
         \/ \E u \in Users : SettleTimeout(u)
         \/ Disconnected \/ MarkDone
  PROVE  Advances(m)
  <1>1. UNCHANGED <<answer, given, queued, startup>>
    BY DEF DrainNothing, SessionCreated, TurnCompletes, TurnFails, TurnEndsUnmarked,
           SettleTimeout, Disconnected, MarkDone, row, ghosts
  <1>2. QED
    BY <1>1, StandingAdvances DEF QueuedSet

LEMMA StepAdvances ==
  ASSUME IInv, Next, NEW m \in Messages
  PROVE  Advances(m)
  <1>1. CASE Call
    BY <1>1, CallAdvances
  <1>2. CASE Work
    BY <1>2, EnqueueAdvances, RemoveQueuedAdvances, OtherStepsAdvance, BeginningAdvances DEF Work
  <1>3. CASE Dispatch
    BY <1>3, OtherStepsAdvance, PromptAdvances, EndingAdvances DEF Dispatch
  <1>4. CASE TurnCompletes \/ TurnFails \/ TurnEndsUnmarked \/ Disconnected \/ MarkDone
    BY <1>4, OtherStepsAdvance
  <1>5. CASE \E u \in Users : Interrupt(u) \/ SettleTimeout(u)
    BY <1>5, InterruptAdvances, OtherStepsAdvance
  <1>6. CASE Restart
    BY <1>6, RestartAdvances
  <1>7. QED
    BY <1>1, <1>2, <1>3, <1>4, <1>5, <1>6 DEF Next

(* The chat implements the delivery it promises: every message is given to *)
(* the agent at most once, and what was withdrawn, refused or left in the  *)
(* transcript stays so (sendMessage, removeQueuedMessage,                  *)
(* drainQueuedMessages, interruptChat, and the reset of stale chats).      *)
THEOREM DeliveryIsImplemented == Spec => ImplementsDelivery
  <1>1. Init => Delivery!Init
    BY DEF Init, Delivery!Init, FateOf
  <1>2. IInv /\ IInv' /\ [Next]_vars => [Delivery!Next]_(Delivery!deliveryVars)
    <2> SUFFICES ASSUME IInv, IInv', [Next]_vars
                 PROVE  [Delivery!Next]_(Delivery!deliveryVars)
      OBVIOUS
    <2>1. CASE Next
      BY <2>1, StepAdvances, DeliveryNext
    <2>2. CASE UNCHANGED vars
      BY <2>2 DEF vars, row, ghosts, Delivery!deliveryVars, FateOf, Batch
    <2>3. QED
      BY <2>1, <2>2
  <1>3. QED
    BY <1>1, <1>2, Invariance, PTL DEF Spec, ImplementsDelivery, Delivery!Spec

=============================================================================
