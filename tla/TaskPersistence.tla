--------------------------- MODULE TaskPersistence ---------------------------
(***************************************************************************)
(* The durability path of one task engine: MemoryFirstPersistenceQueue     *)
(* (core/memory-first-persistence-queue.ts) driven by the                  *)
(* TaskPersistenceCoordinator (core/engine/engine-persistence.ts), the     *)
(* TranscriptChangeTracker it snapshots, and the row transaction of        *)
(* updateTaskStateForUser (persistence/tasks/updates.ts).                  *)
(*                                                                         *)
(* The engine mutates memory first and asks for a checkpoint; a single     *)
(* drain loop writes.  JavaScript runs one callback at a time, so an action*)
(* is the code between two awaits: a pass takes its snapshot and runs the  *)
(* (synchronous) SQLite transaction in one step, acknowledges in a later   *)
(* one, and tests whether to loop in one after that.  Mutations, requests, *)
(* disable() and deletion of the row by the lifecycle interleave anywhere  *)
(* between those steps.                                                    *)
(*                                                                         *)
(* Values are abstracted to versions: what matters is which mutation a     *)
(* write contains.                                                         *)
(***************************************************************************)
EXTENDS CheckpointContent

CONSTANT MaxMutations  \* bound on the mutations of a behaviour

ASSUME BoundAssumption == MaxMutations \in Nat

VARIABLES
  \* MemoryFirstPersistenceQueue
  drain,              \* where persistenceInFlight stands; "idle" is null
  requested,          \* persistenceRequested
  dirty,              \* operationalPersistenceDirty
  version,            \* operationalPersistenceVersion: the operational state in memory
  \* TaskPersistenceCoordinator
  enabled,            \* onPersistState is still set
  inputVersion, persistedInputVersion,
  snapshot,           \* what the pass in flight captured before its write
  \* TranscriptChangeTracker and the entries behind it
  nextVersion,        \* nextVersion
  entry,              \* version of each entry in memory
  changes,            \* pending change of each entry, 0 if none
  \* the tasks row and its transcript rows
  row,                \* "live", "deleted" (logically) or "missing"
  db,                 \* the version each column or transcript row holds
  \* history: what callers were told
  joined,             \* memory at the last request() the drain in flight serves
  settled             \* memory that resolved promises said to be durable

queueVars == <<drain, requested, dirty, version>>
coordVars == <<enabled, inputVersion, persistedInputVersion, snapshot>>
trackVars == <<nextVersion, entry, changes>>
vars == <<queueVars, coordVars, trackVars, row, db, joined, settled>>

-----------------------------------------------------------------------------

Memory == [op |-> version, inputs |-> inputVersion, entry |-> entry]

Mutations == version + nextVersion

-----------------------------------------------------------------------------

Init ==
  /\ drain = "idle"
  /\ requested = FALSE
  /\ dirty = FALSE
  /\ version = 0
  /\ enabled = TRUE
  /\ inputVersion = 0
  /\ persistedInputVersion = 0
  /\ snapshot = NothingWritten
  /\ nextVersion = 0
  /\ entry = [e \in Entries |-> 0]
  /\ changes = NoChanges
  /\ row = "live"
  /\ db = NothingWritten
  /\ joined = NothingWritten
  /\ settled = NothingWritten

(* markOperationalPersistenceDirty: a write already in flight cannot be    *)
(* trusted to contain the mutation, so the drain is told to go round.      *)
MarkDirty ==
  /\ dirty' = TRUE
  /\ version' = version + 1
  /\ requested' = (requested \/ drain # "idle")

(* persistCurrentState returns before writing anything. *)
NothingToWrite(isDirty) ==
  \/ ~enabled
  \/ ~isDirty /\ \A e \in Entries : changes[e] = 0

(* What the transaction of updateTaskStateForUser leaves in the database:  *)
(* the operational columns, the harness input column only when the inputs  *)
(* moved since the last acknowledged write, and the pending transcript     *)
(* changes; nothing when the row is gone or logically deleted.             *)
Written(mem) ==
  IF row # "live" THEN db
  ELSE [op     |-> mem.op,
        inputs |-> IF mem.inputs # persistedInputVersion THEN mem.inputs ELSE db.inputs,
        entry  |-> [e \in Entries |-> IF changes[e] # 0 THEN changes[e] ELSE db.entry[e]]]

(* Mutant of Pass: the request is not cleared before the write. *)
PassKeepingRequest(mem, isDirty) ==
  /\ requested' = requested
  /\ snapshot' = [op |-> mem.op, inputs |-> mem.inputs, entry |-> changes]
  /\ \/ NothingToWrite(isDirty) /\ drain' = "skipped" /\ UNCHANGED db
     \/ ~NothingToWrite(isDirty) /\ drain' = "written" /\ db' = Written(mem)
     \/ ~NothingToWrite(isDirty) /\ drain' = "failed" /\ UNCHANGED db

(* One turn of the loop of drain(): clear the request, then                *)
(* persistCurrentState up to its first await, over the memory mem.  The    *)
(* transaction commits or throws.                                          *)
Pass(mem, isDirty) ==
  /\ requested' = FALSE
  /\ snapshot' = [op |-> mem.op, inputs |-> mem.inputs, entry |-> changes]
  /\ \/ NothingToWrite(isDirty) /\ drain' = "skipped" /\ UNCHANGED db
     \/ ~NothingToWrite(isDirty) /\ drain' = "written" /\ db' = Written(mem)
     \/ ~NothingToWrite(isDirty) /\ drain' = "failed" /\ UNCHANGED db

(* Mutant of Request: a caller that joins the drain in flight is handed    *)
(* its promise without telling the loop to go round.                       *)
RequestJoining(mem, isDirty) ==
  /\ joined' = mem
  /\ \/ /\ drain = "idle"
        /\ Pass(mem, isDirty)
     \/ /\ drain # "idle"
        /\ UNCHANGED <<requested, drain, snapshot, db>>

(* request(): join the drain in flight, or start one.  The caller's        *)
(* promise is the drain's.                                                 *)
Request(mem, isDirty) ==
  /\ joined' = mem
  /\ \/ /\ drain = "idle"
        /\ Pass(mem, isDirty)
     \/ /\ drain # "idle"
        /\ requested' = TRUE
        /\ UNCHANGED <<drain, snapshot, db>>

-----------------------------------------------------------------------------
(* Actions of the engine and of the lifecycle. *)

(* updateState with an operational field, and no checkpoint yet. *)
UpdateState ==
  /\ Mutations < MaxMutations
  /\ MarkDirty
  /\ UNCHANGED <<drain, coordVars, trackVars, row, db, joined, settled>>

(* persistMessage, persistLog, persistToolCall: an upsert, or the eviction *)
(* of an entry, replaces the pending change of its key.  The queue is not  *)
(* told.                                                                   *)
PersistEntry(e) ==
  /\ Mutations < MaxMutations
  /\ nextVersion' = nextVersion + 1
  /\ entry' = [entry EXCEPT ![e] = nextVersion + 1]
  /\ changes' = [changes EXCEPT ![e] = nextVersion + 1]
  /\ UNCHANGED <<queueVars, coordVars, row, db, joined, settled>>

(* triggerPersistence *)
Trigger ==
  /\ Request(Memory, dirty)
  /\ UNCHANGED <<dirty, version, enabled, inputVersion, persistedInputVersion,
                 trackVars, row, settled>>

(* flush({ persistHarnessInputs: true }): an input receipt changed. *)
FlushInputs ==
  /\ Mutations < MaxMutations
  /\ dirty' = TRUE
  /\ version' = version + 1
  /\ inputVersion' = inputVersion + 1
  /\ Request([op |-> version + 1, inputs |-> inputVersion + 1, entry |-> entry], TRUE)
  /\ UNCHANGED <<enabled, persistedInputVersion, trackVars, row, settled>>

(* disable(): the engine is stopped, interrupted or about to be deleted. *)
Disable ==
  /\ enabled
  /\ enabled' = FALSE
  /\ UNCHANGED <<queueVars, inputVersion, persistedInputVersion, snapshot,
                 trackVars, row, db, joined, settled>>

(* markTaskDeleted, then purge, run by the lifecycle on the same row. *)
DeleteRow ==
  /\ \/ row = "live" /\ row' = "deleted"
     \/ row = "deleted" /\ row' = "missing"
  /\ UNCHANGED <<queueVars, coordVars, trackVars, db, joined, settled>>

(* The process dies and a new engine is built from the row.  Its counters   *)
(* really start again from 0; here they start from what the row holds, so  *)
(* that versions before and after compare.                                 *)
Restart ==
  /\ row = "live"
  /\ drain' = "idle"
  /\ requested' = FALSE
  /\ dirty' = FALSE
  /\ version' = db.op
  /\ enabled' = TRUE
  /\ inputVersion' = db.inputs
  /\ persistedInputVersion' = db.inputs
  /\ entry' = db.entry
  /\ changes' = NoChanges
  /\ UNCHANGED <<snapshot, nextVersion, row, db, joined, settled>>

-----------------------------------------------------------------------------
(* Continuations of the drain. *)

(* Mutant of Acknowledge: the operational state is marked clean whatever   *)
(* was mutated during the write.                                           *)
AcknowledgeBlindly ==
  /\ drain = "written"
  /\ drain' = "acknowledged"
  /\ changes' = [e \in Entries |-> IF changes[e] = snapshot.entry[e] THEN 0 ELSE changes[e]]
  /\ dirty' = FALSE
  /\ persistedInputVersion' = snapshot.inputs
  /\ UNCHANGED <<requested, version, enabled, inputVersion, snapshot, nextVersion, entry,
                 row, db, joined, settled>>

(* The write returned: forget the changes it contained, unless a newer     *)
(* mutation of the same key or of the operational state arrived.           *)
Acknowledge ==
  /\ drain = "written"
  /\ drain' = "acknowledged"
  /\ changes' = [e \in Entries |-> IF changes[e] = snapshot.entry[e] THEN 0 ELSE changes[e]]
  /\ dirty' = (dirty /\ version # snapshot.op)
  /\ requested' = (requested \/ version # snapshot.op)
  /\ persistedInputVersion' = snapshot.inputs
  /\ UNCHANGED <<version, enabled, inputVersion, snapshot, nextVersion, entry,
                 row, db, joined, settled>>

(* while (this.persistenceRequested) *)
LoopAgain ==
  /\ drain \in {"skipped", "acknowledged"}
  /\ requested
  /\ Pass(Memory, dirty)
  /\ UNCHANGED <<dirty, version, enabled, inputVersion, persistedInputVersion,
                 trackVars, row, joined, settled>>

(* The drain ends and the promise every caller shares resolves. *)
Resolve ==
  /\ drain \in {"skipped", "acknowledged"}
  /\ ~requested
  /\ drain' = "idle"
  /\ settled' = IF enabled /\ row = "live" THEN joined ELSE settled
  /\ UNCHANGED <<requested, dirty, version, coordVars, trackVars, row, db, joined>>

(* Mutant of Reject: the error of the write is logged and not rethrown. *)
RejectSwallowing ==
  /\ drain = "failed"
  /\ drain' = "idle"
  /\ settled' = joined
  /\ UNCHANGED <<requested, dirty, version, coordVars, trackVars, row, db, joined>>

(* The transaction threw: the drain's finally, and every caller's promise  *)
(* rejects.  A request made meanwhile stays set but nobody serves it.      *)
Reject ==
  /\ drain = "failed"
  /\ drain' = "idle"
  /\ UNCHANGED <<requested, dirty, version, coordVars, trackVars, row, db, joined, settled>>

Drain == Acknowledge \/ LoopAgain \/ Resolve \/ Reject

Next ==
  \/ UpdateState
  \/ \E e \in Entries : PersistEntry(e)
  \/ Trigger
  \/ FlushInputs
  \/ Disable
  \/ DeleteRow
  \/ Restart
  \/ Drain

Spec == Init /\ [][Next]_vars

(* Continuations of awaited promises always run.  Callers stop asking: the *)
(* loop serves every request it is given, so endless requests could hold   *)
(* it forever.                                                             *)
FairSpec == Spec /\ WF_vars(Drain)

-----------------------------------------------------------------------------

TypeOK ==
  /\ drain \in {"idle", "skipped", "written", "failed", "acknowledged"}
  /\ requested \in BOOLEAN
  /\ dirty \in BOOLEAN
  /\ version \in Nat
  /\ enabled \in BOOLEAN
  /\ inputVersion \in Nat
  /\ persistedInputVersion \in Nat
  /\ snapshot \in Content
  /\ nextVersion \in Nat
  /\ entry \in [Entries -> Nat]
  /\ changes \in [Entries -> 0 .. nextVersion]
  /\ row \in {"live", "deleted", "missing"}
  /\ db \in Content
  /\ joined \in Content
  /\ settled \in Content

(* No mutation is lost between memory and the row: whatever the row lacks  *)
(* is still marked for the next pass, also when it arrived while a write   *)
(* was in flight, and when that write failed.                              *)
NoLostMutation ==
  row = "live" =>
    /\ db.op < version => dirty
    /\ db.inputs < inputVersion => dirty /\ persistedInputVersion # inputVersion
    /\ \A e \in Entries : db.entry[e] < entry[e] => changes[e] = entry[e]

(* What a resolved checkpoint promised its caller is in the row, whatever  *)
(* was mutated, joined or written around it: an admission receipt flushed  *)
(* before a native call survives a crash after it.                         *)
PromisesAreDurable == Covered(settled, db)

(* A pass never replaces something the row holds by something older.       *)
RowNeverRegresses == [][Covered(db, db')]_vars

(* The queue implements the checkpoint it stands for. *)
Store == INSTANCE DurableStore
           WITH live <- Memory, durable <- db, acknowledged <- settled
ImplementsDurableStore == Store!Spec

(* Once callers stop asking, every promise handed out settles.             *)
CallersStopAsking == <>[][~(Trigger \/ FlushInputs)]_vars
EveryRequestSettles == CallersStopAsking => []<>(drain = "idle")

=============================================================================
