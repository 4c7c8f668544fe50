------------------------ MODULE TaskPersistenceProofs ------------------------
(***************************************************************************)
(* The checkpoint queue keeps its promises for every set of transcript     *)
(* entries and every bound.  NoLostMutation and PromisesAreDurable are not *)
(* inductive: a resolution is safe only because of what the pass before it *)
(* captured and wrote, which IInv records.                                 *)
(***************************************************************************)
EXTENDS TaskPersistence, TLAPS

(* Memory never lags behind the row, and a pending change is the entry's   *)
(* latest version.                                                         *)
MemoryAhead ==
  /\ Covered(db, Memory)
  /\ persistedInputVersion <= inputVersion
  /\ \A e \in Entries : entry[e] <= nextVersion /\ changes[e] \in {0, entry[e]}

(* While a write waits for its acknowledgement, the snapshot is what the   *)
(* row now holds.                                                          *)
SnapshotWritten ==
  drain = "written" =>
    /\ snapshot.op <= version
    /\ snapshot.inputs <= inputVersion
    /\ version = snapshot.op => inputVersion = snapshot.inputs
    /\ row = "live" => Covered(snapshot, db)

(* A drain that may resolve has written all its callers asked for.         *)
JoinedServed ==
  /\ drain # "idle" => Covered(joined, Memory)
  /\ (/\ row = "live"
      /\ enabled
      /\ ~requested
      /\ drain \in {"skipped", "written", "acknowledged"}) => Covered(joined, db)

IInv ==
  /\ TypeOK
  /\ MemoryAhead
  /\ NoLostMutation
  /\ SnapshotWritten
  /\ JoinedServed
  /\ PromisesAreDurable

-----------------------------------------------------------------------------

LEMMA NothingWrittenType == NothingWritten \in Content /\ Covered(NothingWritten, NothingWritten)
  BY DEF NothingWritten, NoChanges, Content, Covered

LEMMA NoChangesType ==
  ASSUME NEW n \in Nat
  PROVE  NoChanges \in [Entries -> 0 .. n] /\ NoChanges \in [Entries -> Nat]
  BY DEF NoChanges

(* Coverage is reflexive and transitive on contents. *)
LEMMA CoveredReflexive == ASSUME NEW a \in Content PROVE Covered(a, a)
  BY DEF Content, Covered

LEMMA CoveredTransitive ==
  ASSUME NEW a \in Content, NEW b \in Content, NEW c \in Content,
         Covered(a, b), Covered(b, c)
  PROVE  Covered(a, c)
  <1>1. ASSUME NEW e \in Entries PROVE a.entry[e] <= c.entry[e]
    BY DEF Content, Covered
  <1>2. a.op <= c.op /\ a.inputs <= c.inputs
    BY DEF Content, Covered
  <1>3. QED
    BY <1>1, <1>2 DEF Covered

LEMMA MemoryType == TypeOK => Memory \in Content
  BY DEF TypeOK, Memory, Content

(* What one transaction does, for a memory mem that is at least the one    *)
(* the invariant speaks of: it is well typed, it moves the row forward,    *)
(* never past mem, and a live row then holds mem and the snapshot.         *)
LEMMA WriteLemma ==
  ASSUME IInv, NEW mem \in Content, Covered(Memory, mem), mem.entry = entry,
         mem.inputs = inputVersion \/ mem.inputs = inputVersion + 1
  PROVE  /\ Written(mem) \in Content
         /\ Covered(db, Written(mem))
         /\ Covered(Written(mem), mem)
         /\ row = "live" => Covered(mem, Written(mem))
         /\ row = "live" =>
              Covered([op |-> mem.op, inputs |-> mem.inputs, entry |-> changes], Written(mem))
  <1>1. /\ db \in Content
        /\ entry \in [Entries -> Nat]
        /\ changes \in [Entries -> Nat]
        /\ version \in Nat /\ inputVersion \in Nat /\ persistedInputVersion \in Nat
    BY DEF IInv, TypeOK
  <1>2. Covered(db, mem) /\ Covered(mem, mem) /\ Covered(db, db)
    BY <1>1, MemoryType, CoveredTransitive, CoveredReflexive DEF IInv, MemoryAhead
  <1>3. CASE row # "live"
    BY <1>1, <1>2, <1>3 DEF Written
  <1>4. CASE row = "live"
    <2> DEFINE columns ==
          [e \in Entries |-> IF changes[e] # 0 THEN changes[e] ELSE db.entry[e]]
    <2>1. ASSUME NEW e \in Entries
          PROVE  /\ columns[e] = entry[e]
                 /\ changes[e] <= entry[e]
                 /\ db.entry[e] <= entry[e]
      <3>1. /\ db.entry[e] \in Nat /\ entry[e] \in Nat /\ changes[e] \in Nat
            /\ db.entry[e] <= entry[e]
            /\ changes[e] \in {0, entry[e]}
            /\ db.entry[e] < entry[e] => changes[e] = entry[e]
        BY <1>1, <1>4 DEF IInv, MemoryAhead, NoLostMutation, Covered, Memory, Content
      <3>2. QED
        BY <3>1
    <2>2. columns \in [Entries -> Nat]
      BY <1>1, <2>1
    <2> DEFINE written == Written(mem)
    <2>3. /\ written.op = mem.op
          /\ written.inputs =
               IF mem.inputs # persistedInputVersion THEN mem.inputs ELSE db.inputs
          /\ written.entry = columns
          /\ written \in Content
      <3>1. written =
              [op     |-> mem.op,
               inputs |-> IF mem.inputs # persistedInputVersion THEN mem.inputs ELSE db.inputs,
               entry  |-> columns]
        BY <1>4 DEF Written
      <3>2. mem.op \in Nat /\ mem.inputs \in Nat /\ db.inputs \in Nat
        BY <1>1 DEF Content
      <3> HIDE DEF columns, written
      <3>3. QED
        BY <2>2, <3>1, <3>2 DEF Content
    <2> HIDE DEF written, columns
    <2>4. written.inputs = mem.inputs
      <3>1. db.inputs <= inputVersion /\ persistedInputVersion <= inputVersion
        BY DEF IInv, MemoryAhead, Covered, Memory
      <3>2. db.inputs < inputVersion => persistedInputVersion # inputVersion
        BY <1>4 DEF IInv, NoLostMutation
      <3>3. db.inputs \in Nat /\ mem.inputs \in Nat
        BY <1>1 DEF Content
      <3>4. QED
        BY <1>1, <2>3, <3>1, <3>2, <3>3
    <2>5. /\ Covered(written, mem) /\ Covered(mem, written)
      <3>1. \A e \in Entries : written.entry[e] = mem.entry[e] /\ mem.entry[e] \in Nat
        BY <1>1, <2>1, <2>3
      <3>2. written.op = mem.op /\ mem.op \in Nat /\ mem.inputs \in Nat
        BY <2>3 DEF Content
      <3>3. QED
        BY <2>4, <3>1, <3>2 DEF Covered
    <2>6. Covered([op |-> mem.op, inputs |-> mem.inputs, entry |-> changes], written)
      BY <1>1, <2>1, <2>3, <2>5 DEF Covered, Content
    <2>7. Covered(db, written)
      BY <1>1, <1>2, <2>3, <2>5, CoveredTransitive
    <2>8. QED
      BY <2>3, <2>5, <2>6, <2>7 DEF written
  <1>5. QED
    BY <1>3, <1>4

(* A turn of the drain preserves the invariant: it is the only step that   *)
(* writes.                                                                 *)
LEMMA PassPreserves ==
  ASSUME IInv, NEW mem \in Content, Covered(Memory, mem), mem.entry = entry,
         mem.inputs = inputVersion \/ mem.inputs = inputVersion + 1,
         NEW isDirty \in BOOLEAN, dirty => isDirty, isDirty \/ mem = Memory,
         version' = mem.op, inputVersion' = mem.inputs, dirty' = isDirty,
         Pass(mem, isDirty),
         UNCHANGED <<enabled, persistedInputVersion, trackVars, row, settled>>,
         joined' \in Content, Covered(joined', mem)
  PROVE  IInv'
  <1>1. TypeOK /\ MemoryAhead /\ NoLostMutation /\ PromisesAreDurable
    BY DEF IInv
  <1>2. UNCHANGED <<enabled, persistedInputVersion, nextVersion, entry, changes, row, settled>>
    BY DEF trackVars
  <1>3. /\ requested' = FALSE
        /\ snapshot' = [op |-> mem.op, inputs |-> mem.inputs, entry |-> changes]
    BY DEF Pass
  <1>4. Memory' = mem
    BY <1>2 DEF Memory, Content
  <1>5. /\ mem.op \in Nat /\ mem.inputs \in Nat
        /\ db.op \in Nat /\ db.inputs \in Nat /\ db.entry \in [Entries -> Nat]
        /\ version \in Nat /\ inputVersion \in Nat /\ inputVersion <= mem.inputs
        /\ version <= mem.op
    BY <1>1 DEF TypeOK, Content, Memory, Covered
  <1>6. snapshot' \in Content
    BY <1>1, <1>3, <1>5 DEF TypeOK, Content
  <1>7. \/ db' = db /\ drain' \in {"skipped", "failed"}
        \/ db' = Written(mem) /\ drain' = "written"
    BY DEF Pass
  <1>8. db' \in Content /\ Covered(db, db') /\ Covered(db', mem)
    <2>1. Covered(db, db)
      BY <1>1, CoveredReflexive DEF TypeOK
    <2>2. Covered(db, mem)
      BY <1>1, MemoryType, CoveredTransitive DEF TypeOK, MemoryAhead
    <2>3. QED
      BY <1>1, <1>7, <2>1, <2>2, WriteLemma DEF TypeOK
  <1>9. TypeOK'
    BY <1>1, <1>2, <1>3, <1>5, <1>6, <1>7, <1>8 DEF TypeOK
  <1>10. MemoryAhead'
    BY <1>1, <1>2, <1>4, <1>5, <1>8 DEF MemoryAhead, TypeOK, Covered
  <1>11. row = "live" /\ drain' = "written" => Covered(mem, db')
    BY <1>7, WriteLemma
  <1>12. NoLostMutation'
    <2>1. CASE drain' = "written"
      <3>1. row = "live" =>
              /\ mem.op <= db'.op /\ mem.inputs <= db'.inputs
              /\ \A e \in Entries : entry[e] <= db'.entry[e]
        BY <1>11, <2>1 DEF Covered
      <3>2. \A e \in Entries : entry[e] \in Nat /\ db'.entry[e] \in Nat
        BY <1>1, <1>8 DEF TypeOK, Content
      <3>3. db'.op \in Nat /\ db'.inputs \in Nat
        BY <1>8 DEF Content
      <3>4. QED
        BY <1>2, <1>5, <3>1, <3>2, <3>3 DEF NoLostMutation
    <2>2. CASE drain' # "written"
      <3>1. db' = db
        BY <1>7, <2>2
      <3>2. CASE mem = Memory
        BY <1>1, <1>2, <3>1, <3>2 DEF NoLostMutation, Memory
      <3>3. CASE isDirty /\ mem # Memory
        <4>1. row = "live" /\ db.inputs < mem.inputs => persistedInputVersion # mem.inputs
          BY <1>1, <1>5 DEF TypeOK, NoLostMutation, MemoryAhead
        <4>2. QED
          BY <1>1, <1>2, <3>1, <3>3, <4>1 DEF NoLostMutation
      <3>4. QED
        BY <3>2, <3>3
    <2>3. QED
      BY <2>1, <2>2
  <1>13. SnapshotWritten'
    <2>1. drain' = "written" /\ row = "live" => Covered(snapshot', db')
      BY <1>3, <1>7, WriteLemma
    <2>2. /\ snapshot'.op <= version'
          /\ snapshot'.inputs <= inputVersion'
          /\ inputVersion' = snapshot'.inputs
      BY <1>3, <1>5
    <2>3. QED
      BY <1>2, <2>1, <2>2 DEF SnapshotWritten, Covered
  <1>14. JoinedServed'
    <2>1. Covered(joined', Memory')
      BY <1>4
    <2>2. ASSUME row = "live", enabled, drain' = "written"
          PROVE  Covered(joined', db')
      BY <1>8, <1>11, <2>2, CoveredTransitive
    <2>3. ASSUME row = "live", enabled, drain' = "skipped"
          PROVE  Covered(joined', db')
      <3>1. NothingToWrite(isDirty) /\ db' = db
        BY <2>3 DEF Pass
      <3>2. ~isDirty /\ \A e \in Entries : changes[e] = 0
        BY <2>3, <3>1 DEF NothingToWrite
      <3>3. mem = Memory /\ ~dirty
        BY <3>2
      <3>4. \A e \in Entries : entry[e] \in Nat /\ db.entry[e] \in Nat
        BY <1>1, <1>5 DEF TypeOK
      <3>5. \A e \in Entries : entry[e] <= db.entry[e]
        BY <1>1, <2>3, <3>2, <3>4 DEF NoLostMutation, MemoryAhead
      <3>6. version <= db.op
        BY <1>1, <1>5, <2>3, <3>3 DEF NoLostMutation
      <3>7. inputVersion <= db.inputs
        BY <1>1, <1>5, <2>3, <3>3 DEF NoLostMutation
      <3>8. Covered(mem, db')
        BY <3>1, <3>3, <3>5, <3>6, <3>7 DEF Covered, Memory
      <3>9. QED
        BY <1>8, <3>8, CoveredTransitive
    <2>4. drain' \in {"skipped", "written", "failed"}
      BY <1>7
    <2>5. QED
      BY <1>2, <2>1, <2>2, <2>3, <2>4 DEF JoinedServed, Covered
  <1>15. PromisesAreDurable'
    BY <1>1, <1>2, <1>8, CoveredTransitive DEF PromisesAreDurable, TypeOK, Covered
  <1>16. QED
    BY <1>9, <1>10, <1>12, <1>13, <1>14, <1>15 DEF IInv

LEMMA InitEstablishes == Init => IInv
  <1> SUFFICES ASSUME Init PROVE IInv
    OBVIOUS
  <1>1. Memory = NothingWritten
    BY DEF Init, Memory, NothingWritten, NoChanges
  <1>2. TypeOK
    <2>1. changes \in [Entries -> 0 .. nextVersion] /\ entry \in [Entries -> Nat]
      BY NoChangesType DEF Init, NoChanges
    <2>2. QED
      BY <2>1, NothingWrittenType DEF Init, TypeOK
  <1>3. MemoryAhead /\ PromisesAreDurable
    BY <1>1, NothingWrittenType DEF Init, MemoryAhead, PromisesAreDurable, NoChanges
  <1>4. NoLostMutation /\ SnapshotWritten /\ JoinedServed
    BY DEF Init, NoLostMutation, SnapshotWritten, JoinedServed, NothingWritten, NoChanges
  <1>5. QED
    BY <1>2, <1>3, <1>4 DEF IInv

LEMMA NextPreserves == IInv /\ [Next]_vars => IInv'
  <1> SUFFICES ASSUME IInv, [Next]_vars PROVE IInv'
    OBVIOUS
  <1>t. /\ TypeOK /\ MemoryAhead /\ NoLostMutation /\ SnapshotWritten /\ JoinedServed
        /\ PromisesAreDurable
    BY DEF IInv
  <1>m. Memory \in Content /\ Covered(Memory, Memory)
    BY <1>t, MemoryType, CoveredReflexive
  <1>1. CASE UpdateState
    <2>1. /\ dirty' = TRUE /\ version' = version + 1
          /\ requested' = (requested \/ drain # "idle")
          /\ UNCHANGED <<drain, enabled, inputVersion, persistedInputVersion, snapshot,
                         nextVersion, entry, changes, row, db, joined, settled>>
      BY <1>1 DEF UpdateState, MarkDirty, coordVars, trackVars
    <2>2. TypeOK' /\ MemoryAhead' /\ NoLostMutation' /\ PromisesAreDurable'
      BY <1>t, <2>1 DEF TypeOK, MemoryAhead, NoLostMutation, PromisesAreDurable, Covered,
                        Memory, Content
    <2>3. SnapshotWritten' /\ JoinedServed'
      BY <1>t, <2>1 DEF TypeOK, SnapshotWritten, JoinedServed, Covered, Memory, Content
    <2>4. QED
      BY <2>2, <2>3 DEF IInv
  <1>2. ASSUME NEW e \in Entries, PersistEntry(e)
        PROVE  IInv'
    <2>1. /\ nextVersion' = nextVersion + 1
          /\ entry' = [entry EXCEPT ![e] = nextVersion + 1]
          /\ changes' = [changes EXCEPT ![e] = nextVersion + 1]
          /\ UNCHANGED <<drain, requested, dirty, version, enabled, inputVersion,
                         persistedInputVersion, snapshot, row, db, joined, settled>>
      BY <1>2 DEF PersistEntry, queueVars, coordVars
    <2>2. TypeOK'
      BY <1>t, <2>1 DEF TypeOK
    <2>3. \A f \in Entries :
            /\ entry'[f] \in Nat /\ entry[f] \in Nat /\ entry[f] <= entry'[f]
            /\ entry'[f] <= nextVersion' /\ changes'[f] \in {0, entry'[f]}
            /\ (entry'[f] = entry[f] /\ changes'[f] = changes[f]) \/ changes'[f] = entry'[f]
      BY <1>t, <2>1 DEF TypeOK, MemoryAhead
    <2>4. Memory' \in Content /\ Covered(Memory, Memory')
      BY <1>m, <2>1, <2>2, <2>3 DEF Memory, Covered, TypeOK, Content
    <2>5. MemoryAhead'
      BY <1>t, <1>m, <2>1, <2>3, <2>4, CoveredTransitive DEF MemoryAhead, TypeOK, Covered
    <2>6. NoLostMutation'
      BY <1>t, <2>1, <2>3 DEF NoLostMutation, TypeOK
    <2>7. drain # "idle" => Covered(joined, Memory')
      BY <1>t, <1>m, <2>4, CoveredTransitive DEF JoinedServed, TypeOK
    <2>8. SnapshotWritten' /\ JoinedServed' /\ PromisesAreDurable'
      BY <1>t, <2>1, <2>7 DEF SnapshotWritten, JoinedServed, PromisesAreDurable, Covered
    <2>9. QED
      BY <2>2, <2>5, <2>6, <2>8 DEF IInv
  <1>3. CASE Trigger
    <2>1. /\ Request(Memory, dirty)
          /\ UNCHANGED <<dirty, version, enabled, inputVersion, persistedInputVersion,
                         trackVars, row, settled>>
      BY <1>3 DEF Trigger
    <2>2. CASE Pass(Memory, dirty)
      <3>1. joined' = Memory
        BY <2>1 DEF Request
      <3>2. Memory.entry = entry /\ Memory.inputs = inputVersion /\ Memory.op = version
        BY DEF Memory
      <3>3. dirty \in BOOLEAN
        BY <1>t DEF TypeOK
      <3>4. QED
        BY <1>m, <2>1, <2>2, <3>1, <3>2, <3>3, PassPreserves
    <2>3. CASE ~Pass(Memory, dirty)
      <3>1. /\ joined' = Memory /\ requested' = TRUE
            /\ UNCHANGED <<drain, snapshot, db>>
        BY <2>1, <2>3 DEF Request
      <3>2. /\ UNCHANGED <<nextVersion, entry, changes>> /\ Memory' = Memory
        BY <2>1 DEF trackVars, Memory
      <3>3. TypeOK' /\ MemoryAhead' /\ NoLostMutation' /\ PromisesAreDurable'
        BY <1>t, <1>m, <2>1, <3>1, <3>2
           DEF TypeOK, MemoryAhead, NoLostMutation, PromisesAreDurable, Covered
      <3>4. SnapshotWritten' /\ JoinedServed'
        BY <1>t, <1>m, <2>1, <3>1, <3>2 DEF SnapshotWritten, JoinedServed, Covered
      <3>5. QED
        BY <3>3, <3>4 DEF IInv
    <2>4. QED
      BY <2>2, <2>3
  <1>4. CASE FlushInputs
    <2> DEFINE mem == [op |-> version + 1, inputs |-> inputVersion + 1, entry |-> entry]
    <2>1. /\ dirty' = TRUE /\ version' = version + 1 /\ inputVersion' = inputVersion + 1
          /\ Request(mem, TRUE)
          /\ UNCHANGED <<enabled, persistedInputVersion, trackVars, row, settled>>
      BY <1>4 DEF FlushInputs
    <2>2. /\ mem \in Content /\ Covered(Memory, mem) /\ Covered(mem, mem)
          /\ mem.entry = entry /\ mem.inputs = inputVersion + 1 /\ mem.op = version + 1
      BY <1>t DEF TypeOK, Content, Memory, Covered
    <2>3. joined' = mem
      BY <2>1 DEF Request
    <2> HIDE DEF mem
    <2>4. CASE Pass(mem, TRUE)
      BY <2>1, <2>2, <2>3, <2>4, PassPreserves
    <2>5. CASE ~Pass(mem, TRUE)
      <3>1. requested' = TRUE /\ UNCHANGED <<drain, snapshot, db>>
        BY <2>1, <2>5 DEF Request
      <3>2. UNCHANGED <<nextVersion, entry, changes>> /\ Memory' = mem
        BY <2>1 DEF trackVars, Memory, mem
      <3>3. Covered(db, mem)
        BY <1>t, <1>m, <2>2, CoveredTransitive DEF TypeOK, MemoryAhead
      <3>4. MemoryAhead' /\ PromisesAreDurable'
        BY <1>t, <2>1, <3>1, <3>2, <3>3
           DEF TypeOK, MemoryAhead, PromisesAreDurable, Covered
      <3>5. TypeOK' /\ NoLostMutation'
        BY <1>t, <2>1, <2>2, <2>3, <3>1, <3>2 DEF TypeOK, MemoryAhead, NoLostMutation
      <3>6. SnapshotWritten'
        BY <1>t, <2>1, <3>1 DEF TypeOK, Content, SnapshotWritten, Covered
      <3>7. JoinedServed'
        BY <2>2, <2>3, <3>1, <3>2 DEF JoinedServed, Covered
      <3>8. QED
        BY <3>4, <3>5, <3>6, <3>7 DEF IInv
    <2>6. QED
      BY <2>4, <2>5
  <1>5. CASE Disable \/ DeleteRow
    <2>1. /\ UNCHANGED <<drain, requested, dirty, version, inputVersion,
                         persistedInputVersion, snapshot, nextVersion, entry, changes,
                         db, joined, settled>>
          /\ \/ enabled' = FALSE /\ row' = row
             \/ enabled' = enabled /\ row = "live" /\ row' = "deleted"
             \/ enabled' = enabled /\ row = "deleted" /\ row' = "missing"
      BY <1>5 DEF Disable, DeleteRow, queueVars, coordVars, trackVars
    <2>2. TypeOK' /\ MemoryAhead' /\ NoLostMutation' /\ PromisesAreDurable'
      BY <1>t, <2>1 DEF TypeOK, MemoryAhead, NoLostMutation, PromisesAreDurable, Covered,
                        Memory
    <2>3. SnapshotWritten' /\ JoinedServed'
      BY <1>t, <2>1 DEF SnapshotWritten, JoinedServed, Covered, Memory
    <2>4. QED
      BY <2>2, <2>3 DEF IInv
  <1>6. CASE Restart
    <2>1. /\ drain' = "idle" /\ requested' = FALSE /\ dirty' = FALSE /\ enabled' = TRUE
          /\ version' = db.op /\ inputVersion' = db.inputs /\ entry' = db.entry
          /\ persistedInputVersion' = db.inputs /\ changes' = NoChanges
          /\ UNCHANGED <<snapshot, nextVersion, row, db, joined, settled>>
      BY <1>6 DEF Restart
    <2>2. /\ db.op \in Nat /\ db.inputs \in Nat /\ db.entry \in [Entries -> Nat]
      BY <1>t DEF TypeOK, Content
    <2>3. Covered(db, db)
      BY <1>t, CoveredReflexive DEF TypeOK
    <2>4. \A e \in Entries : db.entry[e] <= nextVersion
      BY <1>t, <2>2 DEF TypeOK, MemoryAhead, Covered, Memory
    <2>5. TypeOK'
      BY <1>t, <2>1, <2>2, NoChangesType DEF TypeOK
    <2>6. NoLostMutation'
      BY <2>1, <2>2 DEF NoLostMutation
    <2>7. MemoryAhead'
      BY <2>1, <2>2, <2>3, <2>4 DEF MemoryAhead, Covered, Memory, NoChanges
    <2>8. SnapshotWritten' /\ JoinedServed' /\ PromisesAreDurable'
      BY <1>t, <2>1 DEF SnapshotWritten, JoinedServed, PromisesAreDurable, Covered
    <2>9. QED
      BY <2>5, <2>6, <2>7, <2>8 DEF IInv
  <1>7. CASE Acknowledge
    <2>1. /\ drain = "written" /\ drain' = "acknowledged"
          /\ changes' = [e \in Entries |->
                           IF changes[e] = snapshot.entry[e] THEN 0 ELSE changes[e]]
          /\ dirty' = (dirty /\ version # snapshot.op)
          /\ requested' = (requested \/ version # snapshot.op)
          /\ persistedInputVersion' = snapshot.inputs
          /\ UNCHANGED <<version, enabled, inputVersion, snapshot, nextVersion, entry,
                         row, db, joined, settled>>
      BY <1>7 DEF Acknowledge
    <2>2. /\ snapshot.op \in Nat /\ snapshot.inputs \in Nat
          /\ snapshot.entry \in [Entries -> Nat]
          /\ db.op \in Nat /\ db.inputs \in Nat /\ db.entry \in [Entries -> Nat]
      BY <1>t DEF TypeOK, Content
    <2>3. TypeOK' /\ MemoryAhead' /\ PromisesAreDurable'
      BY <1>t, <2>1, <2>2
         DEF TypeOK, MemoryAhead, SnapshotWritten, PromisesAreDurable, Covered, Memory
    <2>4. NoLostMutation'
      <3> SUFFICES ASSUME row = "live" PROVE NoLostMutation'
        BY <2>1 DEF NoLostMutation
      <3>1. Covered(snapshot, db)
        BY <1>t, <2>1 DEF SnapshotWritten
      <3>2. \A e \in Entries : db'.entry[e] < entry'[e] => changes'[e] = entry'[e]
        BY <1>t, <2>1, <2>2, <3>1 DEF TypeOK, MemoryAhead, NoLostMutation, Covered
      <3>3. db'.op < version' => dirty'
        BY <1>t, <2>1, <2>2, <3>1 DEF TypeOK, NoLostMutation, Covered
      <3>4. db'.inputs < inputVersion' => dirty' /\ persistedInputVersion' # inputVersion'
        BY <1>t, <2>1, <2>2, <3>1 DEF TypeOK, NoLostMutation, SnapshotWritten, Covered
      <3>5. QED
        BY <3>2, <3>3, <3>4 DEF NoLostMutation
    <2>5. SnapshotWritten' /\ JoinedServed'
      BY <1>t, <2>1 DEF SnapshotWritten, JoinedServed, Covered, Memory
    <2>6. QED
      BY <2>3, <2>4, <2>5 DEF IInv
  <1>8. CASE LoopAgain
    <2>1. /\ drain # "idle" /\ Pass(Memory, dirty)
          /\ UNCHANGED <<dirty, version, enabled, inputVersion, persistedInputVersion,
                         trackVars, row, joined, settled>>
      BY <1>8 DEF LoopAgain
    <2>2. /\ Memory.entry = entry /\ Memory.inputs = inputVersion /\ Memory.op = version
          /\ dirty \in BOOLEAN /\ joined \in Content /\ Covered(joined, Memory)
      BY <1>t, <2>1 DEF Memory, TypeOK, JoinedServed
    <2>3. Covered(joined', Memory)
      BY <2>1, <2>2 DEF Covered
    <2>4. QED
      BY <1>m, <2>1, <2>2, <2>3, PassPreserves
  <1>9. CASE Resolve
    <2>1. /\ drain \in {"skipped", "acknowledged"} /\ ~requested /\ drain' = "idle"
          /\ settled' = IF enabled /\ row = "live" THEN joined ELSE settled
          /\ UNCHANGED <<requested, dirty, version, enabled, inputVersion,
                         persistedInputVersion, snapshot, nextVersion, entry, changes,
                         row, db, joined>>
      BY <1>9 DEF Resolve, coordVars, trackVars
    <2>2. Covered(settled', db)
      BY <1>t, <2>1 DEF JoinedServed, PromisesAreDurable
    <2>3. TypeOK' /\ MemoryAhead' /\ NoLostMutation'
      BY <1>t, <2>1 DEF TypeOK, MemoryAhead, NoLostMutation, Covered, Memory
    <2>4. SnapshotWritten' /\ JoinedServed' /\ PromisesAreDurable'
      BY <1>t, <2>1, <2>2 DEF SnapshotWritten, JoinedServed, PromisesAreDurable, Covered
    <2>5. QED
      BY <2>3, <2>4 DEF IInv
  <1>10. CASE Reject \/ UNCHANGED vars
    <2>1. /\ drain' \in {"idle", drain}
          /\ UNCHANGED <<requested, dirty, version, enabled, inputVersion,
                         persistedInputVersion, snapshot, nextVersion, entry, changes,
                         row, db, joined, settled>>
      BY <1>10 DEF Reject, vars, queueVars, coordVars, trackVars
    <2>2. TypeOK' /\ MemoryAhead' /\ NoLostMutation'
      BY <1>t, <2>1 DEF TypeOK, MemoryAhead, NoLostMutation, Covered, Memory
    <2>3. SnapshotWritten' /\ JoinedServed' /\ PromisesAreDurable'
      BY <1>t, <2>1 DEF SnapshotWritten, JoinedServed, PromisesAreDurable, Covered, Memory
    <2>4. QED
      BY <2>2, <2>3 DEF IInv
  <1>11. QED
    BY <1>1, <1>2, <1>3, <1>4, <1>5, <1>6, <1>7, <1>8, <1>9, <1>10 DEF Next, Drain

LEMMA Invariance == Spec => []IInv
  BY InitEstablishes, NextPreserves, PTL DEF Spec

-----------------------------------------------------------------------------

(* Every variable of the queue, the coordinator and the tracker keeps its  *)
(* type.                                                                   *)
THEOREM TypeCorrect == Spec => []TypeOK
  BY Invariance, PTL DEF IInv

(* No mutation is lost between memory and the row.                         *)
THEOREM NoMutationIsLost == Spec => []NoLostMutation
  BY Invariance, PTL DEF IInv

(* A resolved checkpoint is durable: no interleaving of mutations,         *)
(* requests, failed writes, restarts and a stop makes the queue resolve a  *)
(* promise the row does not keep.                                          *)
THEOREM ResolvedMeansDurable == Spec => []PromisesAreDurable
  BY Invariance, PTL DEF IInv

-----------------------------------------------------------------------------

(* Only a pass of the drain writes, and it moves the row forward.          *)
LEMMA StepWritesForward == IInv /\ [Next]_vars => Covered(db, db')
  <1> SUFFICES ASSUME IInv, [Next]_vars PROVE Covered(db, db')
    OBVIOUS
  <1>1. /\ Memory \in Content /\ Covered(Memory, Memory) /\ Covered(db, db)
        /\ Memory.entry = entry /\ Memory.inputs = inputVersion
    BY MemoryType, CoveredReflexive DEF IInv, TypeOK, Memory
  <1>2. ASSUME NEW mem \in Content, NEW isDirty, Covered(Memory, mem), mem.entry = entry,
               mem.inputs = inputVersion \/ mem.inputs = inputVersion + 1,
               Pass(mem, isDirty)
        PROVE  Covered(db, db')
    <2>1. db' = db \/ db' = Written(mem)
      BY <1>2 DEF Pass
    <2>2. QED
      BY <1>1, <1>2, <2>1, WriteLemma
  <1>3. CASE db' = db
    BY <1>1, <1>3
  <1>4. CASE Trigger \/ LoopAgain
    BY <1>1, <1>2, <1>4 DEF Trigger, LoopAgain, Request
  <1>5. CASE FlushInputs
    <2> DEFINE mem == [op |-> version + 1, inputs |-> inputVersion + 1, entry |-> entry]
    <2>1. /\ mem \in Content /\ Covered(Memory, mem)
          /\ mem.entry = entry /\ mem.inputs = inputVersion + 1
      BY DEF IInv, TypeOK, Content, Memory, Covered
    <2>2. Pass(mem, TRUE) \/ db' = db
      BY <1>5 DEF FlushInputs, Request
    <2> HIDE DEF mem
    <2>3. QED
      BY <1>1, <1>2, <2>1, <2>2
  <1>6. QED
    BY <1>3, <1>4, <1>5 DEF Next, Drain, UpdateState, PersistEntry, Disable, DeleteRow,
      Restart, Acknowledge, Resolve, Reject, vars, coordVars, trackVars

LEMMA StepImplements == IInv /\ IInv' /\ [Next]_vars => [Store!Next]_(Store!storeVars)
  <1> SUFFICES ASSUME IInv, IInv', [Next]_vars PROVE [Store!Next]_(Store!storeVars)
    OBVIOUS
  <1>1. /\ Memory \in Content /\ Memory' \in Content
        /\ db' \in Content /\ settled' \in Content
        /\ Covered(db, db') /\ Covered(Memory, Memory) /\ Covered(db', Memory')
    <2>1. Covered(db, Memory)'
      BY DEF IInv, MemoryAhead
    <2>2. Memory' \in Content
      BY DEF IInv, TypeOK, Memory, Content
    <2>3. QED
      BY <2>1, <2>2, MemoryType, CoveredReflexive, StepWritesForward
         DEF IInv, TypeOK, Covered
  <1>2. ASSUME Covered(Memory, Memory'), settled' = settled
        PROVE  Store!Advance
    BY <1>1, <1>2 DEF Store!Advance, Store!Covered, Store!Content, Covered, Content
  <1>3. CASE Resolve
    <2>1. Memory' = Memory /\ db' = db /\ Covered(settled, db)'
      BY <1>3 DEF Resolve, coordVars, trackVars, Memory, IInv, PromisesAreDurable
    <2>2. Store!Acknowledge
      BY <1>1, <2>1 DEF Store!Acknowledge, Store!Covered, Store!Content, Covered, Content
    <2>3. QED
      BY <2>2 DEF Store!Next
  <1>4. CASE Restart
    <2>1. /\ Memory' = [op |-> db.op, inputs |-> db.inputs, entry |-> db.entry]
          /\ db' = db /\ settled' = settled
      BY <1>4 DEF Restart, Memory
    <2>2. Memory' = db
      BY <2>1 DEF IInv, TypeOK, Content
    <2>3. QED
      BY <2>1, <2>2 DEF Store!Next, Store!Crash
  <1>5. CASE UpdateState \/ FlushInputs
    <2>1. /\ version' = version + 1 /\ inputVersion' \in {inputVersion, inputVersion + 1}
          /\ entry' = entry /\ settled' = settled
      BY <1>5 DEF UpdateState, FlushInputs, MarkDirty, coordVars, trackVars
    <2>2. Covered(Memory, Memory')
      BY <2>1 DEF IInv, TypeOK, Memory, Covered
    <2>3. QED
      BY <1>2, <2>1, <2>2 DEF Store!Next
  <1>6. ASSUME NEW e \in Entries, PersistEntry(e)
        PROVE  Store!Next
    <2>1. /\ UNCHANGED <<version, inputVersion, settled>>
          /\ entry' = [entry EXCEPT ![e] = nextVersion + 1]
      BY <1>6 DEF PersistEntry, queueVars, coordVars
    <2>2. \A f \in Entries : entry[f] <= entry'[f]
      BY <2>1 DEF IInv, TypeOK, MemoryAhead
    <2>3. Covered(Memory, Memory')
      BY <1>1, <2>1, <2>2 DEF Memory, Covered, Content
    <2>4. QED
      BY <1>2, <2>1, <2>3 DEF Store!Next
  <1>7. CASE Trigger \/ Disable \/ DeleteRow \/ Acknowledge \/ LoopAgain \/ Reject
             \/ UNCHANGED vars
    <2>1. UNCHANGED <<version, inputVersion, entry, settled>>
      BY <1>7 DEF Trigger, Disable, DeleteRow, Acknowledge, LoopAgain, Reject, vars,
        queueVars, coordVars, trackVars
    <2>2. Memory' = Memory
      BY <2>1 DEF Memory
    <2>3. QED
      BY <1>1, <1>2, <2>1, <2>2 DEF Store!Next
  <1>8. QED
    BY <1>3, <1>4, <1>5, <1>6, <1>7 DEF Next, Drain

(* What the row holds is never replaced by something older.                *)
THEOREM RowOnlyAdvances == Spec => RowNeverRegresses
  BY Invariance, StepWritesForward, PTL DEF Spec, RowNeverRegresses

(* The queue refines the abstract checkpoint: memory ahead of a store that *)
(* only advances, and acknowledgements only of what the store holds.       *)
THEOREM QueueImplementsStore == Spec => ImplementsDurableStore
  <1>1. Init => Store!Init
    <2>1. Init => Memory = NothingWritten
      BY DEF Init, Memory, NothingWritten, NoChanges
    <2>2. QED
      BY <2>1 DEF Init, Store!Init, Store!NothingWritten, Store!NoChanges, NothingWritten,
        NoChanges
  <1>2. QED
    BY <1>1, Invariance, StepImplements, PTL DEF Spec, Store!Spec, ImplementsDurableStore

=============================================================================
