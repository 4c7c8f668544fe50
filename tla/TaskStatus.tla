----------------------------- MODULE TaskStatus -----------------------------
(***************************************************************************)
(* The status table of core/task-state-machine.ts.  assertValidTransition  *)
(* throws on every pair the table does not list.                           *)
(***************************************************************************)

Statuses ==
  {"idle", "draft", "planning", "starting", "running", "waiting", "completed",
   "stopped", "failed", "max_iterations", "resolving_conflicts",
   "accepted_local", "merged", "pushed", "deleted"}

(* TRANSITION_TABLE. *)
Targets ==
  [idle                |-> {"starting", "planning", "draft", "deleted"},
   draft               |-> {"idle", "starting", "planning", "deleted"},
   planning            |-> {"starting", "completed", "stopped", "failed", "deleted"},
   starting            |-> {"running", "resolving_conflicts", "failed", "stopped", "deleted"},
   running             |-> {"completed", "stopped", "failed", "max_iterations", "deleted"},
   waiting             |-> {"running", "completed", "stopped", "failed", "max_iterations",
                            "deleted"},
   completed           |-> {"accepted_local", "pushed", "deleted", "resolving_conflicts",
                            "starting", "idle", "stopped", "planning"},
   stopped             |-> {"starting", "planning", "completed", "deleted", "stopped"},
   failed              |-> {"completed", "deleted", "stopped", "planning"},
   max_iterations      |-> {"accepted_local", "pushed", "deleted", "resolving_conflicts",
                            "stopped", "planning"},
   resolving_conflicts |-> {"starting", "stopped", "failed", "pushed", "completed",
                            "max_iterations", "deleted"},
   accepted_local      |-> {"pushed", "deleted", "idle", "resolving_conflicts",
                            "accepted_local"},
   merged              |-> {"deleted"},
   pushed              |-> {"merged", "deleted", "idle", "resolving_conflicts", "pushed",
                            "starting"},
   deleted             |-> {"stopped", "planning"}]

(* isValidTransition. *)
Legal(from, to) == to \in Targets[from]

(* What TaskEngine.updateState accepts: the table is asked only when the   *)
(* status changes.                                                         *)
Accepts(from, to) == from = to \/ Legal(from, to)

=============================================================================
