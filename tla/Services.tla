------------------------------ MODULE Services ------------------------------
(***************************************************************************)
(* The handler of /obs/services (crates/obsfs-plugins/src/services/mod.rs) *)
(* for one unit.  Each of its methods runs systemctl once, and they take   *)
(* its output for different things.  What systemctl has to say of a unit:  *)
(*   "loaded"    it runs or ran, and is listed by its name                 *)
(*   "marked"    it failed: its line in the list starts with a mark        *)
(*   "unknown"   there is no such unit; `show` says so and succeeds        *)
(*   "failing"   systemctl runs and fails, as without systemd              *)
(*   "missing"   there is no systemctl                                     *)
(***************************************************************************)
EXTENDS Naturals, Sequences

State == {"loaded", "marked", "unknown", "failing", "missing"}

(* The first word of a line is taken for the name.                         *)
listed(s) == s = "loaded"

(* exists() with a bug, that a mark hides a unit, not part of exists; and  *)
(* that of the code, whatever does not contain "not-found".                *)
exists_ByList(s) == s \in {"loaded", "failing"}
exists(s) == s \in {"loaded", "marked", "failing"}

(* collect_for_service() looks at the exit status only.                    *)
answers(s) == s \in {"loaded", "marked", "unknown"}

(* A process lists the directory, looks the name up, and reads the file if *)
(* it was found.                                                           *)
Plan(readings) ==
    IF Len(readings) < 2 \/ (Len(readings) = 2 /\ exists(readings[2])) THEN "systemctl" ELSE "done"
Report(readings) ==
    [listed |-> listed(readings[1]), found |-> exists(readings[2]),
     answer |-> Len(readings) = 3 /\ answers(readings[3])]
=============================================================================
