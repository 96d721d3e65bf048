-------------------------------- MODULE Users --------------------------------
(***************************************************************************)
(* The handler of /obs/users (crates/obsfs-plugins/src/users/mod.rs) for   *)
(* one name: the listing is of the sessions who(1) shows, exists() looks   *)
(* for a line in /etc/passwd, and read() asks both, who(1) first.  A name  *)
(* is "in" or "out"; it has a "line" or "none", or the file cannot be      *)
(* read.                                                                   *)
(***************************************************************************)
EXTENDS Naturals, Sequences

CONSTANT Unreadable

exists(passwd) == passwd = "line"

(* A reading that asks /etc/passwd first, and that of the code: what a     *)
(* process asks that lists the directory, looks the name up, and reads the *)
(* file if it was found.  get_user_info() asks for a line only when there  *)
(* is no session, and then again for what the line says.                   *)
Plan_NoLookup(readings) ==
    CASE Len(readings) = 0 -> "who"
      [] Len(readings) = 1 -> "passwd"
      [] Len(readings) = 2 -> "who"
      [] Len(readings) = 3 -> "passwd"
      [] Len(readings) = 4 /\ readings[3] = "out" /\ readings[4] # "none" -> "passwd"
      [] OTHER -> "done"

Plan(readings) ==
    CASE Len(readings) = 0 -> "who"
      [] Len(readings) = 1 -> "passwd"
      [] Len(readings) = 2 /\ exists(readings[2]) -> "who"
      [] Len(readings) = 3 -> "passwd"
      [] Len(readings) = 4 /\ readings[3] = "out" /\ readings[4] # "none" -> "passwd"
      [] OTHER -> "done"

(* None when neither a session nor a line was found; an /etc/passwd that   *)
(* cannot be read denies nobody.                                           *)
Report(readings) ==
    LET read == Len(readings) > 2
    IN  [listed |-> readings[1] = "in", found |-> exists(readings[2]),
         answer |-> IF ~read \/ (readings[3] = "out" /\ readings[4] = "none") THEN "none"
                    ELSE readings[3],
         account |-> read /\ readings[Len(readings)] = "line"]
==============================================================================
