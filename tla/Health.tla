------------------------------- MODULE Health -------------------------------
(***************************************************************************)
(* /obs/health (crates/obsfs-plugins/src/health/mod.rs): four checks, one  *)
(* after the other, each of a reading taken at its own time, and a report  *)
(* of the worst.  Module Collect makes the readings.                       *)
(*                                                                         *)
(* A reading is a part of a whole: the load of the cores, both in          *)
(* hundredths, or what is used of the total.  What cannot be read is 0 of  *)
(* 0, except for the cores, of which there is then one, and for the disk,  *)
(* which is then unreadable.                                               *)
(***************************************************************************)
EXTENDS Naturals, Sequences, FiniteSets

CONSTANT Unreadable   \* the disk reading when statvfs() fails

Check == <<"cpu", "memory", "swap", "disk">>

(* The thresholds in percent, and the statuses in the order of the enum.   *)
warn == [cpu |-> 70, memory |-> 80, swap |-> 10, disk |-> 80]
critical == [cpu |-> 100, memory |-> 95, swap |-> 50, disk |-> 95]
Ok == 0
Warn == 1
Critical == 2

AtLeast(r, percent) == 100 * r.used >= percent * r.total

(* The status of a check.  Nothing of nothing is 0% of a memory, and not a *)
(* number for a load on no cores, which is at no threshold; some load on   *)
(* no cores is infinite.                                                   *)
Status(c, r) ==
    IF r = Unreadable THEN Warn
    ELSE IF r.total = 0 /\ (c # "cpu" \/ r.used = 0) THEN Ok
    ELSE IF AtLeast(r, critical[c]) THEN Critical
    ELSE IF AtLeast(r, warn[c]) THEN Warn
    ELSE Ok

Worst(S) == CHOOSE s \in S : \A t \in S : t <= s
Statuses(readings) == [k \in DOMAIN readings |-> Status(Check[k], readings[k])]
Bad(statuses) == {Check[k] : k \in {j \in DOMAIN statuses : statuses[j] # Ok}}

(* A report that takes two warnings for critical, one of the last check    *)
(* instead of the worst (bugs, not part of Report), and the one of the     *)
(* code.                                                                   *)
Report_Escalates(readings) ==
    LET res == Statuses(readings)
    IN  [status |-> IF Cardinality(Bad(res)) > 1 THEN Critical
                    ELSE Worst({res[k] : k \in DOMAIN res}),
         issues |-> Bad(res)]
Report_Last(readings) ==
    LET res == Statuses(readings) IN [status |-> res[Len(res)], issues |-> Bad(res)]

Report(readings) ==
    LET res == Statuses(readings)
    IN  [status |-> Worst({res[k] : k \in DOMAIN res}), issues |-> Bad(res)]
=============================================================================
