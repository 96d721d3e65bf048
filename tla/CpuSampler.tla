----------------------------- MODULE CpuSampler -----------------------------
(***************************************************************************)
(* The sampling thread of crates/obsfs-plugins/src/procsys/cpu.rs: it      *)
(* reads the counters of /proc/stat, and stores the share of the time that *)
(* was not idle since its last successful reading; collect() returns what  *)
(* is stored, without a lock.  A usage is kept exactly, as the pair of     *)
(* deltas it is the quotient of.                                           *)
(***************************************************************************)
EXTENDS Integers

CONSTANTS
    Step,        \* how far a counter moves between two steps
    MaxTicks     \* bound on every counter

ASSUME StepAssumption == Step \subseteq Nat
ASSUME BoundAssumption == MaxTicks \in Nat

VARIABLES
    busy,        \* user + nice + system + irq + softirq + steal
    idle,        \* the idle counter
    iowait,      \* the iowait counter: part of the total, not of the idle time
    sampled,     \* last_stat is Some
    last_stat,   \* the thread's last reading
    last_usage,  \* the deltas of the stored usage; both 0 for the initial 0.0
    shown,       \* what collect() returned last
    waited,      \* history: the iowait counter at the last reading
    first,       \* history: the first reading, or the last after iowait fell
    counted      \* history: the sum of all deltas stored since

counters == <<busy, idle, iowait>>
vars == <<counters, sampled, last_stat, last_usage, shown, waited, first, counted>>

Zero == [total |-> 0, idle |-> 0]
Stat == [total : Nat, idle : Nat]

(* A usage carries, as history, whether iowait was no less at the second   *)
(* reading than at the first.                                              *)
Usage == [total : Nat, idle : Nat, sound : BOOLEAN]
NoUsage == [total |-> 0, idle |-> 0, sound |-> TRUE]

saturating_sub(a, b) == IF a >= b THEN a - b ELSE 0

(* A parse_cpu_stat_from_path() that leaves the idle time out of the total *)
(* (a bug, not part of Spec), and the one of the code.                     *)
CpuStat_NoIdle == [total |-> busy + iowait, idle |-> idle]
CpuStat == [total |-> busy + idle + iowait, idle |-> idle]

DeltaFrom(s) == [total |-> saturating_sub(CpuStat.total, s.total),
                 idle |-> saturating_sub(CpuStat.idle, s.idle)]
Sound == iowait >= waited
UsageOf(d) == [total |-> d.total, idle |-> d.idle, sound |-> Sound]
Plus(u, v) == [total |-> u.total + v.total, idle |-> u.idle + v.idle]

(* 100 * (1 - idle / total) is within 0..100; 0.0 when the total stood.    *)
InRange(u) == u.total > 0 => u.idle <= u.total

-----------------------------------------------------------------------------
Init ==
    /\ busy \in 0 .. MaxTicks /\ idle \in 0 .. MaxTicks /\ iowait \in 0 .. MaxTicks
    /\ sampled = FALSE /\ last_stat = Zero
    /\ last_usage = NoUsage /\ shown = NoUsage
    /\ waited = 0 /\ first = Zero /\ counted = Zero

(* Time passes.  /proc/stat is read in one read(), so the counters belong  *)
(* together.  The iowait counter may go back, as proc(5) says of Linux.    *)
Tick(b, i, w) ==
    /\ busy' = busy + b /\ idle' = idle + i
    /\ \/ iowait' = iowait + w
       \/ w <= iowait /\ iowait' = iowait - w
    /\ busy' <= MaxTicks /\ idle' <= MaxTicks /\ iowait' <= MaxTicks
    /\ UNCHANGED <<sampled, last_stat, last_usage, shown, waited, first, counted>>

(* A Sample() in which a failed reading drops the last one (a bug, not     *)
(* part of Spec).                                                          *)
Sample_Drops(ok) ==
    /\ sampled' = ok
    /\ IF ok
       THEN /\ last_stat' = CpuStat /\ waited' = iowait
            /\ IF sampled
               THEN last_usage' = UsageOf(DeltaFrom(last_stat)) /\ counted' = Plus(counted, DeltaFrom(last_stat))
               ELSE UNCHANGED <<last_usage, counted>>
            /\ first' = IF counted = Zero /\ ~sampled THEN CpuStat ELSE first
       ELSE UNCHANGED <<last_stat, last_usage, waited, first, counted>>
    /\ UNCHANGED <<counters, shown>>

(* One round of sampling_thread().  The first reading is only kept; a      *)
(* reading that fails is logged, so that the next one looks further back.  *)
Sample(ok) ==
    /\ IF ok
       THEN /\ sampled' = TRUE /\ last_stat' = CpuStat /\ waited' = iowait
            /\ last_usage' = IF sampled THEN UsageOf(DeltaFrom(last_stat)) ELSE last_usage
            /\ IF sampled /\ Sound
               THEN counted' = Plus(counted, DeltaFrom(last_stat)) /\ UNCHANGED first
               ELSE counted' = Zero /\ first' = CpuStat
       ELSE UNCHANGED <<sampled, last_stat, last_usage, waited, first, counted>>
    /\ UNCHANGED <<counters, shown>>

collect ==
    /\ shown' = last_usage
    /\ UNCHANGED <<counters, sampled, last_stat, last_usage, waited, first, counted>>

Next ==
    \/ \E b, i, w \in Step : Tick(b, i, w)
    \/ \E ok \in BOOLEAN : Sample(ok)
    \/ collect

Spec == Init /\ [][Next]_vars

-----------------------------------------------------------------------------
TypeOK ==
    /\ busy \in Nat /\ idle \in Nat /\ iowait \in Nat
    /\ sampled \in BOOLEAN
    /\ last_stat \in Stat /\ last_usage \in Usage /\ shown \in Usage
    /\ waited \in Nat /\ first \in Stat /\ counted \in Stat

(* A reader never sees a usage outside 0..100, however the readings of the *)
(* thread fall between the ticks and whichever of them fail, unless iowait *)
(* went back between the two readings: the subtractions saturate one by    *)
(* one (cpu.rs:52-53), and do not keep the idle time below the total then. *)
(* It is the only exception, and over with the next reading.               *)
UsageInRange == shown.sound => InRange(shown)

(* No stretch of time is counted twice or left out: as long as iowait is   *)
(* never less than at the reading before, the deltas stored add up to the  *)
(* time from the first reading to the last, also across failed readings.   *)
NoTimeLost == sampled => Plus(first, counted) = last_stat
=============================================================================
