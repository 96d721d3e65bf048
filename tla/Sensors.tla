------------------------------- MODULE Sensors -------------------------------
(***************************************************************************)
(* /obs/sensors/summary (crates/obsfs-plugins/src/sensors/mod.rs): the     *)
(* temperatures of hwmon, each with its critical value, those of the       *)
(* thermal zones, which have none, and then the fans.  Every value is a    *)
(* file of its own; one that cannot be read or parsed leaves its sensor    *)
(* out.  The files temperatures and fans are the two parts of it.          *)
(***************************************************************************)
EXTENDS Integers, Sequences

CONSTANT Unreadable

Ok == 0
Warn == 1
Critical == 2
Silent == 3   \* no temperature could be read: no status, and no fans

(* The files in the order in which they are read.  What a critical value   *)
(* reads like does not matter if the temperature before it was unreadable. *)
Temperature == [temp1 |-> "crit1", temp2 |-> "crit2"]
Files == <<"temp1", "crit1", "temp2", "crit2", "zone", "fan">>

(* A comparison with a bug, not part of Level, and the one of the code:    *)
(* `value >= c`, `value >= c * 0.9`.                                       *)
Level_WarnFirst(value, c) ==
    IF c = Unreadable THEN Ok
    ELSE IF 10 * value >= 9 * c THEN Warn
    ELSE IF value >= c THEN Critical
    ELSE Ok

Level(value, c) ==
    IF c = Unreadable THEN Ok
    ELSE IF value >= c THEN Critical
    ELSE IF 10 * value >= 9 * c THEN Warn
    ELSE Ok

Report(readings) ==
    LET At(f) == readings[CHOOSE k \in DOMAIN Files : Files[k] = f]
        temps == {t \in DOMAIN Temperature : At(t) # Unreadable}
        levels == {Level(At(t), At(Temperature[t])) : t \in temps}
    IN  IF temps = {} /\ At("zone") = Unreadable
        THEN [status |-> Silent, fan |-> FALSE]
        ELSE [status |-> IF Critical \in levels THEN Critical
                         ELSE IF Warn \in levels THEN Warn ELSE Ok,
              fan |-> At("fan") # Unreadable]
==============================================================================
