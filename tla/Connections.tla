----------------------------- MODULE Connections -----------------------------
(***************************************************************************)
(* /obs/connections (crates/obsfs-plugins/src/connections/mod.rs).  Each   *)
(* provider reads the tables of the kernel one after the other: tcp and    *)
(* tcp6, then udp and udp6 where they are asked for.  A table that cannot  *)
(* be read counts as empty.  A row is a socket: its number, its local port *)
(* and its state.                                                          *)
(***************************************************************************)
EXTENDS Naturals, Sequences, FiniteSets

CONSTANTS
    Unreadable,
    Top         \* how many listeners the summary shows: 10

Files == <<"tcp", "tcp6", "udp", "udp6">>

Rows(table) == IF table = Unreadable THEN {} ELSE table

(* read_tcp(), read_udp(): the rows of the one table and then of the       *)
(* other, told apart by their table.                                       *)
ReadPair(one, other) ==
    {<<1, row>> : row \in Rows(one)} \cup {<<2, row>> : row \in Rows(other)}
InState(pairs, state) == {x \in pairs : x[2].state = state}

(* Ports with a bug, the second table in place of both, not part of Ports; *)
(* and those of the code, sorted and without duplicates.                   *)
Ports_LastTable(pairs, state) == {x[2].port : x \in {y \in InState(pairs, state) : y[1] = 2}}
Ports(pairs, state) == {x[2].port : x \in InState(pairs, state)}

(* What listening, established and summary say.                            *)
Report(readings) ==
    LET tcp == ReadPair(readings[1], readings[2])
        udp == ReadPair(readings[3], readings[4])
        listeners == Ports(tcp, "LISTEN")
        shown == {p \in listeners : Cardinality({q \in listeners : q < p}) < Top}
    IN  [listening |-> listeners,
         udp_ports |-> Ports(udp, "UDP") \ {0},
         established |-> Cardinality(InState(tcp, "ESTABLISHED")),
         shown |-> shown,
         more |-> IF Cardinality(listeners) > Top THEN Cardinality(listeners) - Top ELSE 0]
==============================================================================
