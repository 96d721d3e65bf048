------------------------------ MODULE MCCollect ------------------------------
(* Readings on both sides of each threshold, nothing of nothing, and what  *)
(* cannot be read; two tables for each protocol with a port that can move  *)
(* from one to the other, and a port more than the summary shows.          *)
EXTENDS Collect

Part(u, t) == [used |-> u, total |-> t]
Row(n, p, s) == [id |-> n, port |-> p, state |-> s]

ssh == Row(1, 22, "LISTEN")
web == Row(2, 80, "LISTEN")
open == Row(3, 22, "ESTABLISHED")
dns == Row(4, 53, "UDP")
any == Row(5, 0, "UDP")

MCReading ==
    [health |->
        [cpu |-> {Part(139, 200), Part(140, 200), Part(200, 200), Part(5, 0)},
         memory |-> {Part(79, 100), Part(94, 100), Part(95, 100), Part(0, 0)},
         swap |-> {Part(9, 100), Part(10, 100), Part(50, 100), Part(0, 0)},
         disk |-> {Part(79, 100), Part(80, 100), Part(95, 100), Unreadable}],
     sensors |->
        [temp1 |-> {89, 90, 100, Unreadable}, crit1 |-> {100, Unreadable},
         temp2 |-> {-10, 0, 1, Unreadable}, crit2 |-> {0, Unreadable},
         zone |-> {100, Unreadable}, fan |-> {0, Unreadable}],
     connections |->
        [tcp |-> {{}, {ssh, open}, {web}, Unreadable},
         tcp6 |-> {{open}, {ssh}, {web, ssh}, Unreadable},
         udp |-> {{}, {dns, any}, Unreadable},
         udp6 |-> {{any}, {dns}}],
     services |-> [systemctl |-> S!State],
     users |-> [who |-> {"in", "out"}, passwd |-> {"line", "none", Unreadable}]]

MCMaxChanges ==
    [health |-> 1, sensors |-> 2, connections |-> 2, services |-> 3, users |-> 4]
==============================================================================
