------------------------------ MODULE MCSession ------------------------------
(* Two processes, two mount points, two users: enough for one process to   *)
(* be mounted on the other, and for each to know the mount of the other    *)
(* after one was started again.                                            *)
EXTENDS Session

CONSTANTS s1, s2, c1, c2, p1, p2

MCServer == {s1, s2}
MCClient == {c1, c2}
MCPoint == {p1, p2}
MCHidden == {}
MCMaxMounts == [p \in MCPoint |-> IF p = p1 THEN 2 ELSE 1]
==============================================================================
