---------------------------- MODULE MCInodeTable ----------------------------
(* A small table: the root and two more paths, a clock of three readings.  *)
EXTENDS InodeTable

MCTime == 0 .. 2
MCAge == {0, 1}
=============================================================================
