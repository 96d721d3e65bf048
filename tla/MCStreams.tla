------------------------------ MODULE MCStreams ------------------------------
(* Four entries, or contents of one to four bytes, by pages of one to      *)
(* three; two rows are those of failed units.                              *)
EXTENDS Streams

MCEntry == 1 .. 4
MCMarked == {2, 4}
MCSize == 1 .. 4
==============================================================================
