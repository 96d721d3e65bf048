---------------------------- MODULE MCCpuSampler ----------------------------
(* Every counter stands or moves by one or two.                            *)
EXTENDS CpuSampler

MCStep == 0 .. 2
=============================================================================
