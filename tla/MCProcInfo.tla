----------------------------- MODULE MCProcInfo -----------------------------
(* Two numbers, taken by up to three processes one after the other; the    *)
(* files in the order of the code ("net" reads the fd directory again).    *)
EXTENDS ProcInfo

MCSource == <<"comm", "status", "stat", "cmdline", "cwd", "fd", "limits", "net">>
MCGuarded == {"cwd", "fd", "net"}
=============================================================================
