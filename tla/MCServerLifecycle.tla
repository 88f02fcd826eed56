-------------------------- MODULE MCServerLifecycle --------------------------
(* ServerLifecycle on small instances: three PIDs, so that two commands race *)
(* with a server, and with each other, over the same lock and files.         *)
EXTENDS ServerLifecycle, TLC

CONSTANTS p1, p2, p3

MCPid == {p1, p2, p3}

(* Crashes anywhere, and crashes of servers only.                          *)
MCAnywhere == Label
MCServers  == Holding

(* PIDs are interchangeable: nothing orders them.                          *)
MCSymmetry == Permutations(MCPid)
=============================================================================
