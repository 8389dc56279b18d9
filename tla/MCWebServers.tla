---------------------------- MODULE MCWebServers ----------------------------
(* Model values and symmetry for the runs of WebServers (server-2.c,       *)
(* bak/server-4.c and bak/server-5.c).                                     *)
EXTENDS WebServers, TLC

CONSTANTS c1, c2

(* Requests are cut in a name with server-4, in a value with server-5.     *)
MCCutInName == {"server-4"} \X Clients

Symmetry == Permutations(Clients)
=============================================================================
