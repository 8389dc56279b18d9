---------------------------- MODULE MCRestServer ----------------------------
(* Model values for the runs of RestServer (server-4.c).                   *)
EXTENDS RestServer

CONSTANTS c1, c2
=============================================================================
