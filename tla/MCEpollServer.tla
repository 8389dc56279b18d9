--------------------------- MODULE MCEpollServer ---------------------------
(* Model values for the runs of EpollServer (server-3.c).                  *)
EXTENDS EpollServer

CONSTANTS c1, c2
=============================================================================
