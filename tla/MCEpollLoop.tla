----------------------------- MODULE MCEpollLoop -----------------------------
(* Model values for the run of EpollLoop (epoll.c).                        *)
EXTENDS EpollLoop

CONSTANTS c1, c2
=============================================================================
