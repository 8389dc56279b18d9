------------------------------- MODULE AioTest -------------------------------
(***************************************************************************)
(* src/test/src/aio.c: one asynchronous write, whose completion main waits *)
(* for twice: for its event in io_getevents, and for isCallback, which     *)
(* aio_callback sets.  io_getevents returns events and calls no callback   *)
(* (io_queue_run would): aio_callback never runs, the second wait never    *)
(* ends, and what is behind it is left out.                                *)
(***************************************************************************)
EXTENDS Naturals

VARIABLES
    io,         (* where main is                                            *)
    ctx,        (* the io_context_t                                         *)
    file,       (* output_fd                                                *)
    write       (* the write: "none", "submitted", "written" (its event is  *)
                (* there), "collected"                                      *)

aioVars == <<io, ctx, file, write>>

AioTypeOK ==
    /\ io \in {"setup", "open", "submit", "getevents", "spin", "error"}
    /\ ctx \in {"none", "set up", "destroyed"}
    /\ file \in {"none", "open", "closed"}
    /\ write \in {"none", "submitted", "written", "collected"}

AioInit ==
    /\ io = "setup"
    /\ ctx = "none"
    /\ file = "none"
    /\ write = "none"

(* An io_setup that fails is printed, and the program goes on.             *)
IoSetup ==
    /\ io = "setup"
    /\ ctx' \in {"none", "set up"}
    /\ io' = "open"
    /\ UNCHANGED <<file, write>>

Destroyed == IF ctx = "none" THEN "none" ELSE "destroyed"

Open ==
    /\ io = "open"
    /\ \/ io' = "submit" /\ file' = "open" /\ UNCHANGED ctx
       \/ io' = "error" /\ ctx' = Destroyed /\ UNCHANGED file
    /\ UNCHANGED write

IoSubmit ==
    /\ io = "submit"
    /\ \/ ctx = "set up" /\ io' = "getevents" /\ write' = "submitted" /\ UNCHANGED ctx
       \/ io' = "error" /\ ctx' = Destroyed /\ UNCHANGED write
    /\ UNCHANGED file

(* The kernel.                                                             *)
Complete ==
    /\ write = "submitted"
    /\ write' = "written"
    /\ UNCHANGED <<io, ctx, file>>

IoGetEventsOnce ==          \* mutant: the event is not waited for again
    /\ io = "getevents"
    /\ IF write = "written" THEN write' = "collected" /\ file' = "closed"
                            ELSE UNCHANGED <<write, file>>
    /\ io' = "spin"
    /\ UNCHANGED ctx

(* io_getevents; after half a second without an event, again.              *)
IoGetEvents ==
    /\ io = "getevents"
    /\ write = "written"
    /\ write' = "collected"
    /\ file' = "closed"
    /\ io' = "spin"
    /\ UNCHANGED ctx

AioMain == IoSetup \/ Open \/ IoSubmit \/ IoGetEvents
AioNext == AioMain \/ Complete

-----------------------------------------------------------------------------
(* The event of the write is not missed, whichever side is first.          *)
WriteIsCollected == (write = "submitted") ~> (write = "collected")
=============================================================================
