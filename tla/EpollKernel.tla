----------------------------- MODULE EpollKernel -----------------------------
(***************************************************************************)
(* The environment of the epoll servers of this repository: the clients,   *)
(* the TCP connections they open to the listening socket, and the          *)
(* edge-triggered (EPOLLET) epoll instance the servers register their      *)
(* descriptors with.  None of this is code of the repository: it is the    *)
(* kernel interface the servers call (accept, recv, send, close,           *)
(* epoll_ctl, epoll_wait), modelled as far as the servers can tell.        *)
(*                                                                         *)
(* Bytes.  The n-th byte client c writes is the record Byte(c, n), so that *)
(* a byte that reaches the wrong client, twice, or out of order shows.     *)
(*                                                                         *)
(* Edges.  A registered descriptor enters the ready list when something    *)
(* happens that its mask waits for, and when epoll_ctl finds it ready.     *)
(* epoll_wait takes it off the list: a condition that merely persists is   *)
(* not reported again.                                                     *)
(***************************************************************************)
EXTENDS Naturals, Sequences, FiniteSets

CONSTANTS
    Clients,    (* the connections that will be opened, each one once       *)
    NoClient,   (* "no connection": the peer of a descriptor that is free   *)
    Fds,        (* the numbers accept can return (bounded by RLIMIT_NOFILE) *)
    LISTEN,     (* the listening descriptor, sfd in the servers             *)
    MaxBytes,   (* bound: how many bytes a client writes in its life        *)
    Window,     (* bound: how many bytes a client writes ahead of the echo  *)
    SndBuf,     (* bytes the kernel holds for a client that does not read   *)
    MaxEvents   (* the third argument of epoll_wait                         *)

ASSUME KernelAssumption ==
    /\ NoClient \notin Clients
    /\ Fds \subseteq Nat
    /\ LISTEN \notin Fds
    /\ MaxBytes \in Nat
    /\ Window \in Nat \ {0}
    /\ SndBuf \in Nat \ {0}
    /\ MaxEvents \in Nat \ {0}

VARIABLES
    phase,      (* what each client has done with its side of the connection *)
    wrote,      (* bytes each client has written                             *)
    taken,      (* of these, the bytes the server's recv has returned        *)
    echoed,     (* the bytes the server's send has accepted for each client  *)
    drained,    (* of these, how many the client has read                    *)
    backlog,    (* connections that wait for accept                          *)
    peer,       (* the connection each descriptor refers to                  *)
    interest,   (* the mask each descriptor is registered with; {} if none   *)
    ready       (* the ready list of the epoll instance                      *)

sockets == <<phase, wrote, taken, echoed, drained, backlog, peer>>
epoll   == <<interest, ready>>
kernel  == <<phase, wrote, taken, echoed, drained, backlog, peer, interest, ready>>

Phases == {"idle", "open", "shut", "reset", "closed"}
Masks  == {"IN", "OUT", "ERR"}      \* "ERR" stands for EPOLLERR and EPOLLHUP
Bytes  == [from : Clients \cup {NoClient}, pos : Nat]

Byte(c, n) == [from |-> c, pos |-> n]
NoByte     == Byte(NoClient, 0)
Watched    == Fds \cup {LISTEN}

KernelTypeOK ==
    /\ phase    \in [Clients -> Phases]
    /\ wrote    \in [Clients -> Nat]
    /\ taken    \in [Clients -> Nat]
    /\ echoed   \in [Clients -> Seq(Bytes)]
    /\ drained  \in [Clients -> Nat]
    /\ backlog  \in SUBSET Clients
    /\ peer     \in [Fds -> Clients \cup {NoClient}]
    /\ interest \in [Watched -> SUBSET {"IN", "OUT"}]
    /\ ready    \in SUBSET Watched

(* The servers call epoll_wait for the first time with the listening       *)
(* socket registered for EPOLLIN and nobody connected.                     *)
KernelInit ==
    /\ phase    = [c \in Clients |-> "idle"]
    /\ wrote    = [c \in Clients |-> 0]
    /\ taken    = [c \in Clients |-> 0]
    /\ echoed   = [c \in Clients |-> << >>]
    /\ drained  = [c \in Clients |-> 0]
    /\ backlog  = {}
    /\ peer     = [fd \in Fds |-> NoClient]
    /\ interest = [fd \in Watched |-> IF fd = LISTEN THEN {"IN"} ELSE {}]
    /\ ready    = {}

-----------------------------------------------------------------------------
(* What poll says of a descriptor.                                         *)

Unread(c) == wrote[c] - taken[c]
Room(c)   == SndBuf - (Len(echoed[c]) - drained[c])

Readable(c) == Unread(c) > 0 \/ phase[c] \in {"shut", "reset"}
Writable(c) == Room(c) > 0 \/ phase[c] = "reset"

PollConnection(c) ==
    {flag \in Masks : \/ flag = "IN"  /\ Readable(c)
                      \/ flag = "OUT" /\ Writable(c)
                      \/ flag = "ERR" /\ phase[c] = "reset"}

Poll(fd) ==
    IF fd = LISTEN THEN {flag \in {"IN"} : backlog # {}}
    ELSE IF peer[fd] = NoClient THEN {} ELSE PollConnection(peer[fd])

(* What epoll_wait would report for a descriptor registered with mask.     *)
Reports(fd, mask) == Poll(fd) \cap (mask \cup {"ERR"})
Revents(fd) == IF interest[fd] = {} THEN {} ELSE Reports(fd, interest[fd])

(* The ready list after an event on connection c that concerns flags.      *)
Wake(c, flags) ==
    ready \cup {fd \in Fds : peer[fd] = c /\ interest[fd] \cap flags # {}}

-----------------------------------------------------------------------------
(* The clients.                                                            *)

Connect(c) ==
    /\ phase[c] = "idle"
    /\ phase'   = [phase EXCEPT ![c] = "open"]
    /\ backlog' = backlog \cup {c}
    /\ ready'   = ready \cup {LISTEN}
    /\ UNCHANGED <<wrote, taken, echoed, drained, peer, interest>>

ClientWrite(c) ==
    /\ phase[c] = "open"
    /\ wrote[c] < MaxBytes
    /\ wrote[c] - Len(echoed[c]) < Window
    /\ wrote' = [wrote EXCEPT ![c] = @ + 1]
    /\ ready' = Wake(c, {"IN"})
    /\ UNCHANGED <<phase, taken, echoed, drained, backlog, peer, interest>>

ClientRead(c) ==
    /\ phase[c] \in {"open", "shut"}
    /\ drained[c] < Len(echoed[c])
    /\ drained' = [drained EXCEPT ![c] = @ + 1]
    /\ ready'   = IF Room(c) = 0 THEN Wake(c, {"OUT"}) ELSE ready
    /\ UNCHANGED <<phase, wrote, taken, echoed, backlog, peer, interest>>

ClientShutdown(c) ==
    /\ phase[c] = "open"
    /\ phase' = [phase EXCEPT ![c] = "shut"]
    /\ ready' = Wake(c, {"IN"})
    /\ UNCHANGED <<wrote, taken, echoed, drained, backlog, peer, interest>>

ClientReset(c) ==
    /\ phase[c] \in {"open", "shut"}
    /\ phase' = [phase EXCEPT ![c] = "reset"]
    /\ ready' = Wake(c, {"IN", "OUT"})
    /\ UNCHANGED <<wrote, taken, echoed, drained, backlog, peer, interest>>

ClientStep(c) ==
    \/ Connect(c)
    \/ ClientWrite(c)
    \/ ClientRead(c)
    \/ ClientShutdown(c)
    \/ ClientReset(c)

-----------------------------------------------------------------------------
(* The system calls of the servers, as the actions they are part of use    *)
(* them.  Each names the kernel variables it changes.                      *)

IsFree(fd) == peer[fd] = NoClient
IsLowestFree(fd) == IsFree(fd) /\ \A g \in Fds : IsFree(g) => fd <= g

(* epoll_wait: as many of the descriptors with something to report as fit. *)
Reportable == {fd \in ready : Revents(fd) # {}}
Batches ==
    {S \in SUBSET Reportable :
        /\ S # {}
        /\ Cardinality(S) <= MaxEvents
        /\ Cardinality(S) = MaxEvents \/ S = Reportable}

(* epoll_ctl(EPOLL_CTL_MOD): arms fd with mask, and looks once.            *)
EpollMod(fd, mask) ==
    /\ interest' = [interest EXCEPT ![fd] = mask]
    /\ ready'    = IF Reports(fd, mask) # {} THEN ready \cup {fd} ELSE ready

(* accept alone, and accept followed by epoll_ctl(EPOLL_CTL_ADD).          *)
Accept(c, fd) ==
    /\ c \in backlog
    /\ IsLowestFree(fd)
    /\ backlog' = backlog \ {c}
    /\ peer'    = [peer EXCEPT ![fd] = c]

AcceptAndAdd(c, fd, mask) ==
    /\ Accept(c, fd)
    /\ interest' = [interest EXCEPT ![fd] = mask]
    /\ ready'    = IF PollConnection(c) \cap (mask \cup {"ERR"}) # {}
                   THEN ready \cup {fd} ELSE ready

AcceptFails == backlog = {} \/ \A fd \in Fds : ~IsFree(fd)

(* close: the descriptor leaves the epoll instance, the connection ends.   *)
Close(fd) ==
    /\ phase'    = [phase EXCEPT ![peer[fd]] = "closed"]
    /\ peer'     = [peer EXCEPT ![fd] = NoClient]
    /\ interest' = [interest EXCEPT ![fd] = {}]
    /\ ready'    = ready \ {fd}
=============================================================================
