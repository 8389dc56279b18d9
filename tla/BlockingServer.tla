---------------------------- MODULE BlockingServer ----------------------------
(***************************************************************************)
(* src/src/server-1.c, which serves one connection after the other with    *)
(* blocking calls, and src/src/client.c, which sends a line and waits for  *)
(* the answer.  The server reads to the end of a connection before it      *)
(* answers; every read overwrites the start of buff, which is never        *)
(* cleared, and strlen says how much of it is the answer.                  *)
(*                                                                         *)
(* Clients in Interactive run client.c; the others write what they like,   *)
(* NUL bytes too, and end their side or are killed when they like.         *)
(***************************************************************************)
EXTENDS Naturals, Sequences

CONSTANTS
    Guests,         (* the clients                                          *)
    Nobody,         (* the connection of descriptor -1                      *)
    Interactive,    (* those that run client.c                              *)
    BuffLen,        (* BUFFLEN                                              *)
    Reach,          (* bound: how far behind buff the next NUL is           *)
    MaxSent         (* bound: bytes a client sends                          *)

ASSUME BlockingAssumption ==
    /\ Interactive \subseteq Guests
    /\ Nobody \notin Guests
    /\ BuffLen \in Nat \ {0}
    /\ Reach \in Nat
    /\ MaxSent \in Nat

VARIABLES
    server,         (* where the server is                                  *)
    cfd,            (* the connection it serves                             *)
    buff,           (* its buffer                                           *)
    chunk,          (* history: what the last read on cfd returned          *)
    queued,         (* connections that wait for accept, in order           *)
    side,           (* what each client did with its side                   *)
    sent,           (* bytes it sent                                        *)
    unread,         (* of these, those the server has not read              *)
    answer,         (* what the server sent it                              *)
    served,         (* the connections the server has closed                *)
    step            (* where a client.c is                                  *)

serverVars == <<server, cfd, buff, chunk>>
guestVars  == <<queued, side, sent, unread, answer, served, step>>
blockingVars == <<serverVars, guestVars>>

NUL  == <<Nobody, 0>>
Dirt == <<Nobody, 1>>       \* a byte of memory nobody wrote

Running == server \notin {"start", "exit", "killed"}

BlockingTypeOK ==
    /\ server \in {"start", "accept", "read", "send", "close", "exit", "killed"}
    /\ cfd \in Guests \cup {Nobody}
    /\ DOMAIN buff = 1..BuffLen
    /\ \A c \in Guests : c \in served => side[c] # "new" /\ cfd # c
    /\ Len(chunk) <= BuffLen

BlockingInit ==
    /\ server = "start"
    /\ cfd = Nobody
    /\ \E n \in 0..BuffLen : buff = [i \in 1..BuffLen |-> IF i <= n THEN Dirt ELSE NUL]
    /\ chunk = << >>
    /\ queued = << >>
    /\ side = [c \in Guests |-> "new"]
    /\ sent = [c \in Guests |-> 0]
    /\ unread = [c \in Guests |-> << >>]
    /\ answer = [c \in Guests |-> << >>]
    /\ served = {}
    /\ step = [c \in Guests |-> IF c \in Interactive THEN "connect" ELSE "other"]

-----------------------------------------------------------------------------
(* server-1.c                                                              *)

StartServer ==
    /\ server = "start"
    /\ server' \in {"accept", "exit"}
    /\ UNCHANGED <<cfd, buff, chunk, guestVars>>

AcceptGuest ==
    /\ server = "accept"
    /\ queued # << >>
    /\ cfd' = Head(queued)
    /\ queued' = Tail(queued)
    /\ chunk' = << >>
    /\ server' = "read"
    /\ UNCHANGED <<buff, side, sent, unread, answer, served, step>>

(* A connection may be gone before it is accepted (ECONNABORTED).  The     *)
(* server goes on with descriptor -1.                                      *)
AcceptAborted ==
    /\ server = "accept"
    /\ queued # << >>
    /\ side[Head(queued)] = "reset"
    /\ served' = served \cup {Head(queued)}
    /\ queued' = Tail(queued)
    /\ chunk' = << >>
    /\ server' = "read"
    /\ UNCHANGED <<cfd, buff, side, sent, unread, answer, step>>

Ended == {Nobody} \cup {c \in Guests : side[c] \in {"shut", "reset"}}
Drained == {Nobody} \cup {c \in Guests : side[c] = "reset" \/ unread[c] = << >>}

(* read returns what is there, as far as it fits.                          *)
ReadInto(start, room) ==
    /\ server = "read"
    /\ cfd # Nobody
    /\ \E n \in 1..Len(unread[cfd]) :
        /\ n <= room
        /\ chunk' = SubSeq(unread[cfd], 1, n)
        /\ buff' = [i \in DOMAIN buff |->
                        IF i \in (start + 1)..(start + n) THEN chunk'[i - start] ELSE buff[i]]
        /\ unread' = [unread EXCEPT ![cfd] = SubSeq(@, n + 1, Len(@))]
    /\ UNCHANGED <<server, cfd, queued, side, sent, answer, served, step>>

ReadBehind ==       \* mutant: reads behind the last chunk
    ReadInto(Len(chunk) % BuffLen, BuffLen - (Len(chunk) % BuffLen))

ReadOver ==         \* mutant: room for a byte too many
    ReadInto(0, BuffLen + 1)

Read == ReadInto(0, BuffLen)

ReadAgain ==        \* mutant: read is repeated on its error, too
    /\ server = "read"
    /\ cfd \in {c \in Guests : side[c] = "shut"} \cap Drained
    /\ server' = "send"
    /\ UNCHANGED <<cfd, buff, chunk, guestVars>>

(* The end of the connection, or its error, which may lose what was sent.  *)
ReadEnd ==
    /\ server = "read"
    /\ cfd \in Ended \cap Drained
    /\ server' = "send"
    /\ UNCHANGED <<cfd, buff, chunk, guestVars>>

(* strlen: up to the first NUL, which may lie behind a full buffer.        *)
Lengths ==
    LET ends == {i \in DOMAIN buff : buff[i] = NUL}
    IN  IF ends = {} THEN BuffLen..(BuffLen + Reach)
        ELSE {i - 1 : i \in {j \in ends : \A k \in ends : j <= k}}

(* A send on a connection that was reset raises SIGPIPE, which server-1.c  *)
(* does not ignore.                                                        *)
SendAnswer ==
    /\ server = "send"
    /\ \/ /\ cfd # Nobody /\ side[cfd] = "reset"
          /\ server' = "killed"
          /\ UNCHANGED answer
       \/ /\ cfd # Nobody /\ side[cfd] = "shut"
          /\ \E n \in Lengths :
                answer' = [answer EXCEPT ![cfd] =
                              [i \in 1..n |-> IF i \in DOMAIN buff THEN buff[i] ELSE Dirt]]
          /\ server' = "close"
       \/ /\ cfd = Nobody          \* EBADF
          /\ server' = "close"
          /\ UNCHANGED answer
    /\ UNCHANGED <<cfd, buff, chunk, queued, side, sent, unread, served, step>>

CloseGuest ==
    /\ server = "close"
    /\ served' = IF cfd = Nobody THEN served ELSE served \cup {cfd}
    /\ cfd' = Nobody
    /\ server' = "accept"
    /\ UNCHANGED <<buff, chunk, queued, side, sent, unread, answer, step>>

Server1 ==
    \/ StartServer
    \/ AcceptGuest
    \/ AcceptAborted
    \/ Read
    \/ ReadEnd
    \/ SendAnswer
    \/ CloseGuest

-----------------------------------------------------------------------------
(* Any client.                                                             *)

ConnectGuest(c) ==
    /\ side[c] = "new"
    /\ Running
    /\ side' = [side EXCEPT ![c] = "open"]
    /\ queued' = Append(queued, c)

Sends(c, bytes) ==
    /\ sent' = [sent EXCEPT ![c] = @ + Len(bytes)]
    /\ unread' = [unread EXCEPT ![c] = @ \o bytes]

(* The next n bytes of c that are not NUL.                                 *)
Line(c, n) == [i \in 1..n |-> <<c, sent[c] + i>>]

Ends(c, how) == side' = [side EXCEPT ![c] = how]

OtherGuest(c) ==
    /\ step[c] = "other"
    /\ \/ ConnectGuest(c) /\ UNCHANGED <<sent, unread>>
       \/ /\ side[c] = "open"
          /\ sent[c] < MaxSent
          /\ Sends(c, Line(c, 1)) \/ Sends(c, <<NUL>>)
          /\ UNCHANGED <<queued, side>>
       \/ side[c] = "open" /\ Ends(c, "shut") /\ UNCHANGED <<queued, sent, unread>>
       \/ side[c] \in {"open", "shut"} /\ c \notin served /\ Ends(c, "reset")
          /\ UNCHANGED <<queued, sent, unread>>
    /\ UNCHANGED <<serverVars, answer, served, step>>

-----------------------------------------------------------------------------
(* client.c                                                                *)

GoOn(c, label) == step' = [step EXCEPT ![c] = label]

(* A connect that fails is printed, and the loop entered all the same.     *)
client_connect(c) ==
    /\ step[c] = "connect"
    /\ \/ ConnectGuest(c)
       \/ ~Running /\ UNCHANGED <<side, queued>>
    /\ GoOn(c, "gets")
    /\ UNCHANGED <<serverVars, sent, unread, answer, served>>

(* A line of stdin, maybe an empty one, sent at once up to its first NUL;  *)
(* or the end of stdin.                                                    *)
(* Without a connection, or on one the server has gone from, send raises   *)
(* SIGPIPE (on the latter only if its reset has arrived).                  *)
client_send(c) ==
    /\ step[c] = "gets"
    /\ IF side[c] = "open" /\ Running
       THEN /\ \E n \in 0..(MaxSent - sent[c]) : Sends(c, Line(c, n))
            /\ GoOn(c, "recv")
       ELSE /\ GoOn(c, "killed") \/ (side[c] = "open" /\ GoOn(c, "recv"))
            /\ UNCHANGED <<sent, unread>>
    /\ UNCHANGED <<serverVars, queued, side, answer, served>>

(* recv waits for an answer, or for the end of the connection.             *)
client_recv(c) ==
    /\ step[c] = "recv"
    /\ answer[c] # << >> \/ c \in served \/ ~Running
    /\ GoOn(c, "gets")
    /\ UNCHANGED <<serverVars, queued, side, sent, unread, answer, served>>

(* The end of stdin, or the user kills the client in its recv.             *)
client_close(c) ==
    /\ step[c] \in {"gets", "recv"}
    /\ GoOn(c, "end")
    /\ side' = [side EXCEPT ![c] = IF @ = "open" THEN "shut" ELSE @]
    /\ UNCHANGED <<serverVars, queued, sent, unread, answer, served>>

ClientProgram(c) == client_connect(c) \/ client_send(c) \/ client_recv(c)

BlockingNext ==
    \/ Server1
    \/ \E c \in Guests : OtherGuest(c) \/ ClientProgram(c) \/ client_close(c)

-----------------------------------------------------------------------------
(* The answer holds what the last read on the connection returned up to    *)
(* the first NUL the client sent, at the same places, and ends there:      *)
(* strlen looks at the buffer, not at what read returned (server-1.c:77),  *)
(* and what the buffer held before, of this request, of the requests       *)
(* before it or of nobody, neither hides a byte nor goes before one.       *)
AnswerHoldsLastRead ==
    server = "close" /\ cfd # Nobody =>
        \A n \in 1..Len(chunk) :
            IF \A i \in 1..n : chunk[i] # NUL
            THEN n <= Len(answer[cfd]) /\ answer[cfd][n] = chunk[n]
            ELSE Len(answer[cfd]) < n

(* The server gets around to every client that ended its side, as long as  *)
(* those before it end theirs, and unless it is killed on the way.         *)
EndedIsServed ==
    (\A c \in Guests : (side[c] = "open") ~> (side[c] # "open"))
        => \A c \in Guests : (side[c] \in {"shut", "reset"}) ~> (c \in served \/ ~Running)

(* "--------recv" is followed by "--------msg:".                           *)
EveryRecvReturns ==
    \A c \in Interactive : (step[c] = "recv") ~> (step[c] # "recv")
=============================================================================
