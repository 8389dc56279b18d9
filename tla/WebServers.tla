----------------------------- MODULE WebServers -----------------------------
(***************************************************************************)
(* The three servers with one shared buffer.  version says which program   *)
(* runs:                                                                   *)
(*    - "server-2", the module SharedBuffServer;                           *)
(*    - "server-4", src/src/bak/server-4.c: before it sends, it runs the   *)
(*      HTTP parser over data, as a request and as a response, with the    *)
(*      callbacks of message.h;                                            *)
(*    - "server-5", src/src/bak/server-5.c: the same with global buffers,  *)
(*      an asynchronous-I/O context that is set up and never used, and a   *)
(*      stray accept before every read.                                    *)
(* What a client writes is a sequence of requests of two bytes each.  The  *)
(* first is the request up to a point inside the name of its header or     *)
(* inside the header's value, as CutInName says, the second the rest of    *)
(* it.  A request that is read in two parts is handed to the parser in two *)
(* parts, each to a fresh parser, which refuses a rest.                    *)
(***************************************************************************)
EXTENDS SharedBuffServer, Messages

CONSTANT CutInName      \* which clients of which program cut in the name

(* A full buffer ends with a request or within one, as BUFFLEN is 4096 and *)
(* a request two bytes.                                                    *)
ASSUME WebAssumption == BUFFLEN % 2 = 0

VARIABLES
    version,    (* the program that runs                                    *)
    message,    (* messages[0]                                              *)
    parsed      (* how many pieces of data the parser has been through      *)

webVars == <<vars, version, message, parsed>>

Versions  == {"server-2", "server-4", "server-5"}
WebLabels == Labels \cup {"aio", "accept", "parse"}

WebTypeOK ==
    /\ KernelTypeOK
    /\ ProcessTypeOK(WebLabels)
    /\ BuffTypeOK
    /\ version \in Versions
    /\ MessageTypeOK(message, Bytes)
    /\ parsed \in Nat

WebInit ==
    /\ Init
    /\ version \in Versions
    /\ message = EmptyMessage
    /\ parsed = 0

-----------------------------------------------------------------------------
(* bak/server-4.c: server-2 with the parser between strlen and send.       *)

Part(byte) ==
    IF byte.from \notin Clients THEN "none"
    ELSE IF byte.pos % 2 = 1 THEN "head" ELSE "tail"

InName(byte) == <<version, byte.from>> \in CutInName

(* http_parser_execute(parser, &settings, data, data_len) as HTTP_REQUEST, *)
(* piece by piece; as HTTP_RESPONSE the parser refuses the first byte of a *)
(* request and calls nothing.                                              *)
ParseThenSend(e) ==
    /\ "IN" \notin e.ev
    /\ "OUT" \in e.ev
    /\ EnterWrite(e, "parse")
    /\ UNCHANGED <<message, parsed>>

MoreToParse == parsed < data_len /\ Follows(parsed + 1, Part(DataAt(parsed + 1)))

ParseData ==
    /\ pc = "parse"
    /\ MoreToParse
    /\ LET piece == DataAt(parsed + 1)
       IN  message' = Execute(message, parsed + 1, piece, InName(piece))
    /\ parsed' = parsed + 1
    /\ UNCHANGED vars

ParseEnds ==
    /\ pc = "parse"
    /\ ~MoreToParse
    /\ pc' = "send"
    /\ parsed' = 0
    /\ UNCHANGED <<kernel, batch, cur, cnt, buffers, message>>

Parsing == ParseData \/ ParseEnds \/ \E e \in batch : ParseThenSend(e)

Server4Loop ==
    \/ StartUp
    \/ Loop
    \/ \E e \in batch : Listen(e)

Server4Read == Reading \/ \E e \in batch : HandleIn(e)

Server4 ==
    \/ (Server4Loop \/ Server4Read \/ Writing) /\ UNCHANGED <<message, parsed>>
    \/ Parsing

-----------------------------------------------------------------------------
(* bak/server-5.c: eventfd, io_setup and the registration of the eventfd   *)
(* follow the start of the others.  Nothing is ever submitted to the       *)
(* context, so the eventfd never becomes readable.                         *)
AioSetUp ==
    /\ pc = "aio"
    /\ \/ pc' = "wait"
       \/ Faults /\ pc' = "exit"
    /\ UNCHANGED <<kernel, batch, cur, cnt, buffers>>

Server5Start ==
    /\ pc = "start"
    /\ \/ pc' = "aio"
       \/ Faults /\ pc' = "exit"
    /\ UNCHANGED <<kernel, batch, cur, cnt, buffers>>

(* In front of every read it accepts on the listening socket and drops the *)
(* descriptor, or the error when nobody waits.                             *)
AcceptStray ==
    /\ pc = "accept"
    /\ \/ \E c \in backlog, fd \in Fds :
             Accept(c, fd) /\ UNCHANGED <<phase, wrote, taken, echoed, drained, epoll>>
       \/ AcceptFails /\ UNCHANGED kernel
    /\ pc' = "recv"
    /\ UNCHANGED <<batch, cur, cnt, buffers>>

AcceptThenRead(e) == "IN" \in e.ev /\ EnterRead(e, "accept")

Server5Loop ==
    \/ Server5Start
    \/ AioSetUp
    \/ Loop
    \/ \E e \in batch : Listen(e)

Server5Read == Reading \/ AcceptStray \/ \E e \in batch : AcceptThenRead(e)

Server5 ==
    \/ (Server5Loop \/ Server5Read \/ Writing) /\ UNCHANGED <<message, parsed>>
    \/ Parsing

-----------------------------------------------------------------------------
WebServer ==
    /\ \/ version = "server-2" /\ Server /\ UNCHANGED <<message, parsed>>
       \/ version = "server-4" /\ Server4
       \/ version = "server-5" /\ Server5
    /\ UNCHANGED version

WebEnvironment == Environment /\ UNCHANGED <<version, message, parsed>>

WebNext == WebServer \/ WebEnvironment

WebSpec == WebInit /\ [][WebNext]_webVars

-----------------------------------------------------------------------------
(* Two pieces that follow each other in a request.                         *)
Continues(first, second) ==
    second.from = first.from /\ second.pos = first.pos + 1

(* A value is stored with the name it has in its request, although the     *)
(* requests of all clients go into the same headers, in parts, and some of *)
(* them twice: its pieces are consecutive pieces of one request, and the   *)
(* name it is with ends with the whole name of that request.  What may be  *)
(* in front of that name are names that were cut, of other requests: they  *)
(* stay behind (my_header_field goes on with the last name), but never     *)
(* with a value of theirs.                                                 *)
ValueOK(value) ==
    \/ Len(value) = 1
    \/ Len(value) = 2 /\ Part(value[1]) = "head" /\ Continues(value[1], value[2])

(* A value that begins in a tail has a name that began in the head.        *)
OwnPieces(piece) == IF Part(piece) = "head" THEN 1 ELSE 2

NameOK(name, piece) ==
    /\ Len(name) >= OwnPieces(piece)
    /\ name[Len(name)] = piece
    /\ Part(piece) = "tail" => Continues(name[Len(name) - 1], piece)
    /\ \A i \in 1..(Len(name) - OwnPieces(piece)) : InName(name[i]) /\ Part(name[i]) = "head"

HeadersPaired ==
    \A i \in DOMAIN message.headers :
        LET name  == message.headers[i].name
            value == message.headers[i].value
        IN  value # << >> => ValueOK(value) /\ NameOK(name, value[1])
=============================================================================
