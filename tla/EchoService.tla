----------------------------- MODULE EchoService -----------------------------
(***************************************************************************)
(* What the echo servers promise their clients, with no descriptor, event  *)
(* or buffer in sight: a client that is served gets back the bytes it      *)
(* wrote, in their order and without a gap, a few at a time; its           *)
(* connection is ended only after it ended it, and, when it merely shut    *)
(* down its side, only after its last byte was answered.                   *)
(***************************************************************************)
EXTENDS Naturals, Sequences

CONSTANT Clients

VARIABLES
    phase,      (* "idle", "open", "shut", "reset", "closed"                *)
    served,     (* the clients whose connection the server has accepted     *)
    asked,      (* how many bytes each client has written                   *)
    answer      (* the bytes it has been sent                               *)

vars == <<phase, served, asked, answer>>

Byte(c, n) == [from |-> c, pos |-> n]

Init ==
    /\ phase  = [c \in Clients |-> "idle"]
    /\ served = {}
    /\ asked  = [c \in Clients |-> 0]
    /\ answer = [c \in Clients |-> << >>]

Dial(c) ==
    /\ phase[c] = "idle"
    /\ phase' = [phase EXCEPT ![c] = "open"]
    /\ UNCHANGED <<served, asked, answer>>

Ask(c) ==
    /\ phase[c] = "open"
    /\ asked' = [asked EXCEPT ![c] = @ + 1]
    /\ UNCHANGED <<phase, served, answer>>

Leave(c) ==
    /\ \/ phase[c] = "open" /\ phase' = [phase EXCEPT ![c] = "shut"]
       \/ phase[c] \in {"open", "shut"} /\ phase' = [phase EXCEPT ![c] = "reset"]
    /\ UNCHANGED <<served, asked, answer>>

Serve(c) ==
    /\ phase[c] \in {"open", "shut", "reset"}
    /\ c \notin served
    /\ served' = served \cup {c}
    /\ UNCHANGED <<phase, asked, answer>>

Answer(c) ==
    /\ c \in served
    /\ phase[c] \in {"open", "shut"}
    /\ \E n \in (Len(answer[c]) + 1)..asked[c] :
        answer' = [answer EXCEPT ![c] = [k \in 1..n |-> Byte(c, k)]]
    /\ UNCHANGED <<phase, served, asked>>

End(c) ==
    /\ c \in served
    /\ phase[c] = "reset" \/ (phase[c] = "shut" /\ Len(answer[c]) = asked[c])
    /\ phase'  = [phase EXCEPT ![c] = "closed"]
    /\ served' = served \ {c}
    /\ UNCHANGED <<asked, answer>>

Next == \E c \in Clients :
    \/ Dial(c)
    \/ Ask(c)
    \/ Leave(c)
    \/ Serve(c)
    \/ Answer(c)
    \/ End(c)

Spec == Init /\ [][Next]_vars

(* The server keeps answering and ending as long as it can.                *)
FairSpec == Spec /\ \A c \in Clients : WF_vars(Answer(c)) /\ WF_vars(End(c))
=============================================================================
