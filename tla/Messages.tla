------------------------------ MODULE Messages ------------------------------
(***************************************************************************)
(* src/dependencies/message.h: the callbacks of the HTTP parser, which     *)
(* collect a request in messages[num_messages].  num_messages is never     *)
(* advanced and nothing is ever cleared, so messages[0] is the only one    *)
(* used, and it goes on with every request of every client.  A piece of    *)
(* text the parser hands to a callback is the byte of the request it       *)
(* starts with; the texts of one element are kept in the order of strncat. *)
(***************************************************************************)
EXTENDS Naturals, Sequences

(* enum { NONE, FIELD, VALUE } last_header_element                         *)
HeaderElements == {"NONE", "FIELD", "VALUE"}

EmptyMessage ==
    [begun |-> FALSE, url |-> << >>, headers |-> << >>, last |-> "NONE",
     body |-> << >>, complete |-> FALSE]

MessageTypeOK(m, Text) ==
    m \in [begun : BOOLEAN, url : Seq(Text), body : Seq(Text), complete : BOOLEAN,
           headers : Seq([name : Seq(Text), value : Seq(Text)]), last : HeaderElements]

my_message_begin(m) == [m EXCEPT !.begun = TRUE]

my_url(m, p) == [m EXCEPT !.url = Append(@, p)]

(* A piece that follows another piece of a name belongs to the same name.  *)
LongerName(headers, p)  == [headers EXCEPT ![Len(headers)].name = Append(@, p)]
LongerValue(headers, p) == [headers EXCEPT ![Len(headers)].value = Append(@, p)]

my_header_field(m, p) ==
    [m EXCEPT
        !.headers = IF m.last = "FIELD"
                    THEN LongerName(@, p)
                    ELSE Append(@, [name |-> <<p>>, value |-> << >>]),
        !.last = "FIELD"]

my_header_value_field(m, p) ==      \* mutant: last_header_element is left alone
    [m EXCEPT !.headers = LongerValue(@, p)]

my_header_value(m, p) ==
    [m EXCEPT !.headers = LongerValue(@, p), !.last = "VALUE"]

my_body(m, p) == [m EXCEPT !.body = Append(@, p)]

my_message_complete(m) == [m EXCEPT !.complete = TRUE]

-----------------------------------------------------------------------------
(* http_parser_execute (external) goes through the text it is given.  What *)
(* it is given may end anywhere; a request is cut in two here, in front of *)
(* the end of a header's name (inName) or of its value.  Of an element     *)
(* that is cut, each part is handed to the callback.                       *)
ParseHead(m, p, inName) ==
    LET named == my_header_field(my_url(my_message_begin(m), p), p)
    IN  IF inName THEN named ELSE my_header_value(named, p)

ParseTail(m, p, inName) ==
    LET named == IF inName THEN my_header_field(m, p) ELSE m
    IN  my_message_complete(my_body(my_header_value(named, p), p))

(* The two parts of requests alternate: the parser stops at the k-th piece *)
(* if it is not what has to follow.                                        *)
Follows(k, part) == part = IF k % 2 = 1 THEN "head" ELSE "tail"

(* What it makes of the k-th piece.                                        *)
Execute(m, k, p, inName) ==
    IF k % 2 = 1 THEN ParseHead(m, p, inName) ELSE ParseTail(m, p, inName)
=============================================================================
