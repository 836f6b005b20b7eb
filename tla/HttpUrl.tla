------------------------------- MODULE HttpUrl -------------------------------
(***************************************************************************)
(* The URL parser of http_parser.c: the character automaton that requests  *)
(* share, and http_parser_parse_url on top of it.  A text is a sequence of *)
(* characters, a field of it <<off, len>>.                                 *)
(***************************************************************************)
EXTENDS Integers, Sequences, SequencesExt, TLC

CR == "CR"
LF == "LF"
Digits == <<"0", "1", "2", "3", "4", "5", "6", "7", "8", "9">>
Uppers == {"A", "B", "C", "D", "E", "F", "G", "H", "I", "J", "K", "L", "M", "N", "O",
           "P", "Q", "R", "S", "T", "U", "V", "W", "X", "Y", "Z"}
Lowers == {"a", "b", "c", "d", "e", "f", "g", "h", "i", "j", "k", "l", "m", "n", "o",
           "p", "q", "r", "s", "t", "u", "v", "w", "x", "y", "z"}

IS_ALPHA(c) == c \in Uppers \cup Lowers
IS_NUM(c) == c \in ToSet(Digits)
IS_ALPHANUM(c) == IS_ALPHA(c) \/ IS_NUM(c)
IS_HEX(c) == IS_NUM(c) \/ c \in {"a", "b", "c", "d", "e", "f", "A", "B", "C", "D", "E", "F"}
IS_MARK(c) == c \in {"-", "_", ".", "!", "~", "*", "'", "(", ")"}
IS_USERINFO_CHAR(c) ==
  IS_ALPHANUM(c) \/ IS_MARK(c) \/ c \in {"%", ";", ":", "&", "=", "+", "$", ","}
IS_HOST_CHAR(c) == IS_ALPHANUM(c) \/ c \in {".", "-"}
IS_URL_CHAR(c) == c \notin {"HT", " ", "#", "?", CR, LF}

\* The state after one character of a URL.
parse_url_char(s, ch) ==
  CASE ch \in {" ", "HT", CR, LF} -> "s_dead"
    [] s = "s_req_spaces_before_url" /\ ch \in {"/", "*"} -> "s_req_path"
    [] s = "s_req_spaces_before_url" /\ IS_ALPHA(ch) -> "s_req_schema"
    [] s = "s_req_schema" /\ IS_ALPHA(ch) -> s
    [] s = "s_req_schema" /\ ch = ":" -> "s_req_schema_slash"
    [] s = "s_req_schema_slash" /\ ch = "/" -> "s_req_schema_slash_slash"
    [] s = "s_req_schema_slash_slash" /\ ch = "/" -> "s_req_server_start"
    [] s = "s_req_server_with_at" /\ ch = "@" -> "s_dead"
    [] s \in {"s_req_server_with_at", "s_req_server_start", "s_req_server"} /\ ch = "/" ->
         "s_req_path"
    [] s \in {"s_req_server_with_at", "s_req_server_start", "s_req_server"} /\ ch = "?" ->
         "s_req_query_string_start"
    [] s \in {"s_req_server_start", "s_req_server"} /\ ch = "@" -> "s_req_server_with_at"
    [] s \in {"s_req_server_with_at", "s_req_server_start", "s_req_server"}
       /\ (IS_USERINFO_CHAR(ch) \/ ch \in {"[", "]"}) -> "s_req_server"
    [] s = "s_req_path" /\ IS_URL_CHAR(ch) -> s
    [] s = "s_req_path" /\ ch = "?" -> "s_req_query_string_start"
    [] s \in {"s_req_path", "s_req_query_string_start", "s_req_query_string"} /\ ch = "#" ->
         "s_req_fragment_start"
    [] s \in {"s_req_query_string_start", "s_req_query_string"} /\ ch # "#" -> "s_req_query_string"
    [] s = "s_req_fragment_start" /\ ch = "#" -> s
    [] s \in {"s_req_fragment_start", "s_req_fragment"} -> "s_req_fragment"
    [] OTHER -> "s_dead"

\* The state after one character of the server part.
http_parse_host_char(s, ch) ==
  CASE s \in {"s_http_userinfo", "s_http_userinfo_start"} /\ ch = "@" -> "s_http_host_start"
    [] s \in {"s_http_userinfo", "s_http_userinfo_start"} /\ IS_USERINFO_CHAR(ch) ->
         "s_http_userinfo"
    [] s = "s_http_host_start" /\ ch = "[" -> "s_http_host_v6_start"
    [] s \in {"s_http_host_start", "s_http_host"} /\ IS_HOST_CHAR(ch) -> "s_http_host"
    [] s \in {"s_http_host", "s_http_host_v6_end"} /\ ch = ":" -> "s_http_host_port_start"
    [] s \in {"s_http_host_v6", "s_http_host_v6_zone"} /\ ch = "]" -> "s_http_host_v6_end"
    [] s \in {"s_http_host_v6", "s_http_host_v6_start"} /\ (IS_HEX(ch) \/ ch \in {":", "."}) ->
         "s_http_host_v6"
    [] s = "s_http_host_v6" /\ ch = "%" -> "s_http_host_v6_zone_start"
    [] s \in {"s_http_host_v6_zone", "s_http_host_v6_zone_start"}
       /\ (IS_ALPHANUM(ch) \/ ch \in {"%", ".", "-", "_", "~"}) -> "s_http_host_v6_zone"
    [] s \in {"s_http_host_port", "s_http_host_port_start"} /\ IS_NUM(ch) -> "s_http_host_port"
    [] OTHER -> "s_http_host_dead"

------------------------------------------------------------------------------

Indices(first, last) == [k \in 1..(last - first + 1) |-> first + k - 1]

\* field_data[f] starts at p, or grows by one.
Begun(u, f, p) == (f :> <<p, 1>>) @@ u
Grown(u, f) == (f :> <<u[f][1], u[f][2] + 1>>) @@ u

\* The field that a state of the server part belongs to.
HostFieldOf(s) ==
  CASE s \in {"s_http_host", "s_http_host_v6"} -> "HOST" [] s = "s_http_host_port" -> "PORT"
    [] s = "s_http_userinfo" -> "USERINFO" [] OTHER -> "NONE"

host_to(h, s, p) ==
  LET field == HostFieldOf(s)
  IN [s |-> s,
      u |-> CASE field # "NONE" /\ s # h.s -> Begun(h.u, field, p)
              [] field # "NONE" /\ s = h.s -> Grown(h.u, field)
              [] s \in {"s_http_host_v6_zone_start", "s_http_host_v6_zone"} -> Grown(h.u, "HOST")
              [] OTHER -> h.u]

\* The loop of http_parse_host over the server part.
host_step(text, h, p) ==
  IF h.s = "s_http_host_dead" THEN h ELSE host_to(h, http_parse_host_char(h.s, text[p]), p)

\* The server part may end in these states.
HostEnded(h) ==
  [ok |-> h.s \in {"s_http_host", "s_http_host_v6_end", "s_http_host_port"}, u |-> h.u]

\* Whether the server part is well formed, and the fields it consists of.
http_parse_host(text, u, found_at) ==
  LET Step(h, p) == host_step(text, h, p)
  IN HostEnded(FoldLeft(Step, [s |-> IF found_at THEN "s_http_userinfo_start" ELSE "s_http_host_start",
                               u |-> u],
                        Indices(u["HOST"][1], u["HOST"][1] + u["HOST"][2] - 1)))

PortMax == 65535

\* The number that digits stand for.
Number(text) ==
  LET Shift(v, c) == 10 * v + (CHOOSE d \in 1..10 : Digits[d] = c) - 1 IN FoldLeft(Shift, 0, text)
Field(text, u, f) == IF f \in DOMAIN u THEN SubSeq(text, u[f][1], u[f][1] + u[f][2] - 1) ELSE <<>>

\* The loop of http_parser_parse_url: which field the character belongs to.
FieldOf(s) ==
  CASE s = "s_req_schema" -> "SCHEMA"
    [] s \in {"s_req_server_with_at", "s_req_server"} -> "HOST"
    [] s = "s_req_path" -> "PATH" [] s = "s_req_query_string" -> "QUERY"
    [] s = "s_req_fragment" -> "FRAGMENT"
    [] OTHER -> "NONE"

url_to(r, s, p) ==
  LET f == FieldOf(s)
  IN [r EXCEPT !.s = s, !.found_at = @ \/ s = "s_req_server_with_at",
               !.old_uf = IF f = "NONE" THEN @ ELSE f,
               !.u = CASE f = "NONE" -> @ [] f # "NONE" /\ f = r.old_uf -> Grown(@, f)
                       [] OTHER -> Begun(@, f, p)]
url_step(text, r, p) == url_to(r, parse_url_char(r.s, text[p]), p)

\* The server part is looked at once the loop has found it; a schema needs one.
url_host(text, r) ==
  IF "HOST" \in DOMAIN r.u THEN http_parse_host(text, r.u, r.found_at)
  ELSE [ok |-> "SCHEMA" \notin DOMAIN r.u, u |-> r.u]

\* ... and the port last.
url_port(text, is_connect, alive, h) ==
  LET port == Number(Field(text, h.u, "PORT"))
  IN [ok |-> /\ alive /\ h.ok
             /\ is_connect => DOMAIN h.u = {"HOST", "PORT"}
             /\ port <= PortMax,
      u |-> h.u, port |-> port]
url_end_of_loop(text, is_connect, r) == url_port(text, is_connect, r.s # "s_dead", url_host(text, r))

http_parser_parse_url(text, is_connect) ==
  LET Step(r, p) == url_step(text, r, p)
  IN url_end_of_loop(text, is_connect,
       FoldLeft(Step, [s |-> IF is_connect THEN "s_req_server_start" ELSE "s_req_spaces_before_url",
                       found_at |-> FALSE, old_uf |-> "MAX", u |-> <<>>],
                Indices(1, Len(text))))
==============================================================================
