--------------------------------- MODULE Uri ---------------------------------
(***************************************************************************)
(* The parsers of the client's own input: URI (uri.cpp) for the address of *)
(* an HTTP request, EndPoint (endpoint.cpp) for the address of a channel.  *)
(* A text is a sequence of ASCII characters that ends in NUL, as c_str()   *)
(* does.  A port has too few digits to overflow an int.                    *)
(***************************************************************************)
EXTENDS HttpUrl, Utils

\* The first place from p on that is at the end of the text or in stops.
Until(text, p, stops) ==
  CHOOSE q \in p..(Len(text) + 1) :
    /\ At(text, q) \in stops \cup {NUL}
    /\ \A r \in p..(q - 1) : At(text, r) \notin stops

NewURI == [_schema |-> <<>>, _user_info |-> <<>>, _host |-> <<>>, _path |-> <<>>,
           _query |-> <<>>, _fragment |-> <<>>, _port |-> -1, _parse_ok |-> TRUE]

\* _query and _fragment are not cleared.
clear(u) == [NewURI EXCEPT !._query = u._query, !._fragment = u._fragment]

\* Variant: the port stops one character early.
splitHostAndPort_short(text, begin, end) ==
  LET others == {q \in (begin + 1)..(end - 1) : ~IS_NUM(text[q])}
      q == IF others = {} THEN 0 ELSE CHOOSE r \in others : \A o \in others : o <= r
  IN IF q # 0 /\ text[q] = ":" THEN [end |-> q, port |-> Number(Between(text, q + 2, end))]
     ELSE [end |-> end, port |-> -1]

\* The digits at the end of the host are a port when a ':' stands before them
\* and is not the first character.
splitHostAndPort(text, begin, end) ==
  LET others == {q \in (begin + 1)..(end - 1) : ~IS_NUM(text[q])}
      q == IF others = {} THEN 0 ELSE CHOOSE r \in others : \A o \in others : o <= r
  IN IF q # 0 /\ text[q] = ":" THEN [end |-> q, port |-> Number(Between(text, q + 1, end))]
     ELSE [end |-> end, port |-> -1]

isAllSpace(text, p) == \A q \in p..Len(text) : text[q] = " "

RECURSIVE scan(_, _)

\* The first loop of parseFromString: r.p walks, r.begin is where the host may
\* begin; the action_map stops it at NUL, '#', '/' and '?'.
scan(text, r) ==
  LET ch == At(text, r.p)
      On(q) == scan(text, [q EXCEPT !.p = @ + 1])
  IN CASE ch \in {NUL, "#", "/", "?"} -> r
       [] ch = " " -> [r EXCEPT !.u._parse_ok = ~isAllSpace(text, r.p)]
       [] ch = ":" /\ At(text, r.p + 1) = "/" /\ At(text, r.p + 2) = "/" /\ r.need_schema ->
            On([r EXCEPT !.need_schema = FALSE, !.u._schema = Between(text, r.begin, r.p),
                         !.p = r.p + 2, !.begin = r.p + 3])
       [] ch = "@" /\ r.need_user_info ->
            On([r EXCEPT !.need_user_info = FALSE, !.u._user_info = Between(text, r.begin, r.p),
                         !.begin = r.p + 1])
       [] OTHER -> On(r)

\* One of the loops for the path, the query and the fragment: the part is there
\* when its mark is at r.p and ends at a stop, a blank or NUL.
part(text, r, field, mark, first, stops, Refused(_)) ==
  LET end == Until(text, r.p + 1, stops \cup {" "})
  IN IF ~r.u._parse_ok \/ At(text, r.p) # mark THEN r
     ELSE IF At(text, end) = " " /\ Refused(end) THEN [r EXCEPT !.u._parse_ok = FALSE]
     ELSE [r EXCEPT !.u[field] = Between(text, first, end), !.p = end]

\* A path that ends in blanks alone is refused, one with more after the blanks
\* is accepted; the query and the fragment are the other way round.
pathPart(text, r) ==
  part(text, r, "_path", "/", r.p, {"?", "#"}, LAMBDA q : isAllSpace(text, q))
queryPart(text, r) ==
  part(text, r, "_query", "?", r.p + 1, {"#"}, LAMBDA q : ~isAllSpace(text, q + 1))
fragmentPart(text, r) ==
  part(text, r, "_fragment", "#", r.p + 1, {}, LAMBDA q : ~isAllSpace(text, q + 1))

hostPart(text, r) ==
  LET split == splitHostAndPort(text, r.begin, r.p)
  IN IF ~r.u._parse_ok THEN r
     ELSE [r EXCEPT !.u._host = Between(text, r.begin, split.end), !.u._port = split.port]

URI_parseFromString(u, text) ==
  LET begin == CHOOSE q \in 1..(Len(text) + 1) :
                 At(text, q) # " " /\ \A r \in 1..(q - 1) : text[r] = " "
      r == scan(text, [u |-> clear(u), p |-> begin, begin |-> begin,
                       need_schema |-> TRUE, need_user_info |-> TRUE])
  IN fragmentPart(text, queryPart(text, pathPart(text, hostPart(text, r)))).u

------------------------------------------------------------------------------

\* External: inet_pton and gethostbyname_r know these hosts; STR_MAX_SIZE is
\* the size of the buffer that the host is copied to.
CONSTANTS Hosts, STR_MAX_SIZE

\* strtol: blanks, a sign and digits.
digits(text, p, first, digit) ==
  LET end == CHOOSE q \in digit..(Len(text) + 1) :
               ~IS_NUM(At(text, q)) /\ \A r \in digit..(q - 1) : IS_NUM(text[r])
      value == Number(Between(text, digit, end))
  IN [end |-> IF end = digit THEN p ELSE end, value |-> IF At(text, first) = "-" THEN -value ELSE value]
strtol(text, p) ==
  LET first == CHOOSE q \in p..(Len(text) + 1) :
                 At(text, q) # " " /\ \A r \in p..(q - 1) : text[r] = " "
  IN digits(text, p, first, IF At(text, first) \in {"-", "+"} THEN first + 1 ELSE first)

EndPoint_checked(text, colon, host, port) ==
  LET ok == /\ At(text, colon) = ":" /\ Len(host) < STR_MAX_SIZE /\ host \in Hosts
            /\ port.end # colon + 1 /\ At(text, port.end) = NUL
            /\ port.value \in 0..PortMax
  IN [ok |-> ok, host |-> IF ok THEN host ELSE <<>>, port |-> IF ok THEN port.value ELSE -1]
EndPoint_parseFromString(text) ==
  LET colon == Until(text, 1, {":"})
  IN EndPoint_checked(text, colon, Between(text, 1, colon), strtol(text, colon + 1))
==============================================================================
