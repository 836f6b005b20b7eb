----------------------------- MODULE HttpRequest -----------------------------
(***************************************************************************)
(* The request line, from the address a user types to what the other end   *)
(* reads.  An HttpRequest is given a URI and a method, assembleHttpRequest *)
(* writes its request line, and http_parser.c reads it back slice by slice,*)
(* with the onUrl callback of http_response.cpp.  The parser is created    *)
(* with HTTP_BOTH, so a peer may also send a request line of its own: a    *)
(* word letter by letter, or a known method before any text.               *)
(***************************************************************************)
EXTENDS Uri

CONSTANTS
  Beginnings,  \* how the texts that are typed begin
  Alphabet,    \* the characters they go on with
  MaxTyped,    \* how many
  MaxPeer,     \* how many of them a text has that a peer sends
  Letters      \* the characters of a peer's word

VARIABLES
  text,    \* the address, while it is typed
  typed,   \* how many characters follow its beginning
  stage,   \* "typing", "word", "sent" or "refused"
  sent,    \* what was sent: method, url and the whole line, or a word; and
           \* the path that http_parser_parse_url finds in the client's address
  line,    \* what is still to be read of it
  parser

vars == <<text, typed, stage, sent, line, parser>>

\* method_strings: HTTP_METHOD_MAP.
Methods ==
  [DELETE |-> <<"D", "E", "L", "E", "T", "E">>, GET |-> <<"G", "E", "T">>,
   HEAD |-> <<"H", "E", "A", "D">>, POST |-> <<"P", "O", "S", "T">>, PUT |-> <<"P", "U", "T">>,
   CONNECT |-> <<"C", "O", "N", "N", "E", "C", "T">>,
   OPTIONS |-> <<"O", "P", "T", "I", "O", "N", "S">>, TRACE |-> <<"T", "R", "A", "C", "E">>,
   COPY |-> <<"C", "O", "P", "Y">>, LOCK |-> <<"L", "O", "C", "K">>,
   MKCOL |-> <<"M", "K", "C", "O", "L">>, MOVE |-> <<"M", "O", "V", "E">>,
   PROPFIND |-> <<"P", "R", "O", "P", "F", "I", "N", "D">>,
   PROPPATCH |-> <<"P", "R", "O", "P", "P", "A", "T", "C", "H">>,
   SEARCH |-> <<"S", "E", "A", "R", "C", "H">>, UNLOCK |-> <<"U", "N", "L", "O", "C", "K">>,
   BIND |-> <<"B", "I", "N", "D">>, REBIND |-> <<"R", "E", "B", "I", "N", "D">>,
   UNBIND |-> <<"U", "N", "B", "I", "N", "D">>, ACL |-> <<"A", "C", "L">>,
   REPORT |-> <<"R", "E", "P", "O", "R", "T">>,
   MKACTIVITY |-> <<"M", "K", "A", "C", "T", "I", "V", "I", "T", "Y">>,
   CHECKOUT |-> <<"C", "H", "E", "C", "K", "O", "U", "T">>, MERGE |-> <<"M", "E", "R", "G", "E">>,
   MSEARCH |-> <<"M", "-", "S", "E", "A", "R", "C", "H">>,
   NOTIFY |-> <<"N", "O", "T", "I", "F", "Y">>,
   SUBSCRIBE |-> <<"S", "U", "B", "S", "C", "R", "I", "B", "E">>,
   UNSUBSCRIBE |-> <<"U", "N", "S", "U", "B", "S", "C", "R", "I", "B", "E">>,
   PATCH |-> <<"P", "A", "T", "C", "H">>, PURGE |-> <<"P", "U", "R", "G", "E">>,
   MKCALENDAR |-> <<"M", "K", "C", "A", "L", "E", "N", "D", "A", "R">>,
   LINK |-> <<"L", "I", "N", "K">>, UNLINK |-> <<"U", "N", "L", "I", "N", "K">>,
   SOURCE |-> <<"S", "O", "U", "R", "C", "E">>]

\* The method that the first letter stands for until another letter decides.
FirstGuess ==
  [A |-> "ACL", B |-> "BIND", C |-> "CONNECT", D |-> "DELETE", G |-> "GET", H |-> "HEAD",
   L |-> "LOCK", M |-> "MKCOL", N |-> "NOTIFY", O |-> "OPTIONS", P |-> "POST",
   R |-> "REPORT", S |-> "SUBSCRIBE", T |-> "TRACE", U |-> "UNLOCK"]

\* The letters at which the guess changes: <<guess, index, letter, new guess>>.
Corrections ==
  {<<"POST", 1, "U", "PUT">>, <<"POST", 1, "A", "PATCH">>, <<"POST", 1, "R", "PROPFIND">>,
   <<"PUT", 2, "R", "PURGE">>, <<"CONNECT", 1, "H", "CHECKOUT">>, <<"CONNECT", 2, "P", "COPY">>,
   <<"MKCOL", 1, "O", "MOVE">>, <<"MKCOL", 1, "E", "MERGE">>, <<"MKCOL", 1, "-", "MSEARCH">>,
   <<"MKCOL", 2, "A", "MKACTIVITY">>, <<"MKCOL", 3, "A", "MKCALENDAR">>,
   <<"SUBSCRIBE", 1, "E", "SEARCH">>, <<"SUBSCRIBE", 1, "O", "SOURCE">>,
   <<"REPORT", 2, "B", "REBIND">>, <<"PROPFIND", 4, "P", "PROPPATCH">>,
   <<"LOCK", 1, "I", "LINK">>, <<"UNLOCK", 2, "S", "UNSUBSCRIBE">>,
   <<"UNLOCK", 2, "B", "UNBIND">>, <<"UNLOCK", 3, "I", "UNLINK">>}

\* A parser as http_parser_init(parser, HTTP_BOTH) leaves it, and url of
\* HttpMessageInfo; mark is what url_mark delimits so far.
NewParser == [state |-> "s_start_req_or_res", method |-> "DELETE", index |-> 0, version |-> <<>>,
              http_errno |-> "OK", marked |-> FALSE, mark |-> <<>>, url |-> <<>>]

Err(p, e) == [p EXCEPT !.http_errno = e]
Go(p, s) == [p EXCEPT !.state = s]
Take1(p, ch) == IF p.marked THEN [p EXCEPT !.mark = Append(@, ch)] ELSE p

\* CALLBACK_DATA(url): onUrl adds what is marked to url.
onUrl(p) ==
  IF p.marked THEN [p EXCEPT !.url = @ \o p.mark, !.marked = FALSE, !.mark = <<>>] ELSE p

------------------------------------------------------------------------------
(* The states of http_parser_execute on one character of a request line.    *)

start_req(p, ch) ==
  IF ch \notin DOMAIN FirstGuess THEN Err(p, "INVALID_METHOD")
  ELSE [Go(p, "s_req_method") EXCEPT !.method = FirstGuess[ch], !.index = 1]

\* Variant: a correction leaves the letter to be matched again.
req_method_again(p, ch) ==
  LET matcher == Methods[p.method]
      corrected == {c[4] : c \in {d \in Corrections : d[1] = p.method /\ d[2] = p.index /\ d[3] = ch}}
      q == [p EXCEPT !.index = @ + 1]
  IN IF p.index = Len(matcher)
     THEN IF ch = " " THEN Go(q, "s_req_spaces_before_url") ELSE Err(p, "INVALID_METHOD")
     ELSE IF ch = matcher[p.index + 1] THEN q
     ELSE IF corrected # {} THEN [p EXCEPT !.method = CHOOSE m \in corrected : TRUE]
     ELSE Err(p, "INVALID_METHOD")

req_method(p, ch) ==
  LET matcher == Methods[p.method]
      corrected == {c[4] : c \in {d \in Corrections : d[1] = p.method /\ d[2] = p.index /\ d[3] = ch}}
      q == [p EXCEPT !.index = @ + 1]
  IN IF p.index = Len(matcher) /\ ch = " " THEN Go(q, "s_req_spaces_before_url")
     ELSE IF p.index < Len(matcher) /\ ch = matcher[p.index + 1] THEN q
     ELSE IF corrected # {} THEN [q EXCEPT !.method = CHOOSE m \in corrected : TRUE]
     ELSE Err(p, "INVALID_METHOD")

\* One more character of the URL, p.state being one of its states.
url_char(p, ch) ==
  LET s == parse_url_char(p.state, ch)
  IN IF s = "s_dead" THEN Err(p, "INVALID_URL") ELSE Take1(Go(p, s), ch)

spaces_before_url(p, ch) ==
  IF ch = " " THEN p
  ELSE url_char(Go([p EXCEPT !.marked = TRUE],
                   IF p.method = "CONNECT" THEN "s_req_server_start" ELSE p.state), ch)

\* A URL may end in these states, and goes on in the others.
OpenStates == {"s_req_schema", "s_req_schema_slash", "s_req_schema_slash_slash", "s_req_server_start"}
EndStates == {"s_req_server", "s_req_server_with_at", "s_req_path", "s_req_query_string_start",
              "s_req_query_string", "s_req_fragment_start", "s_req_fragment"}

\* CR or LF after the URL is an HTTP/0.9 request.
url_end(p, ch) ==
  CASE ch = " " -> onUrl(Go(p, "s_req_http_start"))
    [] ch = CR -> onUrl([Go(p, "s_req_line_almost_done") EXCEPT !.version = <<"0", "9">>])
    [] ch = LF -> onUrl([Go(p, "s_header_field_start") EXCEPT !.version = <<"0", "9">>])
    [] OTHER -> url_char(p, ch)

\* "HTTP/" after the URL: <<state, character, next state>>.
HttpWord == {<<"s_req_http_H", "T", "s_req_http_HT">>, <<"s_req_http_HT", "T", "s_req_http_HTT">>,
             <<"s_req_http_HTT", "P", "s_req_http_HTTP">>, <<"s_req_http_HTTP", "/", "s_req_http_major">>}

http_version(p, ch) ==
  CASE p.state = "s_req_http_start" ->
         IF ch = "H" THEN Go(p, "s_req_http_H") ELSE IF ch = " " THEN p ELSE Err(p, "INVALID_CONSTANT")
    [] p.state = "s_req_http_major" ->
         IF IS_NUM(ch) THEN [Go(p, "s_req_http_dot") EXCEPT !.version = <<ch>>]
         ELSE Err(p, "INVALID_VERSION")
    [] p.state = "s_req_http_dot" ->
         IF ch = "." THEN Go(p, "s_req_http_minor") ELSE Err(p, "INVALID_VERSION")
    [] p.state = "s_req_http_minor" ->
         IF IS_NUM(ch) THEN [Go(p, "s_req_http_end") EXCEPT !.version = Append(@, ch)]
         ELSE Err(p, "INVALID_VERSION")
    [] p.state = "s_req_http_end" ->
         IF ch = CR THEN Go(p, "s_req_line_almost_done")
         ELSE IF ch = LF THEN Go(p, "s_header_field_start") ELSE Err(p, "INVALID_VERSION")
    [] p.state = "s_req_line_almost_done" ->
         IF ch = LF THEN Go(p, "s_header_field_start") ELSE Err(p, "LF_EXPECTED")
    [] OTHER ->
         IF \E w \in HttpWord : w[1] = p.state /\ w[2] = ch
         THEN Go(p, (CHOOSE w \in HttpWord : w[1] = p.state)[3]) ELSE Err(p, "STRICT")

\* The switch over the state; s_res_HT and s_header_field_start are where the
\* states of module HttpParser take over.
Step(p, ch) ==
  CASE p.state = "s_start_req_or_res" ->
         IF ch \in {CR, LF} THEN p
         ELSE IF ch = "H" THEN Go(p, "s_res_or_resp_H") ELSE start_req(p, ch)
    [] p.state = "s_res_or_resp_H" ->
         IF ch = "T" THEN Go(p, "s_res_HT")
         ELSE IF ch = "E" THEN [Go(p, "s_req_method") EXCEPT !.method = "HEAD", !.index = 2]
         ELSE Err(p, "INVALID_CONSTANT")
    [] p.state = "s_req_method" -> req_method(p, ch)
    [] p.state = "s_req_spaces_before_url" -> spaces_before_url(p, ch)
    [] p.state \in OpenStates -> url_char(p, ch)
    [] p.state \in EndStates -> url_end(p, ch)
    [] p.state \in {"s_res_HT", "s_header_field_start"} -> p
    [] OTHER -> http_version(p, ch)

\* Variant: a slice that begins after the '@' of the server does not mark it.
MarkAgain_at(p) ==
  [p EXCEPT !.marked = p.state \in (OpenStates \cup EndStates) \ {"s_req_server_with_at"}]

\* Marks are local to a call: a URL that goes on in a slice is marked again.
MarkAgain(p) == [p EXCEPT !.marked = p.state \in OpenStates \cup EndStates]

\* The loop over a slice; the call with no bytes and the limit on the size of the
\* headers (COUNT_HEADER_SIZE) are left out, as in module HttpParser.
SliceEnd(p) == IF p.http_errno = "OK" THEN onUrl(p) ELSE p
http_parser_execute(p, data) ==
  LET Next1(r, ch) == IF r.http_errno # "OK" THEN r ELSE Step(r, ch)
  IN SliceEnd(FoldLeft(Next1, MarkAgain(p), data))

------------------------------------------------------------------------------

Unknown == <<"any">>
Nothing == [method |-> "none", url |-> <<>>, line |-> <<>>, by |-> "none", path |-> Unknown]

Init ==
  /\ stage \in {"typing", "word"}
  /\ text \in (IF stage = "typing" THEN Beginnings ELSE {<<>>})
  /\ typed = 0
  /\ sent = Nothing
  /\ line = <<>>
  /\ parser = NewParser

\* The user types the address.
type(ch) ==
  /\ stage = "typing" /\ typed < MaxTyped
  /\ text' = Append(text, ch)
  /\ typed' = typed + 1
  /\ UNCHANGED <<stage, sent, line, parser>>

\* The path of an address that http_parser_parse_url accepts.
PathOf(address, r) == IF r.ok THEN Field(address, r.u, "PATH") ELSE Unknown
ReferencePath(address) == PathOf(address, http_parser_parse_url(address, FALSE))

RequestLine(method, url) ==
  Methods[method] \o <<" ">> \o url \o <<" ", "H", "T", "T", "P", "/", "1", ".", "1", CR, LF>>

Send(method, url, by, path) ==
  /\ sent' = [method |-> method, url |-> url, line |-> RequestLine(method, url), by |-> by,
              path |-> path]
  /\ line' = RequestLine(method, url)
  /\ stage' = "sent"

\* Variant: the line has the fragment of the address too.
assembleHttpRequest_fragment(method) ==
  LET uri == URI_parseFromString(NewURI, text)
  IN /\ stage = "typing"
     /\ IF uri._parse_ok THEN Send(method, uri._path \o uri._fragment, "client", ReferencePath(text))
        ELSE stage' = "refused" /\ UNCHANGED <<sent, line>>
     /\ text' = <<>> /\ typed' = 0
     /\ UNCHANGED parser

\* HttpRequest::uri(text).method(method), and its request line.
assembleHttpRequest(method) ==
  LET uri == URI_parseFromString(NewURI, text)
  IN /\ stage = "typing"
     /\ IF uri._parse_ok THEN Send(method, uri._path, "client", ReferencePath(text))
        ELSE stage' = "refused" /\ UNCHANGED <<sent, line>>
     /\ text' = <<>> /\ typed' = 0
     /\ UNCHANGED parser

\* A peer puts any method before any text.
peer(method) ==
  /\ stage = "typing" /\ typed <= MaxPeer
  /\ Send(method, text, "peer", Unknown)
  /\ text' = <<>> /\ typed' = 0
  /\ UNCHANGED parser

\* A peer sends a word, as long as it may still be a method.
peerLetter(ch) ==
  /\ stage = "word"
  /\ parser.http_errno = "OK" /\ parser.state \notin {"s_req_spaces_before_url", "s_res_HT"}
  /\ sent' = [sent EXCEPT !.line = Append(@, ch)]
  /\ parser' = http_parser_execute(parser, <<ch>>)
  /\ UNCHANGED <<text, typed, stage, line>>

\* The next n characters arrive.
read(n) ==
  /\ stage = "sent" /\ parser.http_errno = "OK"
  /\ parser' = http_parser_execute(parser, SubSeq(line, 1, n))
  /\ line' = SubSeq(line, n + 1, Len(line))
  /\ UNCHANGED <<text, typed, stage, sent>>

Next ==
  \/ \E ch \in Alphabet : type(ch)
  \/ \E method \in {"GET", "POST"} : assembleHttpRequest(method)
  \/ \E method \in {"GET", "CONNECT"} : peer(method)
  \/ \E ch \in Letters : peerLetter(ch)
  \/ \E n \in 1..Len(line) : read(n)

Spec == Init /\ [][Next]_vars
------------------------------------------------------------------------------
(* Properties                                                               *)

\* What the client writes is what the other end reads (uri.cpp, serialize and
\* the request states of http_parser.c): when the address has a path, the line
\* is accepted however it is sliced, with the client's method, HTTP/1.1 and, as
\* the URL, the path that http_parser's own URL parser finds in the address.
\* (An address without a path gives a line that every such reader refuses.)
RequestUnderstood ==
  (stage = "sent" /\ sent.by = "client" /\ sent.url # <<>>) =>
    /\ parser.http_errno = "OK"
    /\ sent.path \in {Unknown, sent.url}
    /\ line = <<>> => /\ parser.state = "s_header_field_start"
                      /\ parser.method = sent.method
                      /\ parser.url = sent.url
                      /\ parser.version = <<"1", "1">>

\* The slices that recv() happens to return do not matter (url_mark and the
\* list of states in which http_parser_execute sets it again): a line is read
\* to the same method and URL, or refused for the same reason, as in one piece.
SlicingIrrelevant ==
  stage = "sent" =>
    LET whole == http_parser_execute(NewParser, sent.line)
    IN /\ parser.http_errno # "OK" => whole.http_errno = parser.http_errno
       /\ (parser.http_errno = "OK" /\ line = <<>>) => whole = parser

\* The method is guessed from its first letter and corrected by a table
\* (s_start_req, s_req_method): a word is accepted exactly if it is one of the
\* 34 methods, as that method, and refused only if no method begins with it.
MethodsExact ==
  stage = "word" =>
    /\ parser.state = "s_req_spaces_before_url" => sent.line = Append(Methods[parser.method], " ")
    /\ parser.http_errno # "OK" =>
         ~\E m \in DOMAIN Methods : IsPrefix(sent.line, Append(Methods[m], " "))

\* Where URI and http_parser_parse_url both accept a text they find the same
\* parts; a port that is missing is -1 to URI, an IPv6 host keeps its brackets,
\* and only http_parser_parse_url skips '#'s in front of the fragment.
SameParts(uri, ref) ==
  LET Ref(f) == Field(text, ref.u, f)
      Skip(s) == SelectSeq(s, LAMBDA c : c # "#")
  IN (uri._parse_ok /\ ref.ok) =>
       /\ uri._schema = Ref("SCHEMA")
       /\ uri._host \in {Ref("HOST"), <<"[">> \o Ref("HOST") \o <<"]">>}
       /\ uri._port = IF "PORT" \in DOMAIN ref.u THEN ref.port ELSE -1
       /\ uri._path = Ref("PATH")
       /\ uri._query = Ref("QUERY")
       /\ Skip(uri._fragment) = Skip(Ref("FRAGMENT"))

\* A request line accepts every URL that http_parser_parse_url accepts.
LineAccepts(ref, got) == (ref.ok /\ text # <<>>) => got.http_errno = "OK" /\ got.url = text

\* EndPoint accepts host and port of a CONNECT (without a lone "?" after them) if
\* the host is known and fits its buffer, and finds the same.
SameEndPoint(con, end) ==
  LET Connect == Field(text, con.u, "HOST")
  IN /\ (con.ok /\ ~Contains(text, "?") /\ Connect \in Hosts /\ Len(Connect) < STR_MAX_SIZE) => end.ok
     /\ (con.ok /\ end.ok) => end.host = Connect /\ end.port = con.port

\* The four readers of an address agree (uri.cpp, endpoint.cpp,
\* http_parser_parse_url and the request line) on what they accept and on the
\* parts they find, with the exceptions named above.
ParsersAgree ==
  stage = "typing" =>
    /\ SameParts(URI_parseFromString(NewURI, text), http_parser_parse_url(text, FALSE))
    /\ LineAccepts(http_parser_parse_url(text, FALSE),
                   http_parser_execute(NewParser, RequestLine("GET", text)))
    /\ SameEndPoint(http_parser_parse_url(text, TRUE), EndPoint_parseFromString(text))

\* A text survives the helpers that take it apart (trim, stringSplit,
\* stringSlice and splitNum of utils.h): the slices, with the delimiter between
\* them, are the text again but for one delimiter at its end, no slice holds
\* the delimiter, stringSplit copies the same pieces, and splitNum counts them;
\* a trimmed view has the characters of the trimmed text.  (A view of blanks
\* alone in front of more text is outside trim's contract.)
PiecesWhole ==
  stage = "typing" =>
    /\ \A delimiter \in {<<":">>, <<"/">>, <<"a">>, <<"/", "/">>, <<"a", ":">>} :
         LET slices == stringSlice(text, delimiter)
             pieces == stringSplit(text, delimiter)
             joined == FoldLeft(LAMBDA all, piece : all \o piece \o delimiter, <<>>, pieces)
         IN /\ joined \in {text, text \o delimiter}
            /\ pieces = [k \in DOMAIN slices |-> Viewed(text, slices[k])]
            /\ \A k \in DOMAIN pieces : find(pieces[k], delimiter, 1) = npos
            /\ Len(delimiter) = 1 => splitNum(text, delimiter) = Len(pieces)
    /\ \A first \in 1..(Len(text) + 1) : \A length \in 0..(Len(text) + 1 - first) :
         LET view == [first |-> first, length |-> length]
             viewed == Viewed(text, view)
         IN (first + length = Len(text) + 1 \/ \E k \in DOMAIN viewed : ~isspace(viewed[k])) =>
              Viewed(text, trim_view(text, view)) = trim(viewed)
==============================================================================
