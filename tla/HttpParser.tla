------------------------------ MODULE HttpParser ------------------------------
(***************************************************************************)
(* http_parser.c as far as responses reach it: the state machine that        *)
(* http_parser_execute drives over one slice of bytes, with the callbacks of *)
(* http_response.cpp that it runs.                                           *)
(*                                                                         *)
(* A symbol <<kind, a, b>> stands for the run of characters a state of the   *)
(* parser takes together: the version, a status code, a half of a header     *)
(* name (<<name, 0, 1>>, <<name, 0, 2>>) or of a header word, one digit, one *)
(* character of anything else.  Halves keep what matters of the character    *)
(* by character matching: a slice may end inside a name or a value.          *)
(***************************************************************************)
EXTENDS Naturals, Sequences, SequencesExt

Sym(kind) == <<kind, 0, 0>>
CR == Sym("CR")
LF == Sym("LF")
SP == Sym("SP")
Colon == Sym("colon")
Comma == Sym("comma")
Half(word, n) == <<word, 0, n>>
Digit(n) == <<"digit", 0, n>>
HeaderNames == {"content-length", "transfer-encoding", "connection", "x-header"}
ULLONG_MAX == 99999            \* stands for it: no message has this length

\* header_state: a half of a word is what has been matched of it, the second
\* half being h_connection, h_content_length, h_connection_close and so on.
General == Sym("general")
LengthNum == Sym("content_length_num")
LengthWs == Sym("content_length_ws")
Token == Sym("matching_connection_token")
TokenStart == Sym("matching_connection_token_start")

\* HttpMessageInfo, and a parser as http_parser_init(parser, HTTP_BOTH) leaves
\* it; mark is what the *_mark pointers delimit so far, used the number of
\* symbols the current call has taken.
NewInfo == [stage |-> "none", cur_header |-> <<>>, header |-> <<>>, body |-> <<>>]
NewParser == [state |-> "s_start_req_or_res", header_state |-> General, flags |-> {},
              content_length |-> 0, status_code |-> 0, http_minor |-> 0,
              http_errno |-> "OK", used |-> 0, mark |-> <<>>, marked |-> "none",
              info |-> NewInfo]

-------------------------------------------------------------------------------
(* The callbacks of http_response.cpp.  header is the map as a sequence of    *)
(* entries <<name, value>> with distinct names.                               *)

onStage(p, stage) == [p EXCEPT !.info.stage = stage]

onHeaderField(p, data) ==
    [p EXCEPT !.info.cur_header = IF p.info.stage = "HEADER_FIELD" THEN @ \o data ELSE data,
              !.info.stage = "HEADER_FIELD"]

\* A value for a name the map has already is appended to it after a comma.
onHeaderValue(p, data) ==
    LET name == p.info.cur_header
        at   == {i \in DOMAIN p.info.header : p.info.header[i][1] = name}
    IN  IF p.info.stage # "HEADER_VALUE" /\ name = <<>>
        THEN [p EXCEPT !.info.stage = "HEADER_VALUE", !.http_errno = "CB_header_value"]
        ELSE [p EXCEPT !.info.stage = "HEADER_VALUE",
                       !.info.header =
                           IF at = {} THEN Append(@, <<name, data>>)
                           ELSE [i \in DOMAIN @ |->
                                   IF i \in at THEN <<name, @[i][2] \o <<Comma>> \o data>> ELSE @[i]]]

onBodyCb(p, data) == [onStage(p, "BODY") EXCEPT !.info.body = @ \o data]

\* MARK and CALLBACK_DATA: the callback runs only if the mark is set.
Mark(p, what) == IF p.marked = what THEN p ELSE [p EXCEPT !.marked = what, !.mark = <<>>]
Take1(p, ch) == IF p.marked = "none" THEN p ELSE [p EXCEPT !.mark = Append(@, ch)]
CallbackData(p, what) ==
    LET q == [p EXCEPT !.marked = "none", !.mark = <<>>]
    IN  IF what = "none" \/ p.marked # what THEN p
        ELSE CASE what = "header_field" -> onHeaderField(q, p.mark)
               [] what = "header_value" -> onHeaderValue(q, p.mark)
               [] what = "body"         -> onBodyCb(q, p.mark)
               [] what = "status"       -> onStage(q, "STATUS")

-------------------------------------------------------------------------------
(* The steps of http_parser_execute on one symbol, grouped as the states are. *)

Err(p, e) == [p EXCEPT !.http_errno = e]
Go(p, s) == [p EXCEPT !.state = s]

http_message_needs_eof(p) ==
    /\ p.status_code \div 100 # 1
    /\ p.status_code \notin {204, 304}
    /\ "CHUNKED" \notin p.flags
    /\ p.content_length = ULLONG_MAX

http_should_keep_alive(p) ==
    /\ IF p.http_minor > 0 THEN "CLOSE" \notin p.flags ELSE "KEEP_ALIVE" \in p.flags
    /\ ~http_message_needs_eof(p)

\* UPDATE_STATE(NEW_MESSAGE()) and the message_complete callback.
Complete(p) ==
    onStage(Go(p, IF http_should_keep_alive(p) THEN "s_start_res" ELSE "s_dead"),
            "MESSAGE_COMPLETE")

\* s_start_req_or_res and s_start_res: the version starts a response.
Begin(p, ch) ==
    LET q == [p EXCEPT !.flags = {}, !.content_length = ULLONG_MAX]
    IN  IF ch[1] = "version"
        THEN onStage([q EXCEPT !.state = "s_res_first_status_code", !.http_minor = ch[3]],
                     "MESSAGE_BEGIN")
        ELSE IF ch \notin {CR, LF} THEN Err(p, "INVALID_CONSTANT")
        ELSE IF p.state = "s_start_res" THEN onStage(q, "MESSAGE_BEGIN")
        ELSE p

\* The flag a finished header value sets.
ValueFlags(p) ==
    LET flagged == {<<Half("chunked", 2), "CHUNKED">>, <<Half("close", 2), "CLOSE">>,
                    <<Half("keep-alive", 2), "KEEP_ALIVE">>}
    IN  [p EXCEPT !.flags = @ \cup {f[2] : f \in {g \in flagged : g[1] = p.header_state}}]

\* What the first symbol of a word of a Connection header makes of the state.
ConnectionWord(ch) == IF ch \in {Half("keep-alive", 1), Half("close", 1)} THEN ch ELSE Token

\* s_header_value_start.
ValueStart(p, ch) ==
    LET q == Take1(Mark(Go(p, "s_header_value"), "header_value"), ch)
    IN  CASE p.header_state = Half("transfer-encoding", 2) ->
               [q EXCEPT !.header_state = IF ch = Half("chunked", 1) THEN ch ELSE General]
          [] p.header_state = Half("content-length", 2) ->
               IF ch[1] # "digit" THEN Err(q, "INVALID_CONTENT_LENGTH")
               ELSE IF "CONTENTLENGTH" \in p.flags THEN Err(q, "UNEXPECTED_CONTENT_LENGTH")
               ELSE [q EXCEPT !.header_state = LengthNum, !.content_length = ch[3],
                              !.flags = @ \cup {"CONTENTLENGTH"}]
          [] p.header_state = Half("connection", 2) ->
               [q EXCEPT !.header_state = ConnectionWord(ch)]
          [] p.header_state = TokenStart -> q
          [] OTHER -> [q EXCEPT !.header_state = General]

\* s_header_value: a further symbol of the value, by what the header is.
ValueLength(p, ch) ==
    LET q == Take1(p, ch)
    IN  IF ch = SP THEN [q EXCEPT !.header_state = LengthWs]
        ELSE IF p.header_state = LengthWs \/ ch[1] # "digit" THEN Err(q, "INVALID_CONTENT_LENGTH")
        ELSE [q EXCEPT !.content_length = 10 * @ + ch[3]]

ValueWord(p, ch) ==
    LET q == Take1(p, ch)
        h == p.header_state
        To(state) == [q EXCEPT !.header_state = state]
        matched == ch[3] = 2 /\ h = Half(ch[1], 1)
    IN  CASE h = Half("chunked", 1) -> To(IF matched THEN ch ELSE General)
          [] h = Half("chunked", 2) -> IF ch = SP THEN q ELSE To(General)
          [] h \in {Half("keep-alive", 1), Half("close", 1)} -> To(IF matched THEN ch ELSE Token)
          [] h = TokenStart -> IF ch = SP THEN q ELSE To(ConnectionWord(ch))
          [] h \in {Half("keep-alive", 2), Half("close", 2)} ->
               IF ch = Comma THEN [ValueFlags(q) EXCEPT !.header_state = TokenStart]
               ELSE IF ch = SP THEN q ELSE To(Token)
          [] h = Token -> IF ch = Comma THEN To(TokenStart) ELSE q
          [] OTHER -> q

\* s_header_value: the end of the line, or a further symbol.
Value(p, ch) ==
    IF ch = CR THEN CallbackData(Go(p, "s_header_almost_done"), "header_value")
    ELSE IF ch = LF THEN CallbackData(Go(p, "s_header_value_lws"), "header_value")
    ELSE IF p.header_state \in {LengthNum, LengthWs} THEN ValueLength(p, ch)
    ELSE ValueWord(p, ch)

\* s_headers_almost_done and s_headers_done: the blank line after the headers,
\* or after the trailer of the last chunk.
HeadersDone(p) ==
    LET q == onStage(p, "HEADERS_COMPLETE")
    IN  IF "TRAILING" \in p.flags THEN Complete(p)
        ELSE IF {"CHUNKED", "CONTENTLENGTH"} \subseteq p.flags
             THEN Err(p, "UNEXPECTED_CONTENT_LENGTH")
        ELSE IF "CHUNKED" \in p.flags THEN Go(q, "s_chunk_size_start")
        ELSE IF p.content_length = 0 THEN Complete(q)
        ELSE IF p.content_length # ULLONG_MAX THEN Go(q, "s_body_identity")
        ELSE IF http_message_needs_eof(p) THEN Go(q, "s_body_identity_eof")
        ELSE Complete(q)

\* s_body_identity and s_chunk_data take one byte of the body.
BodyByte(p, ch) ==
    LET q == [Take1(Mark(p, "body"), ch) EXCEPT !.content_length = @ - 1]
    IN  IF q.content_length > 0 THEN q ELSE Complete(CallbackData(q, "body"))
ChunkByte(p, ch) ==
    LET q == [Take1(Mark(p, "body"), ch) EXCEPT !.content_length = @ - 1]
    IN  IF q.content_length > 0 THEN q ELSE Go(q, "s_chunk_data_almost_done")

RECURSIVE Step(_, _)

\* A state that re-executes the symbol is entered and left in one step.
Reexecute(p, state, ch) == Step(Go(p, state), ch)
Expect(p, good, state) == IF good THEN Go(p, state) ELSE Err(p, "STRICT")

\* The status line after its version.
StatusLine(p, ch) ==
    CASE p.state = "s_res_first_status_code" ->
           IF ch = SP THEN p
           ELSE IF ch[1] # "status" THEN Err(p, "INVALID_STATUS")
           ELSE [Go(p, "s_res_status_code") EXCEPT !.status_code = ch[3]]
      [] p.state = "s_res_status_code" ->
           IF ch = SP THEN Go(p, "s_res_status_start")
           ELSE IF ch \in {CR, LF} THEN Reexecute(p, "s_res_status_start", ch)
           ELSE Err(p, "INVALID_STATUS")
      [] p.state = "s_res_status_start" ->
           IF ch \in {CR, LF} THEN Reexecute(Mark(p, "status"), "s_res_status", ch)
           ELSE Take1(Mark(Go(p, "s_res_status"), "status"), ch)
      [] p.state = "s_res_status" ->
           IF ch = CR THEN CallbackData(Go(p, "s_res_line_almost_done"), "status")
           ELSE IF ch = LF THEN CallbackData(Go(p, "s_header_field_start"), "status")
           ELSE Take1(p, ch)
      [] p.state = "s_res_line_almost_done" -> Expect(p, ch = LF, "s_header_field_start")

\* The name of a header, or the blank line that ends the headers.
HeaderFieldStart(p, ch) ==
    IF ch = CR THEN Go(p, "s_headers_almost_done")
    ELSE IF ch = LF THEN Reexecute(p, "s_headers_almost_done", ch)
    ELSE IF ch[1] \notin HeaderNames THEN Err(p, "INVALID_HEADER_TOKEN")
    ELSE [Take1(Mark(Go(p, "s_header_field"), "header_field"), ch) EXCEPT !.header_state = ch]

HeaderField(p, ch) ==
    IF ch = Colon THEN CallbackData(Go(p, "s_header_value_discard_ws"), "header_field")
    ELSE IF ch[1] \notin HeaderNames THEN Err(p, "INVALID_HEADER_TOKEN")
    ELSE [Take1(p, ch) EXCEPT !.header_state = IF @ = Half(ch[1], 1) THEN ch ELSE General]

\* The blanks before a value.
DiscardWs(p, ch) ==
    IF ch = SP THEN p
    ELSE IF ch = CR THEN Go(p, "s_header_value_discard_ws_almost_done")
    ELSE IF ch = LF THEN Go(p, "s_header_value_discard_lws")
    ELSE ValueStart(p, ch)

\* The end of a header line: the next one may go on with the value.
LineEnd(p, ch) ==
    CASE p.state = "s_header_almost_done" -> Expect(p, ch = LF, "s_header_value_lws")
      [] p.state = "s_header_value_lws" ->
           IF ch = SP THEN Reexecute(p, "s_header_value_start", ch)
           ELSE Reexecute(ValueFlags(p), "s_header_field_start", ch)
      [] p.state = "s_header_value_discard_ws_almost_done" ->
           Expect(p, ch = LF, "s_header_value_discard_lws")
      [] p.state = "s_header_value_discard_lws" ->
           IF ch = SP THEN Go(p, "s_header_value_discard_ws")
           ELSE Reexecute(CallbackData(Mark(ValueFlags(p), "header_value"), "header_value"),
                          "s_header_field_start", ch)

\* The line with the size of a chunk.
ChunkSize(p, ch) ==
    CASE p.state = "s_chunk_size_start" ->
           IF ch[1] # "digit" THEN Err(p, "INVALID_CHUNK_SIZE")
           ELSE [Go(p, "s_chunk_size") EXCEPT !.content_length = ch[3]]
      [] p.state = "s_chunk_size" ->
           IF ch = CR THEN Go(p, "s_chunk_size_almost_done")
           ELSE IF ch = SP THEN Go(p, "s_chunk_parameters")
           ELSE IF ch[1] # "digit" THEN Err(p, "INVALID_CHUNK_SIZE")
           ELSE [p EXCEPT !.content_length = 16 * @ + ch[3]]
      [] p.state = "s_chunk_parameters" -> IF ch = CR THEN Go(p, "s_chunk_size_almost_done") ELSE p
      [] p.state = "s_chunk_size_almost_done" ->
           IF ch # LF THEN Err(p, "STRICT")
           ELSE IF p.content_length > 0 THEN Go(p, "s_chunk_data")
           ELSE [Go(p, "s_header_field_start") EXCEPT !.flags = @ \cup {"TRAILING"}]

ChunkEnd(p, ch) ==
    CASE p.state = "s_chunk_data_almost_done" ->
           IF ch = CR THEN CallbackData(Go(p, "s_chunk_data_done"), "body") ELSE Err(p, "STRICT")
      [] p.state = "s_chunk_data_done" -> Expect(p, ch = LF, "s_chunk_size_start")

\* The switch over the state.
Step(p, ch) ==
    CASE p.state = "s_dead" -> IF ch \in {CR, LF} THEN p ELSE Err(p, "CLOSED_CONNECTION")
      [] p.state \in {"s_start_req_or_res", "s_start_res"} -> Begin(p, ch)
      [] p.state \in {"s_res_first_status_code", "s_res_status_code", "s_res_status_start",
                      "s_res_status", "s_res_line_almost_done"} -> StatusLine(p, ch)
      [] p.state = "s_header_field_start" -> HeaderFieldStart(p, ch)
      [] p.state = "s_header_field" -> HeaderField(p, ch)
      [] p.state = "s_header_value_discard_ws" -> DiscardWs(p, ch)
      [] p.state = "s_header_value_start" -> ValueStart(p, ch)
      [] p.state = "s_header_value" -> Value(p, ch)
      [] p.state \in {"s_header_almost_done", "s_header_value_lws",
                      "s_header_value_discard_ws_almost_done",
                      "s_header_value_discard_lws"} -> LineEnd(p, ch)
      [] p.state = "s_headers_almost_done" -> IF ch = LF THEN HeadersDone(p) ELSE Err(p, "STRICT")
      [] p.state = "s_body_identity" -> BodyByte(p, ch)
      [] p.state = "s_chunk_data" -> ChunkByte(p, ch)
      [] p.state = "s_body_identity_eof" -> Take1(Mark(p, "body"), ch)
      [] p.state \in {"s_chunk_size_start", "s_chunk_size", "s_chunk_parameters",
                      "s_chunk_size_almost_done"} -> ChunkSize(p, ch)
      [] p.state \in {"s_chunk_data_almost_done", "s_chunk_data_done"} -> ChunkEnd(p, ch)

\* http_parser_execute on one slice: the symbols in order up to an error, then
\* the callback of a mark that is left over at the end of the slice.  Marks are
\* local to the call: a name, a value or a body that goes on in the next slice
\* is marked again there.
MarkAgain(p) ==
    CASE p.state = "s_header_field" -> Mark(p, "header_field")
      [] p.state = "s_header_value" -> Mark(p, "header_value")
      [] p.state = "s_res_status"   -> Mark(p, "status")
      [] OTHER -> p

\* The loop over a slice.  Left out: the call with no bytes (the switch on len = 0),
\* which http_response.cpp never makes, and the limits that no message of the model
\* comes near: HTTP_MAX_HEADER_SIZE bytes of header (COUNT_HEADER_SIZE) and lengths
\* beyond 64 bits (HPE_INVALID_CONTENT_LENGTH at a digit of a length or of a chunk).
Consumed(p) == IF p.http_errno # "OK" THEN p ELSE [p EXCEPT !.used = @ + 1]
SliceEnd(p) == IF p.http_errno = "OK" THEN CallbackData(p, p.marked) ELSE p
http_parser_execute(p, data) ==
    LET Next1(r, ch) == IF r.http_errno # "OK" THEN r ELSE Consumed(Step(r, ch))
    IN  SliceEnd(FoldLeft(Next1, [MarkAgain(p) EXCEPT !.used = 0], data))
===============================================================================
