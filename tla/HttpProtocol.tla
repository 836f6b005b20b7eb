----------------------------- MODULE HttpProtocol -----------------------------
(***************************************************************************)
(* HTTP over an IOBuffer: http_protocol.cpp writes requests, and            *)
(* HttpResponse::checkHeader of http_response.cpp feeds what has been read, *)
(* slice by slice, to a parser kept with the socket between two reads.      *)
(***************************************************************************)
EXTENDS BoltProtocol, HttpParser

\* assembleHttpRequest: the text of request line and headers, then the slices
\* of the attached buffer, which the user filled before the call.
assembleHttpRequest(m, c, data_type) ==
    LET body == append(m, EmptyBuffer, Run("req", c, HeaderSize + 1, FrameLen(data_type)))
    IN  appendBody(appendHeader([mem |-> body.mem, buf |-> EmptyBuffer], c), body)

-------------------------------------------------------------------------------
(* What a server sends (external): the shape of a response gives its version, *)
(* status, header lines and body coding.                                      *)

Word(w) == <<Half(w, 1), Half(w, 2)>>
CRLF == <<CR, LF>>
HeaderLine(h) == Word(h[1]) \o <<Colon, SP>> \o h[2] \o CRLF
Body(c, n) == Run("data", c, 1, n)
Chunk(c, k) == <<Digit(1)>> \o CRLF \o <<<<"data", c, k>>>> \o CRLF

\* The bytes of the body on the wire, under each coding.
CodedBody(c, shape) ==
    IF shape.coding = "chunked"
    THEN FlattenSeq([k \in 1..shape.body |-> Chunk(c, k)]) \o <<Digit(0)>> \o CRLF \o CRLF
    ELSE Body(c, shape.body)
HttpResponseBytes(c, shape) ==
    <<<<"version", 0, shape.minor>>, <<"status", 0, shape.status>>, SP, <<"reason", 0, 1>>>>
    \o CRLF \o FlattenSeq([i \in DOMAIN shape.headers |-> HeaderLine(shape.headers[i])])
    \o CRLF \o CodedBody(c, shape)

-------------------------------------------------------------------------------

\* The loop of checkHeader over the slices of the buffer; completion is looked
\* at only when the parser has taken a whole slice.
RECURSIVE feed(_, _, _, _)
RECURSIVE fed(_, _, _, _)
feed(heap, refs, parser, nr) ==
    IF refs = <<>> THEN [ret |-> "NOT_ENOUGH", parser |-> <<parser>>, nr |-> nr]
    ELSE fed(heap, Tail(refs), http_parser_execute(parser, slice(heap, Head(refs))), nr)
fed(heap, refs, p, nr) ==
    IF p.http_errno # "OK" THEN [ret |-> "ERROR", parser |-> <<>>, nr |-> nr + p.used]
    ELSE IF p.info.stage = "MESSAGE_COMPLETE" THEN [ret |-> "OK", parser |-> <<p>>, nr |-> nr + p.used]
    ELSE feed(heap, refs, p, nr + p.used)

\* HttpResponse::checkHeader: goes on with the parser of the last read, if any.
checkHttpHeader(heap, buf, additional) ==
    feed(heap, Live(buf), IF additional = <<>> THEN NewParser ELSE additional[1], 0)

\* HttpResponse::deserialize on the parser handed to the session.
deserializeHttp(data) ==
    IF data = <<>> \/ data[1].info.stage # "MESSAGE_COMPLETE"
    THEN [ret |-> "ERROR", content |-> <<>>, header |-> <<>>]
    ELSE [ret |-> "OK", content |-> data[1].info.body, header |-> data[1].info.header]
===============================================================================
