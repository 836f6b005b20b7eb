----------------------------- MODULE BoltProtocol -----------------------------
(***************************************************************************)
(* The BOLT wire format: bolt_protocol.cpp writes requests into an IOBuffer *)
(* and bolt_response.cpp recognises and reads responses.                    *)
(*                                                                         *)
(* A byte is a triple <<kind, call, n>>.  Of a request only the place of a  *)
(* byte in its frame matters: <<"req", c, k>> is the k-th byte of the frame *)
(* of call c.  A response is made of the HeaderSize bytes of its header,    *)
(* which carry its fields, class name, header map and content; a length in  *)
(* the header map (a uint32_t) is one byte <<"size", c, n>>.                *)
(***************************************************************************)
EXTENDS IOBuffer

CONSTANTS HeaderSize,          \* sizeof(BoltHeader)
          MAX_BOLT_BODY_SIZE
ASSUME HeaderAssumption == HeaderSize \in Nat \ {0}

ClassLen == 1                  \* the class name of a request
KVLen == 2                     \* its four key-value pairs
SizeBytes == 1                 \* sizeof(uint32_t) in the header map of a response

Run(kind, c, from, to) == [k \in 1..(to - from + 1) |-> <<kind, c, from + k - 1>>]

\* The frame of a request, as its peer must see it.
ContentLen(data_type) == IF data_type = "NONE" THEN 0 ELSE 2
FrameLen(data_type) ==
    IF data_type = "NONE" THEN HeaderSize
    ELSE HeaderSize + ClassLen + KVLen + ContentLen(data_type)
Frame(c, data_type) == Run("req", c, 1, FrameLen(data_type))

Content(c, data_type) == Run("req", c, HeaderSize + ClassLen + KVLen + 1, FrameLen(data_type))

\* The content follows class name and key-value pairs in a buffer of their own.
appendContent(named, c, data_type) ==
    CASE data_type = "PROTOBUF" -> appendZeroCopy(named.mem, named.buf, Content(c, data_type))
      [] data_type = "STRING"   -> append(named.mem, named.buf, Content(c, data_type))
      [] OTHER -> named

\* The text of a C string goes to the request's buffer, before the header.
appendText(body, c, data_type) ==
    IF data_type = "CSTRING" THEN append(body.mem, EmptyBuffer, Content(c, data_type))
    ELSE [mem |-> body.mem, buf |-> EmptyBuffer]

appendHeader(request, c) == append(request.mem, request.buf, Run("req", c, 1, HeaderSize))

\* The slices of the other buffer follow those of the header.
appendBody(request, body) == [mem |-> request.mem, buf |-> appendBuffer(request.buf, body.buf)]
frameBody(body, c, data_type) == appendBody(appendHeader(appendText(body, c, data_type), c), body)

\* A heartbeat is a header alone.
serialize(m, c, data_type) ==
    IF data_type = "NONE" THEN appendHeader([mem |-> m, buf |-> EmptyBuffer], c)
    ELSE frameBody(appendContent(append(m, EmptyBuffer, Run("req", c, HeaderSize + 1,
                                                            HeaderSize + ClassLen + KVLen)),
                                 c, data_type),
                   c, data_type)

-------------------------------------------------------------------------------
(* Responses.  A response is described by a record with its cmdcode, status,  *)
(* class_len, the lengths <<key, value>> of its header map, and content_len.  *)

KVBytes(c, kv) == <<<<"size", c, kv[1]>>>> \o Run("key", c, 1, kv[1])
                  \o <<<<"size", c, kv[2]>>>> \o Run("value", c, 1, kv[2])
header_len(rsp) == MapThenSumSet(LAMBDA i : 2 * SizeBytes + rsp.kvs[i][1] + rsp.kvs[i][2],
                                 DOMAIN rsp.kvs)
ResponseBytes(c, rsp) ==
    Run("head", c, 1, HeaderSize) \o Run("class", c, 1, rsp.class_len)
    \o FlattenSeq([i \in DOMAIN rsp.kvs |-> KVBytes(c, rsp.kvs[i])])
    \o Run("data", c, 1, rsp.content_len)

\* The call whose response header these bytes are, 0 when they are not a header.
HeaderOf(bytes) ==
    IF bytes # <<>> /\ bytes = Run("head", bytes[1][2], 1, HeaderSize) THEN bytes[1][2] ELSE 0

NotEnough == [ret |-> "NOT_ENOUGH", size |-> 0, id |-> 0]
Error == [ret |-> "ERROR", size |-> 0, id |-> 0]

\* The lengths in the header against what has been read.
checkLength(buf, c, body) ==
    IF body > MAX_BOLT_BODY_SIZE THEN Error
    ELSE IF HeaderSize + body > length(buf) THEN NotEnough
    ELSE [ret |-> "OK", size |-> HeaderSize + body, id |-> c]

\* Bytes that are no header could give any length; the model takes it as too large.
checkBytes(buf, head, rsps) ==
    LET c == HeaderOf(head)
    IN  IF Len(head) < HeaderSize THEN NotEnough
        ELSE IF c = 0 THEN Error
        ELSE checkLength(buf, c, rsps[c].class_len + header_len(rsps[c]) + rsps[c].content_len)

\* checkHeader: is there a whole message at the front of the buffer, of which
\* size, for which request?  rsps gives the fields the header bytes stand for.
checkHeader(heap, buf, rsps) == checkBytes(buf, copy_to(heap, buf, HeaderSize), rsps)

Drop(bytes, n) == SubSeq(bytes, n + 1, Len(bytes))

\* The two cuts that read a key or a value: its length, then its text.
SizeOf(bytes) == IF bytes = <<>> \/ bytes[1][1] # "size" THEN 0 ELSE bytes[1][3]
TextOf(size, text) ==
    [ok |-> Len(size.bytes) = SizeBytes /\ Len(text.bytes) = SizeOf(size.bytes),
     buf |-> text.buf, used |-> SizeBytes + SizeOf(size.bytes)]
cutSized(heap, size) == TextOf(size, cut(heap, size.buf, SizeOf(size.bytes)))
cutText(heap, buf) == cutSized(heap, cut(heap, buf, SizeBytes))

\* The loop over the header map: left_size is a uint16_t.
RECURSIVE readHeaderMap(_, _, _)
RECURSIVE readPair(_, _, _, _)
RECURSIVE readValue(_, _, _, _)
readHeaderMap(heap, buf, left_size) ==
    IF left_size = 0 THEN [ok |-> TRUE, buf |-> buf]
    ELSE readValue(heap, buf, left_size, cutText(heap, buf))
readValue(heap, buf, left_size, key) ==
    IF ~key.ok THEN [ok |-> FALSE, buf |-> buf]
    ELSE readPair(heap, buf, left_size + 65536 - key.used, cutText(heap, key.buf))
readPair(heap, buf, left_size, value) ==
    IF ~value.ok THEN [ok |-> FALSE, buf |-> buf]
    ELSE readHeaderMap(heap, value.buf, (left_size - value.used) % 65536)

\* ParseFromCodedStream reads the stream to its end.
RECURSIVE ParseFromCodedStream(_, _, _, _)
ParseFromCodedStream(heap, buf, stream, bytes) ==
    IF stream._ref_index >= Len(buf._ref) THEN [bytes |-> bytes, ByteCount |-> stream._byte_count]
    ELSE ParseFromCodedStream(heap, buf, InputStreamNext(buf, stream),
                              bytes \o slice(heap, buf._ref[stream._ref_index + 1]))

Answer(ret, content) == [ret |-> ret, content |-> content]

\* The content, as a protobuf message or as a string.
readProto(rsp, proto) ==
    IF proto.ByteCount # rsp.content_len THEN Answer("ERROR", <<>>) ELSE Answer("OK", proto.bytes)
readText(rsp, bytes) ==
    IF Len(bytes) < rsp.content_len THEN Answer("NOT_ENOUGH", <<>>) ELSE Answer("OK", bytes)
readContent(heap, map, rsp, type) ==
    IF ~map.ok THEN Answer("NOT_ENOUGH", <<>>)
    ELSE IF rsp.content_len = 0 THEN Answer("OK", <<>>)
    ELSE IF type = "PROTOBUF"
         THEN readProto(rsp, ParseFromCodedStream(heap, map.buf, InputStream(map.buf), <<>>))
    ELSE readText(rsp, cut(heap, map.buf, rsp.content_len).bytes)

\* The class name and the header map, which heartbeats and errors do without.
readClass(heap, name, rsp, type) ==
    IF Len(name.bytes) < rsp.class_len THEN Answer("NOT_ENOUGH", <<>>)
    ELSE readContent(heap, readHeaderMap(heap, name.buf, header_len(rsp)), rsp, type)
readFields(heap, buf, rsp, type) ==
    IF rsp.cmdcode = "HEARTBEAT" \/ rsp.status # "SUCCESS" THEN Answer("OK", <<>>)
    ELSE readClass(heap, cut(heap, buf, rsp.class_len), rsp, type)
readHeader(heap, head, rsps, type) ==
    IF Len(head.bytes) < HeaderSize THEN Answer("NOT_ENOUGH", <<>>)
    ELSE IF HeaderOf(head.bytes) = 0 THEN Answer("ERROR", <<>>)
    ELSE readFields(heap, head.buf, rsps[HeaderOf(head.bytes)], type)

\* deserialize, on the buffer cut for the session, into a response object that
\* takes a string or a protobuf message.
deserialize(heap, buf, rsps, type) == readHeader(heap, cut(heap, buf, HeaderSize), rsps, type)
===============================================================================
