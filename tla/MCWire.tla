-------------------------------- MODULE MCWire --------------------------------
(* One connection with two calls, over BOLT or HTTP.  A block holds four       *)
(* bytes and a readv takes at most three, as 8192 and 4096 in the code: a read *)
(* meets one block or two.                                                     *)
EXTENDS Wire

MCCalls == 1..2
Bolt(cmd, code, class_len, kvs, content_len) ==
    [cmdcode |-> cmd, status |-> code, class_len |-> class_len, kvs |-> kvs,
     content_len |-> content_len]
MCBolt(c) ==
    IF c = 1 THEN {Bolt("RESPONSE", "SUCCESS", 1, <<<<1, 1>>>>, 2)}
    ELSE {Bolt("RESPONSE", "SUCCESS", 0, <<>>, 1), Bolt("RESPONSE", "ERROR", 1, <<>>, 0),
          Bolt("HEARTBEAT", "SUCCESS", 0, <<>>, 0)}

Length(a, b) == <<"content-length", <<Digit(a), Digit(b)>>>>
Other == <<"x-header", Word("text")>>
Http(minor, code, headers, coding, body) ==
    [cmdcode |-> "HTTP", minor |-> minor, status |-> code, headers |-> headers,
     coding |-> coding, body |-> body]
MCHttp(c) ==
    IF c = 1 THEN {Http(1, 204, <<>>, "none", 0)}
    ELSE {Http(1, 200, <<Length(0, 2), Other>>, "length", 2),
          Http(1, 200, <<<<"transfer-encoding", Word("chunked")>>>>, "chunked", 2),
          Http(1, 200, <<<<"connection", Word("close")>>, Length(0, 0)>>, "length", 0),
          Http(0, 200, <<Other>>, "eof", 1)}

\* The answers of the first and the second call differ, so that a mix-up shows.
MCResponses(p, c) == IF p = "BOLT" THEN MCBolt(c) ELSE MCHttp(c)
MCDataTypes(p, c) ==
    IF p = "HTTP" THEN {"STRING"} ELSE IF c = 1 THEN {"PROTOBUF"} ELSE {"STRING", "CSTRING", "NONE"}
\* A request of seven bytes in one part or two; over HTTP, where the calls do not
\* contend for the lock, in one.
MCWriteSizes(p) == IF p = "HTTP" THEN {7} ELSE {4, 7}
===============================================================================
