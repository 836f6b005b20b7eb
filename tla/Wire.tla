--------------------------------- MODULE Wire ---------------------------------
(***************************************************************************)
(* One connection carrying bytes: callers write requests (session.cpp,      *)
(* Socket::write), a server answers, and the thread of the event loop reads  *)
(* the answers (Socket::onRead, cutIntoMessage) and hands each to a session. *)
(* Bytes are in an IOBuffer on either side and travel in fragments of any    *)
(* size.  The life of a session is the subject of SocketReadSession; here a  *)
(* session is in _session_map from prepareRead until it is reclaimed.        *)
(***************************************************************************)
EXTENDS HttpProtocol, Integers, TLC

CONSTANTS Calls,              \* 1..n, the request ids of the calls made
          Protocols,          \* a subset of {"BOLT", "HTTP"}
          DataTypes(_, _),    \* how a call may give its data
          Responses(_, _),    \* what the server may answer a call, by protocol
          MIN_ONCE_READ,      \* the room of one readv, in bytes
          ReadSizes,          \* how many bytes one readv may take
          WriteSizes(_),      \* how many bytes one writev may take, by protocol
          MaxEagain           \* how often writev may find the socket full

Reader == 0                   \* the thread of the event loop

VARIABLES
    protocol,                 \* the channel's protocol
    heap, chain,              \* of each thread: its blocks, its chain of blocks
    pc, data_type, write_buf, cur_size,   \* of each call: its thread in Session::send
    _write_mtx,               \* the call in Socket::write, 0 if none
    out, in, closed,          \* bytes on their way, and if the server has closed
    received, answer,         \* requests the server has read; its answers
    rpc, status, _read_buf, _read_additional_data, _session_map,   \* of the socket
    notified, read_buf, data, \* of the sessions
    result,                   \* what each call returned
    eagain, mixed             \* history: writes that met EAGAIN; HTTP answers that
                              \* came with several sessions in the map or outstanding

memory == <<heap, chain>>
calls == <<pc, data_type, write_buf, cur_size, _write_mtx, result>>
server == <<received, answer, closed>>
socket == <<rpc, status, _read_buf, _read_additional_data, _session_map, mixed>>
sessions == <<notified, read_buf, data>>
vars == <<protocol, memory, calls, out, in, server, socket, sessions, eagain>>

NoAnswer == [cmdcode |-> "NONE"]
NoResult == [ret |-> "NONE"]

Init ==
    /\ protocol \in Protocols
    /\ heap = [t \in Calls \cup {Reader} |-> <<>>] /\ chain = [t \in Calls \cup {Reader} |-> <<>>]
    /\ pc = [c \in Calls |-> "idle"] /\ data_type = [c \in Calls |-> "NONE"]
    /\ write_buf = [c \in Calls |-> EmptyBuffer] /\ cur_size = [c \in Calls |-> 0]
    /\ _write_mtx = 0 /\ result = [c \in Calls |-> NoResult]
    /\ out = <<>> /\ in = <<>> /\ closed = FALSE
    /\ received = <<>> /\ answer = [c \in Calls |-> NoAnswer]
    /\ rpc = "idle" /\ status = "OK" /\ _read_buf = EmptyBuffer
    /\ _read_additional_data = <<>> /\ _session_map = {} /\ mixed = FALSE
    /\ notified = {} /\ read_buf = [c \in Calls |-> EmptyBuffer] /\ data = [c \in Calls |-> <<>>]
    /\ eagain = 0

\* Every block a thread's buffers refer to was filled by that thread, but for the
\* buffers of the sessions, which refer to blocks of the reader.
Mem(t) == [heap |-> heap[t], chain |-> chain[t]]
SetMem(t, m) == heap' = [heap EXCEPT ![t] = m.heap] /\ chain' = [chain EXCEPT ![t] = m.chain]
SetRequest(c, a) == SetMem(c, a.mem) /\ write_buf' = [write_buf EXCEPT ![c] = a.buf]
SetReadBuf(a) == SetMem(Reader, a.mem) /\ _read_buf' = a.buf

-------------------------------------------------------------------------------
(* A call: Session::send up to the wait, and Socket::write.                   *)

\* The request is assembled and the session registered with the socket.  Over
\* HTTP a call follows the return of the one before it, as on the sockets that a
\* pooled or short channel lends to one call at a time.
assemble(c, type) ==
    /\ pc[c] = "idle"
    /\ protocol = "HTTP" =>
         \A d \in Calls : d < c => pc[d] \in {"done", "timeout", "failed"}
    /\ SetRequest(c, IF protocol = "HTTP" THEN assembleHttpRequest(Mem(c), c, type)
                     ELSE serialize(Mem(c), c, type))
    /\ data_type' = [data_type EXCEPT ![c] = type]
    /\ _session_map' = _session_map \cup {c}
    /\ pc' = [pc EXCEPT ![c] = "write"]
    /\ UNCHANGED <<protocol, cur_size, _write_mtx, result, out, in, server, rpc, status,
                   _read_buf, _read_additional_data, mixed, sessions, eagain>>

\* Variant: the lock is not taken.
write_unlocked(c) ==
    /\ pc[c] = "write"
    /\ pc' = [pc EXCEPT ![c] = "writing"]
    /\ UNCHANGED <<protocol, memory, data_type, write_buf, cur_size, _write_mtx, result, out,
                   in, server, socket, sessions, eagain>>

\* The write begins when the lock is free.
write(c) ==
    /\ pc[c] = "write" /\ _write_mtx = 0
    /\ _write_mtx' = c
    /\ pc' = [pc EXCEPT ![c] = "writing"]
    /\ UNCHANGED <<protocol, memory, data_type, write_buf, cur_size, result, out, in, server,
                   socket, sessions, eagain>>

\* Socket::write returns: true leads to the wait, false ends the call.  Neither
\* the request's buffer nor the memory of the calling thread is used again.
writeReturns(c, ok) ==
    /\ _write_mtx' = 0
    /\ SetMem(c, [heap |-> <<>>, chain |-> <<>>])
    /\ write_buf' = [write_buf EXCEPT ![c] = EmptyBuffer]
    /\ cur_size' = [cur_size EXCEPT ![c] = 0]
    /\ pc' = [pc EXCEPT ![c] = IF ok THEN "wait" ELSE "failed"]

\* The time of the call ran out before the lock was free: nothing is written.
writeLate(c) ==
    /\ pc[c] = "write" /\ _write_mtx = 0
    /\ writeReturns(c, FALSE)
    /\ UNCHANGED <<protocol, data_type, result, out, in, server, socket, sessions, eagain>>

\* The size the write set out with.
buffer_size(c) == FrameLen(data_type[c])

\* One round of the loop in which writev takes nw bytes.
cut_into_file_descriptor(c, nw) ==
    /\ pc[c] = "writing" /\ nw > 0
    /\ out' = out \o copy_to(heap[c], write_buf[c], nw)
    /\ IF cur_size[c] + nw >= buffer_size(c) THEN writeReturns(c, TRUE)
       ELSE /\ write_buf' = [write_buf EXCEPT ![c] = pop_front(@, nw)]
            /\ cur_size' = [cur_size EXCEPT ![c] = @ + nw]
            /\ UNCHANGED <<pc, _write_mtx, memory>>
    /\ UNCHANGED <<protocol, data_type, result, in, server, socket, sessions, eagain>>

\* A round in which writev fails with EAGAIN: -1 is added to cur_size, a size_t,
\* so a write that has sent nothing yet ends as if it had sent everything.
writeEagain(c) ==
    /\ pc[c] = "writing" /\ length(write_buf[c]) > 0
    /\ eagain < MaxEagain
    /\ eagain' = eagain + 1
    /\ IF cur_size[c] = 0 THEN writeReturns(c, TRUE)
       ELSE /\ cur_size' = [cur_size EXCEPT ![c] = @ - 1]
            /\ UNCHANGED <<pc, _write_mtx, write_buf, memory>>
    /\ UNCHANGED <<protocol, data_type, result, out, in, server, socket,
                   sessions>>

\* A round on an empty buffer, which a write that met EAGAIN comes to: the
\* vector is read past its end, so writev gets a stray slice, or fails.
writeStray(c) ==
    /\ pc[c] = "writing" /\ length(write_buf[c]) = 0
    /\ \/ /\ out' = Append(out, <<"stray", c, 0>>)
          /\ IF cur_size[c] + 1 >= buffer_size(c) THEN writeReturns(c, TRUE)
             ELSE /\ cur_size' = [cur_size EXCEPT ![c] = @ + 1]
                  /\ UNCHANGED <<pc, _write_mtx, write_buf, memory>>
          /\ UNCHANGED status
       \/ /\ status' = "WRITE_ERROR"
          /\ writeReturns(c, FALSE)
          /\ UNCHANGED out
    /\ UNCHANGED <<protocol, data_type, result, in, server, rpc, _read_buf,
                   _read_additional_data, _session_map, mixed, sessions, eagain>>

\* writev fails because the server has closed.
writeError(c) ==
    /\ pc[c] = "writing" /\ closed
    /\ status' = "WRITE_ERROR"
    /\ writeReturns(c, FALSE)
    /\ UNCHANGED <<protocol, data_type, result, out, in, server, rpc,
                   _read_buf, _read_additional_data, _session_map, mixed, sessions, eagain>>

\* The timer notifies first: the call returns READ_TIMEOUT.
timeout(c) ==
    /\ pc[c] = "wait" /\ c \notin notified
    /\ pc' = [pc EXCEPT ![c] = "timeout"]
    /\ UNCHANGED <<protocol, memory, data_type, write_buf, cur_size, _write_mtx, result, out,
                   in, server, socket, sessions, eagain>>

\* postProcess: the call reads its response from the buffer it was given.  Who
\* sends a protobuf message expects one.
postProcess(c) ==
    /\ pc[c] = "wait" /\ c \in notified
    /\ result' = [result EXCEPT ![c] =
                    IF protocol = "HTTP" THEN deserializeHttp(data[c])
                    ELSE deserialize(heap[Reader], read_buf[c], answer, data_type[c])]
    /\ pc' = [pc EXCEPT ![c] = "done"]
    /\ read_buf' = [read_buf EXCEPT ![c] = EmptyBuffer]
    /\ data' = [data EXCEPT ![c] = <<>>]
    /\ UNCHANGED <<protocol, memory, data_type, write_buf, cur_size, _write_mtx, out, in,
                   server, socket, notified, eagain>>

-------------------------------------------------------------------------------
(* The server (external): it reads whole requests off the connection, answers *)
(* each once (BOLT in any order, HTTP in the order of the requests), and may   *)
(* close when it has answered.                                                *)

\* The whole request at the front of the bytes sent, 0 if there is none.
FirstRequest ==
    IF out = <<>> \/ out[1][1] # "req" THEN 0
    ELSE LET c == out[1][2] IN IF IsPrefix(Frame(c, data_type[c]), out) THEN c ELSE 0

receive ==
    /\ FirstRequest # 0
    /\ received' = Append(received, FirstRequest)
    /\ out' = SubSeq(out, FrameLen(data_type[FirstRequest]) + 1, Len(out))
    /\ UNCHANGED <<protocol, memory, calls, in, answer, closed, socket, sessions, eagain>>

reply(i, rsp) ==
    /\ ~closed /\ i \in DOMAIN received
    /\ protocol = "HTTP" => i = 1
    /\ LET c == received[i]
       IN  /\ answer' = [answer EXCEPT ![c] = rsp]
           /\ in' = in \o (IF protocol = "HTTP" THEN HttpResponseBytes(c, rsp)
                           ELSE ResponseBytes(c, rsp))
    /\ received' = RemoveAt(received, i)
    /\ UNCHANGED <<protocol, memory, calls, out, closed, socket, sessions, eagain>>

close ==
    /\ ~closed /\ \E c \in Calls : answer[c] # NoAnswer
    /\ closed' = TRUE
    /\ UNCHANGED <<protocol, memory, calls, out, in, received, answer, socket, sessions, eagain>>

-------------------------------------------------------------------------------
(* Socket::onRead.                                                            *)

\* tryReclaimSessionMap erases the sessions that nobody shares any more; when
\* the timer lets go of a finished one is not modelled here.
tryReclaimSessionMap ==
    \E gone \in SUBSET {c \in _session_map : pc[c] \in {"done", "timeout", "failed"}} :
        _session_map' = _session_map \ gone

\* The event loop calls onRead; a socket that is not active reads nothing.
onRead ==
    /\ rpc = "idle" /\ (in # <<>> \/ closed)
    /\ IF status = "OK" THEN rpc' = "read" /\ UNCHANGED _session_map
       ELSE rpc' = "idle" /\ tryReclaimSessionMap
    /\ UNCHANGED <<protocol, memory, calls, out, in, server, status, _read_buf,
                   _read_additional_data, mixed, sessions, eagain>>

\* One readv: nr bytes, the end of file, or EAGAIN, which ends onRead.
append_from_fd(nr) ==
    /\ rpc = "read" /\ nr <= Len(in)
    /\ (nr = 0) => in = <<>>
    /\ SetReadBuf(append_from_file_descriptor(Mem(Reader), _read_buf, MIN_ONCE_READ,
                                              SubSeq(in, 1, nr)))
    /\ in' = SubSeq(in, nr + 1, Len(in))
    /\ \/ nr > 0 /\ rpc' = "cut" /\ UNCHANGED <<status, _session_map>>
       \/ nr = 0 /\ closed /\ rpc' = "cutEof" /\ status' = "CLOSED_BY_SERVER"
          /\ UNCHANGED _session_map
       \/ nr = 0 /\ ~closed /\ rpc' = "idle" /\ tryReclaimSessionMap /\ UNCHANGED status
    /\ UNCHANGED <<protocol, calls, out, server, _read_additional_data, mixed, sessions, eagain>>

\* The inner loop ends: back to readv, unless the end of file was seen.
Leave(reclaim) ==
    IF rpc = "cut" /\ ~reclaim THEN rpc' = "read" /\ UNCHANGED _session_map
    ELSE rpc' = "idle" /\ tryReclaimSessionMap

\* cutIntoMessage when it finds no whole message, or what is no message.
noMessage(h) ==
    /\ h.ret # "OK"
    /\ Leave(h.ret = "ERROR")
    /\ status' = IF h.ret = "ERROR" THEN "READ_ERROR" ELSE status
noHttpMessage(h) ==
    noMessage(h) /\ _read_buf' = pop_front(_read_buf, h.nr) /\ _read_additional_data' = h.parser

cutNothing ==
    /\ rpc \in {"cut", "cutEof"}
    /\ \/ /\ length(_read_buf) = 0
          /\ Leave(FALSE)
          /\ UNCHANGED <<status, _read_buf, _read_additional_data>>
       \/ /\ length(_read_buf) > 0 /\ protocol = "BOLT"
          /\ noMessage(checkHeader(heap[Reader], _read_buf, answer))
          /\ UNCHANGED <<_read_buf, _read_additional_data>>
       \/ /\ length(_read_buf) > 0 /\ protocol = "HTTP"
          /\ noHttpMessage(checkHttpHeader(heap[Reader], _read_buf, _read_additional_data))
    /\ UNCHANGED <<protocol, memory, calls, out, in, server, mixed, sessions, eagain>>

\* SocketReadSession::notify succeeds once, unless the timer was first.
notify(c) == notified' = IF pc[c] = "timeout" THEN notified ELSE notified \cup {c}

\* Variant: the message is taken off the buffer but not handed over.
cutBolt_lost ==
    /\ rpc \in {"cut", "cutEof"} /\ protocol = "BOLT" /\ length(_read_buf) > 0
    /\ LET h == checkHeader(heap[Reader], _read_buf, answer)
       IN  h.ret = "OK" /\ _read_buf' = pop_front(_read_buf, h.size)
    /\ UNCHANGED <<protocol, memory, calls, out, in, server, rpc, status, _session_map,
                   _read_additional_data, mixed, sessions, eagain>>

\* Variant: the message goes to any session that waits, as HTTP has to do.
handOver_any(h) ==
    /\ h.ret = "OK"
    /\ _read_buf' = pop_front(_read_buf, h.size)
    /\ \/ \E c \in _session_map :
            /\ read_buf' = [read_buf EXCEPT ![c] = cutInto(@, _read_buf, h.size)]
            /\ notify(c)
       \/ _session_map = {} /\ UNCHANGED <<read_buf, notified>>

\* cutIntoMessage for BOLT: the session is found by the id in the header; a
\* message nobody waits for is dropped.
handOver(h) ==
    /\ h.ret = "OK"
    /\ _read_buf' = pop_front(_read_buf, h.size)
    /\ IF h.id \in _session_map
       THEN /\ read_buf' = [read_buf EXCEPT ![h.id] = cutInto(@, _read_buf, h.size)]
            /\ notify(h.id)
       ELSE UNCHANGED <<read_buf, notified>>
cutBolt ==
    /\ rpc \in {"cut", "cutEof"} /\ protocol = "BOLT" /\ length(_read_buf) > 0
    /\ handOver(checkHeader(heap[Reader], _read_buf, answer))
    /\ UNCHANGED <<protocol, memory, calls, out, in, server, rpc, status, _session_map,
                   _read_additional_data, mixed, data, eagain>>

\* cutIntoMessage for HTTP: the session is whichever comes first in the hash
\* map.  It takes the parser; without a session the parser stays with the
\* socket.  0 is returned in either case, as if data were missing.
handOverParser(h) ==
    /\ h.ret = "OK"
    /\ _read_buf' = pop_front(_read_buf, h.nr)
    /\ \/ \E c \in _session_map :
            /\ data' = [data EXCEPT ![c] = h.parser]
            /\ notify(c)
            /\ _read_additional_data' = <<>>
       \/ /\ _session_map = {}
          /\ _read_additional_data' = h.parser
          /\ UNCHANGED <<data, notified>>
cutHttp ==
    /\ rpc \in {"cut", "cutEof"} /\ protocol = "HTTP" /\ length(_read_buf) > 0
    /\ handOverParser(checkHttpHeader(heap[Reader], _read_buf, _read_additional_data))
    /\ mixed' = (mixed \/ Cardinality(_session_map) # 1)
    /\ Leave(FALSE)
    /\ UNCHANGED <<protocol, memory, calls, out, in, server, status, read_buf, eagain>>

-------------------------------------------------------------------------------

Caller(c) ==
    \/ \E type \in DataTypes(protocol, c) : assemble(c, type)
    \/ write(c) \/ writeLate(c)
    \/ \E n \in WriteSizes(protocol) : cut_into_file_descriptor(c, Min({n, length(write_buf[c])}))
    \/ writeEagain(c) \/ writeStray(c) \/ writeError(c)
    \/ timeout(c) \/ postProcess(c)

Read == onRead \/ (\E nr \in {0} \cup ReadSizes : append_from_fd(nr))
        \/ cutNothing \/ cutBolt \/ cutHttp

Next ==
    \/ \E c \in Calls : Caller(c)
    \/ receive
    \/ \E i \in DOMAIN received : \E rsp \in Responses(protocol, received[i]) : reply(i, rsp)
    \/ close
    \/ Read

Spec == Init /\ [][Next]_vars

-------------------------------------------------------------------------------
(* Properties.                                                                *)

\* Bytes that are whole frames of requests, one after the other.
RECURSIVE WholeFrames(_)
WholeFrames(bytes) ==
    \/ bytes = <<>>
    \/ /\ bytes[1][1] = "req"
       /\ LET frame == Frame(bytes[1][2], data_type[bytes[1][2]])
          IN  IsPrefix(frame, bytes) /\ WholeFrames(Drop(bytes, Len(frame)))

\* What is on its way to the server, with what a call that has sent a part still
\* has in its buffer, is whole requests: the frames of two calls are never
\* interleaved, and the slices of a request, its header written last, are sent in
\* the order of the frame.  Said of connections on which no writev has failed or
\* met EAGAIN, and no request came as a C string, whose text is put before the header.
FramesWhole ==
    LET begun == SetToSeq({c \in Calls : cur_size[c] > 0})
        rest  == FlattenSeq([i \in DOMAIN begun |-> to_string(heap[begun[i]], write_buf[begun[i]])])
    IN  eagain = 0 /\ ~closed /\ (\A c \in Calls : data_type[c] # "CSTRING")
            => WholeFrames(out \o rest)

\* Bytes that are whole BOLT responses, one after the other.
RECURSIVE WholeResponses(_)
WholeResponses(bytes) ==
    \/ bytes = <<>>
    \/ /\ bytes[1][1] = "head"
       /\ LET rsp == ResponseBytes(bytes[1][2], answer[bytes[1][2]])
          IN  IsPrefix(rsp, bytes) /\ WholeResponses(Drop(bytes, Len(rsp)))

\* The read buffer of a BOLT connection and the bytes still to be read are whole
\* responses, whatever the fragments were: no byte is lost, doubled or moved by
\* the slices over blocks that are still being filled.
ReadStreamWhole ==
    protocol = "BOLT" => WholeResponses(to_string(heap[Reader], _read_buf) \o in)

\* Both streams of a connection are whole.
StreamsWhole == FramesWhole /\ ReadStreamWhole

\* The header values of a response, without the commas that onHeaderValue puts
\* between two fragments.
Plain(header) ==
    {<<header[i][1], SelectSeq(header[i][2], LAMBDA ch : ch # Comma)>> : i \in DOMAIN header}
Sent(shape) ==
    {<<Word(shape.headers[i][1]), SelectSeq(shape.headers[i][2], LAMBDA ch : ch # Comma)>> :
        i \in DOMAIN shape.headers}

\* An HTTP answer can be matched: no call has given up, and no answer has come
\* while another session was in the map.
Unmixed == ~mixed /\ \A c \in Calls : pc[c] \notin {"timeout", "failed"}

\* The answers of the server never make the socket take the connection for
\* broken: neither checkHeader finds an error in them.
NeverMisread == Unmixed \/ protocol = "BOLT" => status # "READ_ERROR"

\* A call that returns has the content the server sent for that very call: BOLT
\* in every case, HTTP when Unmixed, and then the headers too, up to commas.
\* And no answer breaks the connection.
AnswersOwn ==
    NeverMisread /\ \A c \in Calls : pc[c] = "done" =>
        CASE protocol = "BOLT" ->
               /\ result[c].ret = "OK"
               /\ result[c].content =
                    IF answer[c].cmdcode = "RESPONSE" /\ answer[c].status = "SUCCESS"
                    THEN Run("data", c, 1, answer[c].content_len) ELSE <<>>
          [] protocol = "HTTP" -> Unmixed =>
               /\ result[c].ret = "OK"
               /\ result[c].content = Body(c, answer[c].body)
               /\ Plain(result[c].header) = Sent(answer[c])

\* When the reader has taken all there is to read, no answer is left behind: a
\* call that still waits has not been answered, though onRead stops looking at
\* the buffer on the first 0 of cutIntoMessage.  HTTP: when Unmixed, and when the
\* answer says where it ends, since the parser is never told of an end of file.
NothingLeftBehind ==
    rpc = "idle" /\ in = <<>> /\ status = "OK" =>
        \A c \in Calls : pc[c] = "wait" /\ answer[c] # NoAnswer =>
            \/ c \in notified
            \/ protocol = "HTTP" /\ (~Unmixed \/ answer[c].coding = "eof")
===============================================================================
