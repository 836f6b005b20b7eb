--------------------------- MODULE PipelineSession ---------------------------
(***************************************************************************)
(* PipelineSession::sync (src/session/session.cpp): one thread makes an    *)
(* asynchronous call for each request, one after the other, and waits for  *)
(* a promise that the last callback sets.  Each call is one of module      *)
(* SocketReadSession, whose steps are taken here by three threads: the one *)
(* in sync(), the reader and the timer thread.  All three run callbacks,   *)
(* and ++info->received_size is a load and a store.                        *)
(***************************************************************************)
EXTENDS SocketReadSession, FiniteSets

CONSTANT Pipelines   \* what pipe() may have been called with; a call is in one of them
ASSUME PipelinesAssumption == Pipelines \subseteq Seq(AsyncCallers)

Threads == Notifiers \cup {"sync"}
None == -1

VARIABLES _requests,      \* the calls to make, in the order of pipe()
          ppc,            \* of sync(): "begin", "sending", "waiting", "returned", "threw"
          i,              \* the request that is being sent
          error,          \* _session._error_code when sync() returns
          status, received_size, promise,    \* of ParallelAsyncInfo
          loaded,         \* of a thread in a callback: received_size as it was loaded
          overlapped,     \* two callbacks have counted at a time (history)
          answered        \* calls whose callback was given a parsed answer (history)

total_size == Len(_requests)
Piped == {_requests[k] : k \in DOMAIN _requests}

info == <<status, received_size, promise, loaded, overlapped, answered>>
pvars == <<vars, _requests, ppc, i, error, info>>

PInit ==
  /\ Init
  /\ _requests \in Pipelines
  /\ ppc = "begin" /\ i = 1 /\ error = "SESSION_OK"
  /\ status = [c \in Callers |-> "SESSION_OK"]
  /\ received_size = 0 /\ promise = FALSE
  /\ loaded = [t \in Threads |-> None] /\ overlapped = FALSE
  /\ answered = {}

\* The outcome that a callback is told.
Told(t, c) ==
  CASE t = "sync" -> {_error_code[c]}
    [] t = "Timeout" -> {"READ_TIMEOUT"}
    [] OTHER -> {"SESSION_OK", "PARSE_RESPONSE_FAIL"}

\* Thread t takes a step A of module SocketReadSession.  When A runs the
\* callback of a call, status is stored and received_size is loaded.
Runs(t, A) ==
  /\ loaded[t] = None
  /\ A
  /\ IF invoked' = invoked THEN UNCHANGED info
     ELSE /\ \E c \in Callers : \E e \in Told(t, c) :
               /\ invoked'[c] # invoked[c]
               /\ status' = [status EXCEPT ![c] = e]
               /\ answered' = IF t = "OnRead" /\ e = "SESSION_OK" THEN answered \cup {c} ELSE answered
          /\ loaded' = [loaded EXCEPT ![t] = received_size]
          /\ overlapped' = (overlapped \/ \E u \in Threads : loaded[u] # None)
          /\ UNCHANGED <<received_size, promise>>
  /\ UNCHANGED <<_requests, ppc, i, error>>

\* received_size is stored, and the promise is set if it is the last.
count(t) ==
  /\ loaded[t] # None
  /\ received_size' = loaded[t] + 1
  /\ promise' = (promise \/ received_size' = total_size)
  /\ loaded' = [loaded EXCEPT ![t] = None]
  /\ UNCHANGED <<vars, _requests, ppc, i, error, status, overlapped, answered>>

\* The calls cs are not made.
Unmade(cs) ==
  /\ pc' = [c \in Callers |-> IF c \in cs /\ pc[c] = "begin" THEN "done" ELSE pc[c]]
  /\ UNCHANGED <<attempt, _error_code, has_callback, heap, timer, _session_info, reader, thread,
                 history>>

\* Nothing to send, or no channel to send it to.
sync_begin ==
  /\ ppc = "begin"
  /\ \/ /\ total_size > 0
        /\ ppc' = "sending"
        /\ Unmade(Callers \ Piped)
        /\ UNCHANGED error
     \/ /\ ppc' = "returned"
        /\ error' = IF total_size = 0 THEN "SESSION_OK" ELSE "PROTOCOL_NOT_FOUND"
        /\ Unmade(Callers)
  /\ UNCHANGED <<_requests, i, info>>

sync_send == ppc = "sending" /\ Runs("sync", caller(_requests[i]))

\* async() has returned: the next request, or wait for the answers.
sync_next ==
  /\ ppc = "sending" /\ pc[_requests[i]] = "done" /\ loaded["sync"] = None
  /\ ppc' = IF i = total_size THEN "waiting" ELSE "sending"
  /\ i' = IF i = total_size THEN i ELSE i + 1
  /\ UNCHANGED <<vars, _requests, error, info>>

\* async() has thrown, and so does sync().
sync_throw ==
  /\ ppc = "sending" /\ pc[_requests[i]] = "threw"
  /\ ppc' = "threw"
  /\ Unmade(Callers)
  /\ UNCHANGED <<_requests, i, error, info>>

\* Variant: each request overwrites what the one before it reported.
sync_collect_last ==
  /\ ppc = "waiting" /\ promise
  /\ ppc' = "returned"
  /\ error' = IF status[_requests[i]] # "SESSION_OK" THEN "READ_FAIL"
              ELSE _error_code[_requests[i]]
  /\ UNCHANGED <<vars, _requests, i, info>>

\* The promise is set: one request that failed makes the pipeline fail.
sync_collect ==
  /\ ppc = "waiting" /\ promise
  /\ ppc' = "returned"
  /\ error' = IF \E c \in Piped : status[c] # "SESSION_OK" THEN "READ_FAIL"
              ELSE _error_code[_requests[i]]
  /\ UNCHANGED <<vars, _requests, i, info>>

\* wait_for has run out.
sync_timeout ==
  /\ ppc = "waiting" /\ ~promise
  /\ ppc' = "returned"
  /\ error' = "READ_FAIL"
  /\ UNCHANGED <<vars, _requests, i, info>>

sync ==
  \/ sync_begin \/ sync_send \/ sync_next \/ sync_throw
  \/ sync_collect \/ sync_timeout \/ count("sync")
timerThread == Runs("Timeout", timeout) \/ count("Timeout")
readerThread ==
  \/ Runs("OnRead", onRead_continue \/ (at["OnRead"] = "message" /\ onRead_reclaim))
  \/ count("OnRead")
Keep(A) == A /\ UNCHANGED <<_requests, ppc, i, error, info>>
destruction == ppc \in {"returned", "threw"} /\ loaded["OnRead"] = None /\ Keep(destruct)

PNext ==
  \/ sync \/ timerThread \/ readerThread
  \/ \E r \in Sessions : Runs("OnRead", onRead_message(r))
  \/ Runs("OnRead", onRead_reclaim)
  \/ destruction \/ Keep(destruct_loop)

\* The fairness of SocketReadSession; wait_for ends.
PSpec ==
  /\ PInit /\ [][PNext]_pvars
  /\ WF_pvars(sync) /\ WF_pvars(timerThread) /\ WF_pvars(readerThread)
  /\ SF_pvars(destruction) /\ WF_pvars(Keep(destruct_loop))
------------------------------------------------------------------------------
\* sync() reports what happened (the callback of PipelineSession::sync).  The
\* promise is set only when every request's callback has run.  Success means that
\* every answer arrived and was parsed: SESSION_OK is what status holds from the
\* start, and neither a timeout nor a call that failed leaves it there.  And the
\* count of callbacks is exact unless two of them have counted at a time, which
\* can lose one but never add one.
PipelineCollects ==
  LET done == {c \in Callers : invoked[c] = 1}
      busy == {t \in Threads : loaded[t] # None}
  IN /\ promise => done = Piped
     /\ (ppc = "returned" /\ error = "SESSION_OK") => Piped \subseteq answered
     /\ received_size <= Cardinality(done)
     /\ ~overlapped => received_size = Cardinality(done) - Cardinality(busy)

\* A pipeline returns (or throws), whatever answers, timeouts, failing writes
\* and lost counts do to its callbacks: wait_for is there for what is lost.  And
\* the session of every request that was sent is freed in the end.
PipelineReturns == (ppc = "sending" ~> ppc \in {"returned", "threw"}) /\ WrittenFreed
==============================================================================
