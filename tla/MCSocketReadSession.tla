------------------------ MODULE MCSocketReadSession ------------------------
(* SocketReadSession for TLC. *)
EXTENDS SocketReadSession, TLC

CONSTANTS sync, async

\* max_retry is 1; the run of PipelineSession has a call that tries again.
MCRetry == sync :> 1 @@ async :> 1
=============================================================================
