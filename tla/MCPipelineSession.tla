-------------------------- MODULE MCPipelineSession --------------------------
EXTENDS PipelineSession, TLC

CONSTANTS first, second, again

\* A channel with max_retry 1 and two requests, one with max_retry 2 and one.
MCPipelines == {<<>>, <<first, second>>, <<again>>}
MCRetry == first :> 1 @@ second :> 1 @@ again :> 2
==============================================================================
