--------------------------- MODULE MCChannelPool ---------------------------
EXTENDS ChannelPool, TLC
=============================================================================
