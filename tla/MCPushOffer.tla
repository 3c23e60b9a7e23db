---------------------------- MODULE MCPushOffer ----------------------------
\* Two names and four requests of every kind.
EXTENDS PushOffer
=============================================================================
