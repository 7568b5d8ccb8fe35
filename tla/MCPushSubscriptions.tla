-------------------------- MODULE MCPushSubscriptions --------------------------
\* Two browsers for a store of one, two senders and both topics.
EXTENDS PushSubscriptions

CONSTANTS a1, a2, x1, x2, s1, s2
===============================================================================
