---------------------------- MODULE MCMessageFeed ----------------------------
EXTENDS MessageFeed

CONSTANTS p1, p2, reader, listener

MCPosters == {p1, p2}
MCPagers == {reader}
MCListeners == {listener}
==============================================================================
