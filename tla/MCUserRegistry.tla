--------------------------- MODULE MCUserRegistry ---------------------------
EXTENDS UserRegistry

CONSTANTS c1, c2, ann, bob

MCClients == {c1, c2}
MCNames == {ann, bob}
==============================================================================
