------------------------------ MODULE MCStorage ------------------------------
EXTENDS Storage

CONSTANTS c1, c2, c3, p1, p2

MCConsumers == {c1, c2, c3}
MCProducers == {p1, p2}
==============================================================================
