--------------------------- MODULE MCKnockDoorman ---------------------------
EXTENDS KnockDoorman, TLC

CONSTANTS d1, d2, k1, k2

Interchangeable == Permutations(Knock) \cup Permutations(Doorman)

\* ended only remembers: no guard reads it, nor does NeverReplaced.
Forgetful == <<ledger, local, calls, agent, queued, notes>>
=============================================================================
