---------------------------- MODULE MCRoundTrip ----------------------------
EXTENDS RoundTrip

CONSTANT MaxLen    \* longest output of gzip considered

MCByte == 0..2

\* As PlainsNotEmpty has it.
MCPlains == UNION {[1..n -> MCByte] : n \in 1..MaxLen}
=============================================================================
