------------------------------ MODULE MCResync ------------------------------
EXTENDS Resync

CONSTANT MaxLen    \* longest output of gzip considered

MCByte == 0..2

\* gzip never writes an empty stream, not even for an empty file.
MCPlains == UNION {[1..n -> MCByte] : n \in 1..MaxLen}
=============================================================================
