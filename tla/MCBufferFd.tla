----------------------------- MODULE MCBufferFd ------------------------------
(* Small instances of BufferFd. *)
EXTENDS BufferFd, TLC

MCNumbers == 0..1
MCCounts == {3, 9}
MCSymmetry == Permutations(Objects)
=============================================================================
