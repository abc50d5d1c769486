---------------------------- MODULE MCQuicStreams ----------------------------
(* Instances of QuicStreams for TLC. *)
EXTENDS QuicStreams, TLC

CONSTANTS client, server, s1, s2

\* Slots are interchangeable, and so are streams.
Symmetry == Permutations(Slot) \cup Permutations(Stream)
=============================================================================
