---------------------------- MODULE MCStreamMux ----------------------------
EXTENDS StreamMux, TLC

CONSTANTS s1, s2, none
TwoStreams == {s1, s2}
OneStream == {s1}
Symmetry == Permutations(TwoStreams)
=============================================================================
