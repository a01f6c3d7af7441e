---------------------------- MODULE MCBroadcast ----------------------------
\* Model checking of Broadcast: channels are alike, and so are publishers.
EXTENDS Broadcast

Symmetry == Permutations(Channels) \cup Permutations(Publishers)
=============================================================================
