----------------------------- MODULE MCLiveWith -----------------------------
\* LiveWith with the host, the viewer and two others.  The others are not
\* interchangeable with the viewer but are with one another.
EXTENDS LiveWith, TLC

OtherSymmetry == Permutations(Other)
=============================================================================
