---------------------------- MODULE MCPageFetch ----------------------------
\* Constants of the runs of PageFetch.
EXTENDS PageFetch

CONSTANTS s1, s2

MCSockets == {s1, s2}
=============================================================================
