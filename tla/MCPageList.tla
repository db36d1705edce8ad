----------------------------- MODULE MCPageList -----------------------------
EXTENDS PageList
MCDeltas == {-2, -1, 1, 2}
=============================================================================
