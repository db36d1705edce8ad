--------------------------- MODULE MCWriterThread ---------------------------
(* Instances of WriterThread for TLC: two window sizes.                     *)
EXTENDS WriterThread
TwoSizes == {1, 2}
=============================================================================
